-------------------------- MODULE WorkQueueProofs --------------------------
(***************************************************************************)
(* Proofs about the queues with many producers and one consumer, for every *)
(* number of threads, every set of nodes and every set of items: first of  *)
(* work_queue.c with the mpsc_fifo.h under it, then of mpsc_relaxed_fifo.h *)
(* with its spsc_fifo.h, whose variables are declared there.               *)
(***************************************************************************)
EXTENDS WorkQueue, FiniteSetTheorems, SequenceTheorems, NaturalsInduction,
        WellFoundedInduction, TLAPS

-----------------------------------------------------------------------------
(* The inductive invariant.                                                *)

\* How many items have been exchanged into the fifo and not popped.
Waiting == Len(pushed) - Len(popped)

\* c lists the nodes of the fifo from head to tail: the head carries nothing, the
\* others the waiting items in order.  A link that is missing belongs to a push
\* that has yet to make it.
Chain(c) ==
    /\ c[0] = head /\ c[Waiting] = tail /\ next[tail] = NULL
    /\ \A i, j \in 0 .. Waiting : c[i] = c[j] => i = j
    /\ \A i \in 0 .. Waiting : c[i] \notin owned
    /\ \A i \in 1 .. Waiting : data[c[i]] = pushed[Len(popped) + i]
    /\ \A i \in 0 .. Waiting - 1 :
          \/ next[c[i]] = c[i + 1]
          \/ next[c[i]] = NULL /\ \E t \in Threads : prev_tail[t] = c[i]
    /\ \A t \in Threads :
          new_node[t] # NULL =>
              \E i \in 0 .. Waiting - 1 :
                  prev_tail[t] = c[i] /\ new_node[t] = c[i + 1] /\ next[c[i]] = NULL

\* Unfinished pushes link different nodes.
PushesInv ==
    /\ \A t \in Threads : new_node[t] = NULL <=> prev_tail[t] = NULL
    /\ \A t, u \in Threads :
          prev_tail[t] = prev_tail[u] /\ prev_tail[t] # NULL => t = u

FifoInv ==
    /\ FifoTypeOK /\ FifoOrder /\ PushesInv
    /\ \E c \in [0 .. Waiting -> Nodes] : Chain(c)

\* An item on its way in is a node of the callers' with fresh data, and no other
\* thread's.
EnteringInv ==
    /\ \A t \in Threads : pc[t] = "push_link" <=> new_node[t] # NULL
    /\ \A t \in Threads : pc[t] = "push_fifo" <=> item[t] # NULL
    /\ \A t \in Threads :
          item[t] # NULL => item[t].node \in owned /\ Unpushed(item[t].data)
    /\ \A t, u \in Threads :
          item[t] # NULL /\ item[u] # NULL /\ t # u =>
              item[t].node # item[u].node /\ item[t].data # item[u].data

\* There is a worker exactly while in_count is not zero, and only one.
RoleInv ==
    /\ SingleWorker
    /\ in_count = 0 <=> \A t \in Threads : ~working[t]
    /\ \A t \in Threads : working[t] => pc[t] # "idle"
    /\ \A t \in Threads :
          pc[t] \in {"get_pop", "get_test", "get_reset", "get_sub"} => working[t]

\* What in_count counts, between the worker's subtractions and inside one.
CountsInv ==
    /\ (\A t \in Threads : pc[t] # "get_sub") =>
          in_count = Cardinality(Entering) + Waiting + out_count
    /\ \A t \in Threads :
          pc[t] = "get_sub" =>
              /\ out_count = 0
              /\ in_count = Cardinality(Entering) + Waiting + old_out_count[t]

IInv == TypeOK /\ FifoInv /\ EnteringInv /\ RoleInv /\ CountsInv

-----------------------------------------------------------------------------
(* The fifo.                                                               *)

\* The lengths are numbers, and no more is popped than was pushed.
LEMMA WaitingType ==
    ASSUME FifoTypeOK, FifoOrder
    PROVE  Len(pushed) \in Nat /\ Len(popped) \in Nat /\ Waiting \in Nat
BY DEF FifoTypeOK, FifoOrder, Waiting

\* mpsc_fifo_init: the chain is the first node.
LEMMA InitFifo == FifoInit => FifoInv
<1> SUFFICES ASSUME FifoInit PROVE FifoInv
  OBVIOUS
<1>1. head \in Nodes
  BY NodesAssumption DEF FifoInit
<1>2. FifoTypeOK /\ FifoOrder /\ PushesInv /\ Waiting = 0
  BY <1>1 DEF FifoInit, FifoTypeOK, FifoOrder, PushesInv, Waiting
<1> DEFINE c == [i \in 0 .. Waiting |-> head]
<1>3. Chain(c)
  BY <1>1, <1>2 DEF FifoInit, Chain
<1>4. QED
  BY <1>1, <1>2, <1>3 DEF FifoInv

\* The exchange puts the node at the end of the chain; the link to it is missing.
LEMMA ExchangeFifo ==
    ASSUME FifoInv, NEW t \in Threads, NEW n \in Nodes, NEW v \in Items,
           PushExchange(t, n, v)
    PROVE  FifoInv' /\ Waiting' = Waiting + 1
<1> USE NullAssumption
<1>1. PICK c \in [0 .. Waiting -> Nodes] : Chain(c)
  BY DEF FifoInv
<1>2. /\ new_node[t] = NULL /\ n \in owned /\ owned' = owned \ {n}
      /\ data' = [data EXCEPT ![n] = v] /\ next' = [next EXCEPT ![n] = NULL]
      /\ tail' = n /\ new_node' = [new_node EXCEPT ![t] = n]
      /\ prev_tail' = [prev_tail EXCEPT ![t] = tail]
      /\ pushed' = Append(pushed, v) /\ head' = head /\ popped' = popped
  BY DEF PushExchange
<1>3. FifoTypeOK'
  BY <1>2 DEF FifoInv, FifoTypeOK
<1>4. /\ Len(pushed') = Len(pushed) + 1 /\ pushed'[Len(pushed) + 1] = v
      /\ \A i \in 1 .. Len(pushed) : pushed'[i] = pushed[i]
      /\ Len(pushed) \in Nat /\ Len(popped) \in Nat
  BY <1>2 DEF FifoInv, FifoTypeOK
<1>5. Waiting \in Nat /\ Waiting' = Waiting + 1 /\ Len(pushed) = Len(popped) + Waiting
  BY <1>2, <1>4, WaitingType DEF FifoInv, Waiting
<1>6. FifoOrder'
  BY <1>2, <1>4 DEF FifoInv, FifoOrder
<1>7. \A i \in 0 .. Waiting : c[i] # n /\ c[i] \in Nodes
  BY <1>1, <1>2 DEF Chain
<1>8. \A u \in Threads : prev_tail[u] # tail
  <2> SUFFICES ASSUME NEW u \in Threads, prev_tail[u] = tail PROVE FALSE
    OBVIOUS
  <2>1. new_node[u] # NULL
    BY DEF FifoInv, FifoTypeOK, PushesInv
  <2>2. PICK i \in 0 .. Waiting - 1 : prev_tail[u] = c[i]
    BY <1>1, <2>1 DEF Chain
  <2>3. QED
    BY <1>1, <1>5, <2>2 DEF Chain
<1>9. PushesInv'
  BY <1>2, <1>8 DEF FifoInv, FifoTypeOK, PushesInv
<1>10. PICK d \in [0 .. Waiting + 1 -> Nodes] :
          d[Waiting + 1] = n /\ \A i \in 0 .. Waiting : d[i] = c[i]
  <2> DEFINE e == [i \in 0 .. Waiting + 1 |-> IF i <= Waiting THEN c[i] ELSE n]
  <2>1. e \in [0 .. Waiting + 1 -> Nodes]
    BY <1>5, <1>7
  <2>2. e[Waiting + 1] = n /\ \A i \in 0 .. Waiting : e[i] = c[i]
    BY <1>5
  <2>3. QED
    BY <2>1, <2>2
<1>11. d[Waiting + 1] = n /\ \A i \in 0 .. Waiting : d[i] = c[i]
  BY <1>10
<1>12. Chain(d)'
  <2>1. d[0] = head' /\ d[Waiting'] = tail' /\ next'[tail'] = NULL
    BY <1>1, <1>2, <1>5, <1>11 DEF Chain, FifoInv, FifoTypeOK
  <2>2. \A i, j \in 0 .. Waiting' : d[i] = d[j] => i = j
    BY <1>1, <1>5, <1>7, <1>11 DEF Chain
  <2>3. \A i \in 0 .. Waiting' : d[i] \notin owned'
    BY <1>1, <1>2, <1>5, <1>7, <1>11 DEF Chain
  <2>4. ASSUME NEW i \in 1 .. Waiting' PROVE data'[d[i]] = pushed'[Len(popped') + i]
    <3>1. CASE i = Waiting + 1
      BY <1>2, <1>4, <1>5, <1>11, <3>1 DEF FifoInv, FifoTypeOK
    <3>2. CASE i <= Waiting
      <4>1. i \in 1 .. Waiting /\ d[i] = c[i] /\ c[i] # n
            /\ Len(popped) + i \in 1 .. Len(pushed)
        BY <1>4, <1>5, <1>7, <1>11, <3>2
      <4>2. data'[c[i]] = data[c[i]]
        BY <1>2, <4>1 DEF FifoInv, FifoTypeOK
      <4>3. QED
        BY <1>1, <1>2, <1>4, <4>1, <4>2 DEF Chain
    <3>3. QED
      BY <1>5, <3>1, <3>2
  <2>5. ASSUME NEW i \in 0 .. Waiting' - 1
        PROVE  \/ next'[d[i]] = d[i + 1]
               \/ next'[d[i]] = NULL /\ \E u \in Threads : prev_tail'[u] = d[i]
    <3>1. CASE i = Waiting
      BY <1>1, <1>2, <1>5, <1>7, <1>11, <3>1 DEF Chain, FifoInv, FifoTypeOK
    <3>2. CASE i < Waiting
      <4>1. i \in 0 .. Waiting - 1 /\ i + 1 \in 0 .. Waiting /\ next'[c[i]] = next[c[i]]
        BY <1>2, <1>5, <1>7, <3>2 DEF FifoInv, FifoTypeOK
      <4>2. ASSUME NEW u \in Threads, prev_tail[u] = c[i] PROVE prev_tail'[u] = c[i]
        <5>1. c[i] \in Nodes /\ prev_tail[t] = NULL
          BY <1>2, <1>5, <1>7, <4>1 DEF FifoInv, PushesInv
        <5>2. QED
          BY <1>2, <4>2, <5>1 DEF FifoInv, FifoTypeOK
      <4>3. QED
        BY SMTT(60), <1>1, <1>5, <1>11, <4>1, <4>2 DEF Chain
    <3>3. QED
      BY <1>5, <3>1, <3>2
  <2>6. ASSUME NEW u \in Threads, new_node'[u] # NULL
        PROVE  \E i \in 0 .. Waiting' - 1 :
                  prev_tail'[u] = d[i] /\ new_node'[u] = d[i + 1] /\ next'[d[i]] = NULL
    <3>1. CASE u = t
      BY <1>1, <1>2, <1>5, <1>7, <1>11, <3>1 DEF Chain, FifoInv, FifoTypeOK
    <3>2. CASE u # t
      <4>1. new_node'[u] = new_node[u] /\ prev_tail'[u] = prev_tail[u]
        BY <1>2, <3>2 DEF FifoInv, FifoTypeOK
      <4>2. PICK i \in 0 .. Waiting - 1 :
                prev_tail[u] = c[i] /\ new_node[u] = c[i + 1] /\ next[c[i]] = NULL
        BY <1>1, <2>6, <4>1 DEF Chain
      <4>3. i \in 0 .. Waiting /\ i + 1 \in 0 .. Waiting /\ i \in 0 .. Waiting' - 1
        BY <1>5
      <4>4. QED
        BY <1>2, <1>7, <1>11, <4>1, <4>2, <4>3 DEF FifoInv, FifoTypeOK
    <3>3. QED
      BY <3>1, <3>2
  <2>7. QED
    BY <2>1, <2>2, <2>3, <2>4, <2>5, <2>6 DEF Chain
<1>13. QED
  BY <1>3, <1>5, <1>6, <1>9, <1>10, <1>12 DEF FifoInv

\* The link completes the chain where it was open.
LEMMA LinkFifo ==
    ASSUME FifoInv, NEW t \in Threads, PushLink(t)
    PROVE  FifoInv' /\ Waiting' = Waiting
<1> USE NullAssumption
<1>1. PICK c \in [0 .. Waiting -> Nodes] : Chain(c)
  BY DEF FifoInv
<1>2. /\ new_node[t] # NULL
      /\ next' = [next EXCEPT ![prev_tail[t]] = new_node[t]]
      /\ new_node' = [new_node EXCEPT ![t] = NULL]
      /\ prev_tail' = [prev_tail EXCEPT ![t] = NULL]
      /\ UNCHANGED <<head, tail, data, owned, pushed, popped>>
  BY DEF PushLink, history
<1>3. Waiting \in Nat /\ Waiting' = Waiting
  BY <1>2, WaitingType DEF FifoInv, Waiting
<1>4. PICK k \in 0 .. Waiting - 1 : prev_tail[t] = c[k] /\ new_node[t] = c[k + 1]
  BY <1>1, <1>2 DEF Chain
<1>5. FifoTypeOK' /\ FifoOrder' /\ PushesInv'
  BY <1>2 DEF FifoInv, FifoTypeOK, FifoOrder, PushesInv
<1>6. /\ \A i \in 0 .. Waiting : i # k => next'[c[i]] = next[c[i]]
      /\ next'[c[k]] = c[k + 1]
  BY <1>1, <1>2, <1>3, <1>4 DEF Chain, FifoInv, FifoTypeOK
<1>7. Chain(c)'
  <2>1. /\ c[0] = head' /\ c[Waiting'] = tail' /\ next'[tail'] = NULL
        /\ \A i, j \in 0 .. Waiting' : c[i] = c[j] => i = j
        /\ \A i \in 0 .. Waiting' : c[i] \notin owned'
        /\ \A i \in 1 .. Waiting' : data'[c[i]] = pushed'[Len(popped') + i]
    BY <1>1, <1>2, <1>3, <1>4, <1>6 DEF Chain
  <2>2. ASSUME NEW i \in 0 .. Waiting' - 1
        PROVE  \/ next'[c[i]] = c[i + 1]
               \/ next'[c[i]] = NULL /\ \E u \in Threads : prev_tail'[u] = c[i]
    <3>1. CASE i = k
      BY <1>6, <3>1
    <3>2. CASE i # k
      <4>1. i \in 0 .. Waiting - 1 /\ i \in 0 .. Waiting /\ next'[c[i]] = next[c[i]]
            /\ c[i] # c[k]
        BY <1>1, <1>3, <1>4, <1>6, <3>2 DEF Chain
      <4>2. ASSUME NEW u \in Threads, prev_tail[u] = c[i] PROVE prev_tail'[u] = c[i]
        BY <1>2, <1>4, <4>1, <4>2 DEF FifoInv, FifoTypeOK
      <4>3. QED
        BY <1>1, <4>1, <4>2 DEF Chain
    <3>3. QED
      BY <3>1, <3>2
  <2>3. ASSUME NEW u \in Threads, new_node'[u] # NULL
        PROVE  \E i \in 0 .. Waiting' - 1 :
                  prev_tail'[u] = c[i] /\ new_node'[u] = c[i + 1] /\ next'[c[i]] = NULL
    <3>1. u # t /\ new_node'[u] = new_node[u] /\ prev_tail'[u] = prev_tail[u]
      BY <1>2, <2>3 DEF FifoInv, FifoTypeOK
    <3>2. PICK i \in 0 .. Waiting - 1 :
              prev_tail[u] = c[i] /\ new_node[u] = c[i + 1] /\ next[c[i]] = NULL
      BY <1>1, <2>3, <3>1 DEF Chain
    <3>3. prev_tail[u] # NULL
      BY <2>3, <3>1 DEF FifoInv, PushesInv
    <3>4. i # k
      BY <1>4, <3>1, <3>2, <3>3 DEF FifoInv, PushesInv
    <3>5. QED
      BY <1>3, <1>6, <3>1, <3>2, <3>4
  <2>4. QED
    BY <2>1, <2>2, <2>3 DEF Chain
<1>8. QED
  BY <1>1, <1>3, <1>5, <1>7 DEF FifoInv

\* What the consumer finds behind the head is the oldest waiting item.
LEMMA FirstIsOldest ==
    ASSUME FifoInv, First # NULL, NEW c \in [0 .. Waiting -> Nodes], Chain(c)
    PROVE  /\ Waiting > 0 /\ First = c[1] /\ First \in Nodes
           /\ Peek = pushed[Len(popped) + 1] /\ Peek \in Items
<1>1. Waiting \in Nat /\ Len(popped) \in Nat /\ Len(pushed) = Len(popped) + Waiting
  BY WaitingType DEF FifoInv, Waiting
<1>2. Waiting > 0
  BY <1>1 DEF Chain, First
<1>3. First = c[1]
  BY <1>1, <1>2 DEF Chain, First
<1>4. data[c[1]] = pushed[Len(popped) + 1] /\ c[1] \in Nodes
  BY <1>1, <1>2 DEF Chain
<1>5. pushed[Len(popped) + 1] \in Items
  BY <1>1, <1>2 DEF FifoInv, FifoTypeOK
<1>6. QED
  BY <1>2, <1>3, <1>4, <1>5 DEF Peek

\* trypop takes the first node off the chain and hands it to the caller.
LEMMA TrypopFifo ==
    ASSUME FifoInv, Trypop
    PROVE  FifoInv' /\ Waiting' = Waiting - 1 /\ Waiting > 0 /\ head \in Nodes
<1> USE NullAssumption
<1>1. PICK c \in [0 .. Waiting -> Nodes] : Chain(c)
  BY DEF FifoInv
<1>2. /\ First # NULL /\ head' = First /\ data' = [data EXCEPT ![head] = Peek]
      /\ owned' = owned \cup {head} /\ popped' = Append(popped, Peek)
      /\ UNCHANGED <<tail, next, new_node, prev_tail, pushed>>
  BY DEF Trypop, pushes
<1>3. /\ Waiting > 0 /\ First = c[1] /\ First \in Nodes
      /\ Peek = pushed[Len(popped) + 1] /\ Peek \in Items
  BY <1>1, <1>2, FirstIsOldest
<1>4. /\ Len(popped') = Len(popped) + 1 /\ popped'[Len(popped) + 1] = Peek
      /\ \A i \in 1 .. Len(popped) : popped'[i] = popped[i]
      /\ popped' \in Seq(Items)
  BY <1>2, <1>3 DEF FifoInv, FifoTypeOK
<1>5. /\ Waiting \in Nat /\ Waiting' = Waiting - 1 /\ Len(popped) \in Nat
      /\ Len(pushed) = Len(popped) + Waiting
  BY <1>2, <1>4, WaitingType DEF FifoInv, Waiting
<1>6. FifoTypeOK'
  BY <1>2, <1>3, <1>4 DEF FifoInv, FifoTypeOK
<1>7. FifoOrder'
  BY <1>2, <1>3, <1>4, <1>5 DEF FifoInv, FifoOrder
<1>8. PushesInv'
  BY <1>2 DEF FifoInv, PushesInv
<1>9. PICK d \in [0 .. Waiting - 1 -> Nodes] : \A i \in 0 .. Waiting - 1 : d[i] = c[i + 1]
  <2> DEFINE e == [i \in 0 .. Waiting - 1 |-> c[i + 1]]
  <2>1. e \in [0 .. Waiting - 1 -> Nodes] /\ \A i \in 0 .. Waiting - 1 : e[i] = c[i + 1]
    BY <1>5
  <2>2. QED
    BY <2>1
<1>10. head = c[0] /\ head \in Nodes /\ \A i \in 1 .. Waiting : c[i] # head
  BY <1>1, <1>5 DEF Chain, FifoInv, FifoTypeOK
<1>11. Chain(d)'
  <2>1. d[0] = head' /\ d[Waiting'] = tail' /\ next'[tail'] = NULL
    BY <1>1, <1>2, <1>3, <1>5, <1>9 DEF Chain
  <2>2. \A i, j \in 0 .. Waiting' : d[i] = d[j] => i = j
    BY <1>1, <1>5, <1>9 DEF Chain
  <2>3. \A i \in 0 .. Waiting' : d[i] \notin owned'
    BY <1>1, <1>2, <1>5, <1>9, <1>10 DEF Chain
  <2>4. \A i \in 1 .. Waiting' : data'[d[i]] = pushed'[Len(popped') + i]
    BY <1>1, <1>2, <1>4, <1>5, <1>9, <1>10 DEF Chain, FifoInv, FifoTypeOK
  <2>5. \A i \in 0 .. Waiting' - 1 :
            \/ next'[d[i]] = d[i + 1]
            \/ next'[d[i]] = NULL /\ \E u \in Threads : prev_tail'[u] = d[i]
    <3> SUFFICES ASSUME NEW i \in 0 .. Waiting' - 1
                 PROVE  \/ next'[d[i]] = d[i + 1]
                        \/ next'[d[i]] = NULL /\ \E u \in Threads : prev_tail'[u] = d[i]
      OBVIOUS
    <3>1. i + 1 \in 0 .. Waiting - 1 /\ d[i] = c[i + 1] /\ d[i + 1] = c[i + 1 + 1]
      BY <1>5, <1>9
    <3>2. QED
      BY <1>1, <1>2, <3>1 DEF Chain
  <2>6. ASSUME NEW u \in Threads, new_node'[u] # NULL
        PROVE  \E i \in 0 .. Waiting' - 1 :
                  prev_tail'[u] = d[i] /\ new_node'[u] = d[i + 1] /\ next'[d[i]] = NULL
    <3>1. PICK j \in 0 .. Waiting - 1 :
              prev_tail[u] = c[j] /\ new_node[u] = c[j + 1] /\ next[c[j]] = NULL
      BY <1>1, <1>2, <2>6 DEF Chain
    <3>2. j # 0
      BY <1>2, <1>10, <3>1 DEF First
    <3>3. j - 1 \in 0 .. Waiting' - 1 /\ d[j - 1] = c[j] /\ d[j - 1 + 1] = c[j + 1]
      BY <1>5, <1>9, <3>2
    <3>4. QED
      BY <1>2, <3>1, <3>3
  <2>7. QED
    BY <2>1, <2>2, <2>3, <2>4, <2>5, <2>6 DEF Chain
<1>12. QED
  BY <1>3, <1>5, <1>6, <1>7, <1>8, <1>9, <1>10, <1>11 DEF FifoInv

-----------------------------------------------------------------------------
(* The items on their way in.                                              *)

\* There are as many of them as there are threads that push, at most.
LEMMA EnteringFinite ==
    ASSUME item \in [Threads -> [node : Nodes, data : Items] \cup {NULL}]
    PROVE  IsFiniteSet(Entering) /\ Cardinality(Entering) \in Nat
<1> DEFINE all == {item[t] : t \in Threads}
<1>1. item \in Surjection(Threads, all)
  BY DEF Surjection
<1>2. IsFiniteSet(all)
  BY <1>1, ThreadsAssumption, FS_Surjection
<1>3. IsFiniteSet(all \ {NULL})
  BY <1>2, FS_RemoveElement
<1>4. QED
  BY <1>3, FS_CardinalityType DEF Entering

\* A thread that brings an item adds one,
LEMMA EnteringAdd ==
    ASSUME item \in [Threads -> [node : Nodes, data : Items] \cup {NULL}],
           NEW t \in Threads, item[t] = NULL,
           NEW r, r # NULL, r \notin Entering, item' = [item EXCEPT ![t] = r]
    PROVE  Cardinality(Entering') = Cardinality(Entering) + 1
<1>1. Entering' = Entering \cup {r}
  BY DEF Entering
<1>2. QED
  BY <1>1, EnteringFinite, FS_AddElement

\* and one that has exchanged it into the fifo removes one: its own.
LEMMA EnteringRemove ==
    ASSUME item \in [Threads -> [node : Nodes, data : Items] \cup {NULL}],
           NEW t \in Threads, item[t] # NULL,
           \A u \in Threads \ {t} : item[u] # item[t],
           item' = [item EXCEPT ![t] = NULL]
    PROVE  /\ Cardinality(Entering') = Cardinality(Entering) - 1
           /\ Cardinality(Entering) > 0
<1>1. Entering' = Entering \ {item[t]} /\ item[t] \in Entering
  BY DEF Entering
<1>2. Cardinality(Entering') = Cardinality(Entering) - 1
  BY <1>1, EnteringFinite, FS_RemoveElement
<1>3. Cardinality(Entering) # 0
  BY <1>1, EnteringFinite, FS_EmptySet
<1>4. QED
  BY <1>2, <1>3, EnteringFinite

-----------------------------------------------------------------------------
(* One lemma per action of work_queue.c.                                   *)

LEMMA InitInv == Init => IInv
<1> SUFFICES ASSUME Init PROVE IInv
  OBVIOUS
<1>1. FifoInv /\ Waiting = 0
  BY InitFifo DEF Init, FifoInit, Waiting
<1>2. TypeOK
  BY <1>1 DEF Init, TypeOK, FifoInv, Labels
<1>3. EnteringInv /\ RoleInv
  BY DEF Init, FifoInit, EnteringInv, RoleInv, SingleWorker
<1>4. Entering = {}
  BY DEF Init, Entering
<1>5. CountsInv
  BY <1>1, <1>4, FS_EmptySet DEF Init, CountsInv
<1>6. QED
  BY <1>1, <1>2, <1>3, <1>5 DEF IInv

\* The fifo does not change where the counters do.
LEMMA FifoUnchanged ==
    ASSUME FifoInv, UNCHANGED fifoVars
    PROVE  FifoInv' /\ Waiting' = Waiting
<1>1. UNCHANGED <<head, tail, next, data, new_node, prev_tail, owned, pushed, popped>>
  BY DEF fifoVars, fifo, pushes, history
<1>2. Waiting' = Waiting
  BY <1>1 DEF Waiting
<1>3. FifoTypeOK' /\ FifoOrder' /\ PushesInv'
  BY <1>1 DEF FifoInv, FifoTypeOK, FifoOrder, PushesInv
<1>4. PICK c \in [0 .. Waiting -> Nodes] : Chain(c)
  BY DEF FifoInv
<1>5. Chain(c)'
  BY <1>1, <1>2, <1>4 DEF Chain
<1>6. QED
  BY <1>2, <1>3, <1>4, <1>5 DEF FifoInv

\* in_count is zero exactly when there is no worker, so the add that finds it zero
\* makes the only one.
LEMMA PushCountInv ==
    ASSUME IInv, NEW t \in Threads, NEW n \in Nodes, NEW v \in Items, PushCount(t, n, v)
    PROVE  IInv'
<1> USE NullAssumption, ItemAssumption
<1> DEFINE r == [node |-> n, data |-> v]
<1>1. /\ pc[t] = "idle" /\ n \in owned /\ Unpushed(v)
      /\ \A i \in Entering : i.node # n /\ i.data # v
      /\ in_count' = in_count + 1
      /\ working' = [working EXCEPT ![t] = (in_count + 1 = 1)]
      /\ item' = [item EXCEPT ![t] = r]
      /\ pc' = [pc EXCEPT ![t] = "push_fifo"]
      /\ UNCHANGED <<fifoVars, out_count, old_out_count>>
  BY DEF PushCount, Goto, StartsWorking
<1>2. /\ r \in [node : Nodes, data : Items] /\ r # NULL /\ r.node = n /\ r.data = v
      /\ r \notin Entering
  BY <1>1
<1> HIDE DEF r
<1>3. FifoInv' /\ Waiting' = Waiting
  BY <1>1, FifoUnchanged DEF IInv
<1>4. /\ UNCHANGED <<new_node, owned, pushed>>
  BY <1>1 DEF fifoVars, pushes, history
<1>5. item[t] = NULL
  BY <1>1 DEF IInv, EnteringInv
<1>6. Cardinality(Entering') = Cardinality(Entering) + 1
      /\ Cardinality(Entering) \in Nat
  BY <1>1, <1>2, <1>5, EnteringAdd, EnteringFinite DEF IInv, TypeOK
<1>7. TypeOK'
  BY <1>1, <1>2, <1>3 DEF IInv, TypeOK, FifoInv, Labels
<1>8. EnteringInv'
  <2>1. \A u \in Threads : item[u] # NULL => item[u] \in Entering
    BY DEF Entering
  <2>2. \A u \in Threads : u # t => item'[u] = item[u] /\ pc'[u] = pc[u]
    BY <1>1 DEF IInv, TypeOK
  <2>3. item'[t] = r /\ pc'[t] = "push_fifo"
    BY <1>1 DEF IInv, TypeOK
  <2>4. \A u \in Threads :
            /\ pc'[u] = "push_link" <=> new_node'[u] # NULL
            /\ pc'[u] = "push_fifo" <=> item'[u] # NULL
            /\ item'[u] # NULL => item'[u].node \in owned' /\ Unpushed(item[u].data)'
    BY <1>1, <1>2, <1>4, <2>2, <2>3 DEF IInv, EnteringInv, Unpushed
  <2>5. \A u, w \in Threads :
            item'[u] # NULL /\ item'[w] # NULL /\ u # w =>
                item'[u].node # item'[w].node /\ item'[u].data # item'[w].data
    BY <1>1, <1>2, <2>1, <2>2, <2>3 DEF IInv, EnteringInv
  <2>6. QED
    BY <2>4, <2>5 DEF EnteringInv
<1>9. RoleInv'
  <2>1. in_count \in Nat /\ in_count' # 0 /\ ~working[t]
    BY <1>1 DEF IInv, TypeOK, RoleInv
  <2>2. \A u \in Threads : u # t => working'[u] = working[u] /\ pc'[u] = pc[u]
    BY <1>1 DEF IInv, TypeOK
  <2>3. working'[t] = (in_count = 0) /\ pc'[t] = "push_fifo"
    BY <1>1, <2>1 DEF IInv, TypeOK
  <2>4. in_count = 0 <=> \A u \in Threads : ~working[u]
    BY DEF IInv, RoleInv
  <2>5. SingleWorker' /\ ~\A u \in Threads : ~working'[u]
    <3>1. CASE in_count = 0
      <4>1. working'[t] /\ \A u \in Threads : u # t => ~working'[u]
        BY <2>2, <2>3, <2>4, <3>1
      <4>2. QED
        BY <4>1 DEF SingleWorker
    <3>2. CASE in_count # 0
      <4>1. PICK u \in Threads : working[u]
        BY <2>4, <3>2
      <4>2. ~working'[t]
        BY <2>3, <3>2
      <4>3. u # t /\ working'[u]
        BY <2>1, <2>2, <4>1
      <4>4. \A w \in Threads : working'[w] => w # t /\ working[w]
        BY <2>2, <4>2
      <4>5. SingleWorker
        BY DEF IInv, RoleInv
      <4>6. SingleWorker'
        BY <4>4, <4>5 DEF SingleWorker
      <4>7. QED
        BY <4>3, <4>6
    <3>3. QED
      BY <3>1, <3>2
  <2>6. QED
    BY <2>1, <2>2, <2>3, <2>5 DEF IInv, RoleInv
<1>10. CountsInv'
  <2>1. Waiting \in Nat
    BY WaitingType DEF IInv, FifoInv
  <2>2. \A u \in Threads : pc'[u] = "get_sub" <=> pc[u] = "get_sub"
    BY <1>1 DEF IInv, TypeOK
  <2>3. QED
    BY <1>1, <1>3, <1>6, <2>1, <2>2 DEF IInv, TypeOK, CountsInv
<1>11. QED
  BY <1>3, <1>7, <1>8, <1>9, <1>10 DEF IInv

\* The item moves from the threads into the fifo.
LEMMA PushFifoInv ==
    ASSUME IInv, NEW t \in Threads, PushFifo(t)
    PROVE  IInv'
<1> USE NullAssumption, ItemAssumption
<1> DEFINE n == item[t].node
           v == item[t].data
<1>1. /\ pc[t] = "push_fifo" /\ PushExchange(t, n, v)
      /\ item' = [item EXCEPT ![t] = NULL]
      /\ pc' = [pc EXCEPT ![t] = "push_link"]
      /\ UNCHANGED <<in_count, out_count, working, old_out_count>>
  BY DEF PushFifo, Goto, counters
<1>2. item[t] # NULL /\ n \in Nodes /\ v \in Items
  BY <1>1 DEF IInv, TypeOK, EnteringInv
<1> HIDE DEF n, v
<1>3. FifoInv' /\ Waiting' = Waiting + 1
  BY <1>1, <1>2, ExchangeFifo DEF IInv
<1>4. /\ new_node' = [new_node EXCEPT ![t] = n] /\ owned' = owned \ {n}
      /\ pushed' = Append(pushed, v)
  BY <1>1 DEF PushExchange
<1>5. \A u \in Threads : u # t /\ item[u] # NULL =>
          item[u].node # n /\ item[u].data # v
  BY <1>2 DEF IInv, EnteringInv, n, v
<1>6. /\ Cardinality(Entering') = Cardinality(Entering) - 1
      /\ Cardinality(Entering) > 0 /\ Cardinality(Entering) \in Nat
  <2>1. \A u \in Threads \ {t} : item[u] # item[t]
    BY <1>2, <1>5 DEF n
  <2>2. QED
    BY <1>1, <1>2, <2>1, EnteringRemove, EnteringFinite DEF IInv, TypeOK
<1>7. TypeOK'
  BY <1>1, <1>3 DEF IInv, TypeOK, FifoInv, Labels
<1>8. EnteringInv'
  <2>1. /\ \A u \in Threads : u # t => item'[u] = item[u] /\ pc'[u] = pc[u]
                                       /\ new_node'[u] = new_node[u]
        /\ item'[t] = NULL /\ pc'[t] = "push_link" /\ new_node'[t] = n
    BY <1>1, <1>4 DEF IInv, TypeOK, FifoTypeOK
  <2>2. \A u \in Threads : item'[u] # NULL =>
            item'[u].node \in owned' /\ Unpushed(item[u].data)'
    <3> SUFFICES ASSUME NEW u \in Threads, item'[u] # NULL
                 PROVE  item'[u].node \in owned' /\ Unpushed(item[u].data)'
      OBVIOUS
    <3>1. u # t /\ item'[u] = item[u] /\ item[u].node # n /\ item[u].data # v
      BY <1>5, <2>1
    <3>2. item[u].node \in owned' /\ Unpushed(item[u].data)
      BY <1>4, <3>1 DEF IInv, EnteringInv
    <3>3. pushed \in Seq(Items)
      BY DEF IInv, TypeOK, FifoTypeOK
    <3>4. \A i \in 1 .. Len(pushed') : pushed'[i] # item[u].data
      BY <1>2, <1>4, <3>1, <3>2, <3>3 DEF Unpushed
    <3>5. QED
      BY <3>1, <3>2, <3>4 DEF Unpushed
  <2>3. \A u \in Threads :
            /\ pc'[u] = "push_link" <=> new_node'[u] # NULL
            /\ pc'[u] = "push_fifo" <=> item'[u] # NULL
    BY <1>2, <2>1 DEF IInv, EnteringInv
  <2>4. \A u, w \in Threads :
            item'[u] # NULL /\ item'[w] # NULL /\ u # w =>
                item'[u].node # item'[w].node /\ item'[u].data # item'[w].data
    BY <2>1 DEF IInv, EnteringInv
  <2>5. QED
    BY <2>2, <2>3, <2>4 DEF EnteringInv
<1>9. RoleInv'
  BY <1>1 DEF IInv, TypeOK, RoleInv, SingleWorker
<1>10. CountsInv'
  <2>1. Waiting \in Nat
    BY WaitingType DEF IInv, FifoInv
  <2>2. \A u \in Threads : pc'[u] = "get_sub" <=> pc[u] = "get_sub"
    BY <1>1 DEF IInv, TypeOK
  <2>3. QED
    BY SMTT(60), <1>1, <1>3, <1>6, <2>1, <2>2 DEF IInv, TypeOK, CountsInv
<1>11. QED
  BY <1>3, <1>7, <1>8, <1>9, <1>10 DEF IInv

\* The link; a thread that was told to goes on to work.
LEMMA PushReturnInv ==
    ASSUME IInv, NEW t \in Threads, PushReturn(t)
    PROVE  IInv'
<1> USE NullAssumption
<1>1. /\ pc[t] = "push_link" /\ PushLink(t)
      /\ pc' = [pc EXCEPT ![t] = IF working[t] THEN "get_pop" ELSE "idle"]
      /\ UNCHANGED <<in_count, out_count, item, working, old_out_count>>
  BY DEF PushReturn, Goto, counters
<1>2. FifoInv' /\ Waiting' = Waiting
  BY <1>1, LinkFifo DEF IInv
<1>3. /\ new_node' = [new_node EXCEPT ![t] = NULL] /\ UNCHANGED <<owned, pushed>>
  BY <1>1 DEF PushLink, history
<1>4. TypeOK'
  BY <1>1, <1>2 DEF IInv, TypeOK, FifoInv, Labels
<1>5. EnteringInv'
  BY <1>1, <1>3 DEF IInv, TypeOK, FifoTypeOK, EnteringInv, Unpushed
<1>6. RoleInv'
  BY <1>1 DEF IInv, TypeOK, RoleInv, SingleWorker
<1>7. CountsInv'
  BY <1>1, <1>2 DEF IInv, TypeOK, CountsInv, Entering
<1>8. QED
  BY <1>2, <1>4, <1>5, <1>6, <1>7 DEF IInv

\* The worker takes an item and counts it, or finds nothing linked.
LEMMA GetWorkPopInv ==
    ASSUME IInv, NEW t \in Threads, GetWorkPop(t)
    PROVE  IInv'
<1> USE NullAssumption
<1>1. /\ pc[t] = "get_pop"
      /\ UNCHANGED <<in_count, item, working, old_out_count>>
  BY DEF GetWorkPop
<1>2. \A u \in Threads : pc[u] # "get_sub"
  BY <1>1 DEF IInv, RoleInv, SingleWorker
<1>3. CASE Trypop /\ out_count' = out_count + 1 /\ pc' = pc
  <2>1. FifoInv' /\ Waiting' = Waiting - 1 /\ Waiting > 0 /\ head \in Nodes
    BY <1>3, TrypopFifo DEF IInv
  <2>2. owned' = owned \cup {head} /\ UNCHANGED <<pushed, new_node>>
    BY <1>3 DEF Trypop, pushes
  <2>3. TypeOK'
    BY <1>1, <1>3, <2>1 DEF IInv, TypeOK, FifoInv
  <2>4. EnteringInv' /\ RoleInv'
    BY <1>1, <1>3, <2>2 DEF IInv, EnteringInv, RoleInv, SingleWorker, Unpushed
  <2>5. CountsInv'
    <3>1. Waiting \in Nat /\ Cardinality(Entering) \in Nat
      BY WaitingType, EnteringFinite DEF IInv, FifoInv, TypeOK
    <3>2. QED
      BY <1>1, <1>2, <1>3, <2>1, <3>1 DEF IInv, TypeOK, CountsInv, Entering
  <2>6. QED
    BY <2>1, <2>3, <2>4, <2>5 DEF IInv
<1>4. CASE TrypopNothing /\ pc' = [pc EXCEPT ![t] = "get_test"] /\ out_count' = out_count
  <2>1. FifoInv' /\ Waiting' = Waiting /\ UNCHANGED <<pushed, new_node, owned>>
    BY <1>4, FifoUnchanged DEF IInv, TrypopNothing, fifoVars, pushes, history
  <2>2. TypeOK' /\ EnteringInv' /\ RoleInv'
    BY <1>1, <1>4, <2>1
    DEF IInv, TypeOK, FifoInv, Labels, EnteringInv, RoleInv, SingleWorker, Unpushed
  <2>3. CountsInv'
    BY <1>1, <1>2, <1>4, <2>1 DEF IInv, TypeOK, CountsInv, Entering
  <2>4. QED
    BY <2>1, <2>2, <2>3 DEF IInv
<1>5. QED
  BY <1>3, <1>4 DEF GetWorkPop, Goto

\* The comparison decides nothing others see.
LEMMA GetWorkTestInv ==
    ASSUME IInv, NEW t \in Threads, GetWorkTest(t)
    PROVE  IInv'
<1> USE NullAssumption
<1>1. /\ pc[t] = "get_test"
      /\ pc' = [pc EXCEPT ![t] = IF out_count = in_count THEN "get_reset" ELSE "get_pop"]
      /\ UNCHANGED <<fifoVars, in_count, out_count, item, working, old_out_count>>
  BY DEF GetWorkTest, Goto, counters
<1>2. FifoInv' /\ Waiting' = Waiting /\ UNCHANGED <<pushed, new_node, owned>>
  BY <1>1, FifoUnchanged DEF IInv, fifoVars, pushes, history
<1>3. TypeOK' /\ EnteringInv' /\ RoleInv'
  BY <1>1, <1>2
  DEF IInv, TypeOK, FifoInv, Labels, EnteringInv, RoleInv, SingleWorker, Unpushed
<1>4. CountsInv'
  BY <1>1, <1>2 DEF IInv, TypeOK, CountsInv, Entering
<1>5. QED
  BY <1>2, <1>3, <1>4 DEF IInv

\* What out_count held is remembered until it is subtracted.
LEMMA GetWorkResetInv ==
    ASSUME IInv, NEW t \in Threads, GetWorkReset(t)
    PROVE  IInv'
<1> USE NullAssumption
<1>1. /\ pc[t] = "get_reset"
      /\ old_out_count' = [old_out_count EXCEPT ![t] = out_count]
      /\ out_count' = 0 /\ pc' = [pc EXCEPT ![t] = "get_sub"]
      /\ UNCHANGED <<fifoVars, in_count, item, working>>
  BY DEF GetWorkReset, Goto
<1>2. FifoInv' /\ Waiting' = Waiting /\ UNCHANGED <<pushed, new_node, owned>>
  BY <1>1, FifoUnchanged DEF IInv, fifoVars, pushes, history
<1>3. TypeOK' /\ EnteringInv' /\ RoleInv'
  BY <1>1, <1>2
  DEF IInv, TypeOK, FifoInv, Labels, EnteringInv, RoleInv, SingleWorker, Unpushed
<1>4. \A u \in Threads : pc[u] # "get_sub" /\ (u # t => pc'[u] # "get_sub")
  BY <1>1 DEF IInv, TypeOK, RoleInv, SingleWorker
<1>5. in_count = Cardinality(Entering) + Waiting + out_count
  BY <1>4 DEF IInv, CountsInv
<1>6. pc'[t] = "get_sub" /\ old_out_count'[t] = out_count /\ Entering' = Entering
  BY <1>1 DEF IInv, TypeOK, Entering
<1>7. CountsInv'
  BY <1>1, <1>2, <1>4, <1>5, <1>6 DEF CountsInv
<1>8. QED
  BY <1>2, <1>3, <1>7 DEF IInv

\* The subtraction that leaves zero ends the turn, and then nothing is left.
LEMMA GetWorkSubInv ==
    ASSUME IInv, NEW t \in Threads, GetWorkSub(t)
    PROVE  IInv'
<1> USE NullAssumption
<1>1. /\ pc[t] = "get_sub" /\ in_count' = in_count - old_out_count[t]
      /\ old_out_count' = [old_out_count EXCEPT ![t] = 0]
      /\ \/ /\ in_count' = 0 /\ working' = [working EXCEPT ![t] = FALSE]
            /\ pc' = [pc EXCEPT ![t] = "idle"]
         \/ in_count' # 0 /\ working' = working /\ pc' = [pc EXCEPT ![t] = "get_pop"]
      /\ UNCHANGED <<fifoVars, out_count, item>>
  BY DEF GetWorkSub, Goto
<1>2. FifoInv' /\ Waiting' = Waiting /\ UNCHANGED <<pushed, new_node, owned>>
  BY <1>1, FifoUnchanged DEF IInv, fifoVars, pushes, history
<1>3. Waiting \in Nat /\ Cardinality(Entering) \in Nat
  BY WaitingType, EnteringFinite DEF IInv, FifoInv, TypeOK
<1>4. /\ out_count = 0 /\ in_count' = Cardinality(Entering) + Waiting
      /\ in_count \in Nat /\ in_count' \in Nat
  BY <1>1, <1>3 DEF IInv, TypeOK, CountsInv
<1>5. TypeOK'
  BY <1>1, <1>2, <1>4 DEF IInv, TypeOK, FifoInv, Labels
<1>6. EnteringInv'
  BY <1>1, <1>2 DEF IInv, TypeOK, EnteringInv, Unpushed
<1>7. working[t] /\ \A u \in Threads : u # t => ~working[u] /\ pc'[u] # "get_sub"
  BY <1>1 DEF IInv, TypeOK, RoleInv, SingleWorker
<1>8. RoleInv'
  BY <1>1, <1>4, <1>7 DEF IInv, TypeOK, RoleInv, SingleWorker
<1>9. CountsInv'
  <2>1. out_count' = 0 /\ Entering' = Entering
    BY <1>1, <1>4 DEF Entering
  <2>2. \A u \in Threads : pc'[u] # "get_sub"
    BY <1>1, <1>7 DEF IInv, TypeOK
  <2>3. QED
    BY <1>2, <1>3, <1>4, <2>1, <2>2 DEF CountsInv
<1>10. QED
  BY <1>2, <1>5, <1>6, <1>8, <1>9 DEF IInv

-----------------------------------------------------------------------------
\* Every step of every thread keeps the invariant.
THEOREM StepInv == IInv /\ [Next \/ Finished]_vars => IInv'
<1> SUFFICES ASSUME IInv, [Next \/ Finished]_vars PROVE IInv'
  OBVIOUS
<1>1. ASSUME NEW t \in Threads, Runs(t) PROVE IInv'
  BY <1>1, PushFifoInv, PushReturnInv, GetWorkPopInv, GetWorkTestInv, GetWorkResetInv,
     GetWorkSubInv
  DEF Runs
<1>2. CASE UNCHANGED vars
  <2>1. FifoInv' /\ Waiting' = Waiting /\ UNCHANGED <<pushed, new_node, owned>>
    BY <1>2, FifoUnchanged DEF IInv, vars, fifoVars, pushes, history
  <2>2. QED
    BY SMTT(60), <1>2, <2>1
    DEF vars, IInv, TypeOK, FifoInv, EnteringInv, RoleInv, CountsInv, SingleWorker,
        Entering, Unpushed
<1>3. QED
  BY <1>1, <1>2, PushCountInv DEF Next, Finished

\* The inductive invariant holds of every reachable state.
THEOREM Invariant == Spec => []IInv
BY InitInv, StepInv, PTL DEF Spec

\* There is never a second worker, there is one whenever there is work, and the
\* counters by which threads decide it count what they should.
THEOREM WorkerRoleCorrect == Spec => []WorkerRole
<1>1. IInv => WorkerRole
  <2> SUFFICES ASSUME IInv PROVE WorkerRole
    OBVIOUS
  <2>1. Waiting \in Nat /\ Cardinality(Entering) \in Nat /\ IsFiniteSet(Entering)
    BY WaitingType, EnteringFinite DEF IInv, FifoInv, TypeOK
  <2>2. TypeOK /\ SingleWorker
    BY DEF IInv, RoleInv
  <2>3. WorkHasWorker
    <3> SUFFICES ASSUME \A t \in Threads : ~working[t]
                 PROVE  Waiting = 0 /\ Entering = {}
      BY <2>1 DEF WorkHasWorker, Waiting, IInv, TypeOK, FifoTypeOK
    <3>1. in_count = 0 /\ \A t \in Threads : pc[t] # "get_sub"
      BY DEF IInv, RoleInv
    <3>2. 0 = Cardinality(Entering) + Waiting + out_count
      BY <3>1 DEF IInv, CountsInv
    <3>3. Waiting = 0 /\ Cardinality(Entering) = 0
      BY <2>1, <3>2 DEF IInv, TypeOK
    <3>4. QED
      BY <2>1, <3>3, FS_EmptySet
  <2>4. CountsAgree
    <3>1. CASE \A t \in Threads : pc[t] # "get_sub"
      BY <2>1, <3>1 DEF IInv, TypeOK, FifoTypeOK, CountsInv, CountsAgree, Waiting
    <3>2. CASE \E t \in Threads : pc[t] = "get_sub"
      <4> DEFINE u == CHOOSE t \in Threads : pc[t] = "get_sub"
      <4>1. u \in Threads /\ pc[u] = "get_sub"
        BY <3>2
      <4> HIDE DEF u
      <4>2. out_count = 0 /\ in_count = Cardinality(Entering) + Waiting + old_out_count[u]
            /\ old_out_count[u] \in Nat /\ Len(pushed) \in Nat /\ Len(popped) \in Nat
        BY <4>1 DEF IInv, TypeOK, FifoTypeOK, CountsInv
      <4>3. in_count = Cardinality(Entering) + Len(pushed) - Len(popped)
                         + (out_count + old_out_count[u])
        BY <2>1, <4>2 DEF Waiting
      <4>4. QED
        BY <3>2, <4>3 DEF CountsAgree, u
    <3>3. QED
      BY <3>1, <3>2
  <2>5. QED
    BY <2>2, <2>3, <2>4 DEF WorkerRole
<1>2. QED
  BY <1>1, Invariant, PTL

\* The worker, whoever it is, gets the items in the order of the exchanges.
THEOREM FifoCorrect == Spec => []FifoOrder
<1>1. IInv => FifoOrder
  BY DEF IInv, FifoInv
<1>2. QED
  BY <1>1, Invariant, PTL

\* A node the callers own is out of the fifo's reach, and trypop says empty only of
\* an empty fifo or of one whose first link is still missing.
THEOREM NodesCorrect == Spec => []NodesInOrder
<1>1. IInv => NodesInOrder
  <2> SUFFICES ASSUME IInv PROVE NodesInOrder
    OBVIOUS
  <2> USE NullAssumption
  <2>1. PICK c \in [0 .. Waiting -> Nodes] : Chain(c)
    BY DEF IInv, FifoInv
  <2>2. Waiting \in Nat /\ Len(pushed) \in Nat /\ Len(popped) \in Nat
    BY WaitingType DEF IInv, FifoInv
  <2>3. NULL \notin owned
    BY DEF IInv, TypeOK, FifoTypeOK
  <2>4. OwnedNodesUnused
    <3>1. head \notin owned /\ tail \notin owned
      BY <2>1, <2>2 DEF Chain
    <3>2. next[head] \notin owned
      BY <2>1, <2>2, <2>3 DEF Chain
    <3>3. ASSUME NEW t \in Threads PROVE prev_tail[t] \notin owned /\ new_node[t] \notin owned
      <4>1. CASE new_node[t] = NULL
        BY <2>3, <4>1 DEF IInv, FifoInv, PushesInv
      <4>2. CASE new_node[t] # NULL
        BY <2>1, <2>2, <4>2 DEF Chain
      <4>3. QED
        BY <4>1, <4>2
    <3>4. QED
      BY <3>1, <3>2, <3>3 DEF OwnedNodesUnused
  <2>5. EmptyIsHonest
    <3> SUFFICES ASSUME First = NULL, Len(pushed) # Len(popped)
                 PROVE  \E t \in Threads : prev_tail[t] = head
      BY DEF EmptyIsHonest
    <3>1. Waiting > 0
      BY <2>2 DEF Waiting
    <3>2. 0 \in 0 .. Waiting - 1 /\ 1 \in 0 .. Waiting /\ c[1] # NULL
      BY <2>2, <3>1
    <3>3. QED
      BY <2>1, <3>2 DEF Chain, First
  <2>6. QED
    BY <2>4, <2>5 DEF NodesInOrder
<1>2. QED
  BY <1>1, Invariant, PTL

-----------------------------------------------------------------------------
(* mpsc_relaxed_fifo, a system of its own, over spsc_fifos.                *)

CONSTANTS Fifos, NumProducers, CounterModulus

VARIABLES r_head, r_tail, r_next, r_data, heap, r_new_node, r_prev_tail, out, queued,
          r_pc, r_i, made, counter, present, passed

Relaxed ==
    INSTANCE MpscRelaxedFifo
    WITH head <- r_head, tail <- r_tail, next <- r_next, data <- r_data,
         new_node <- r_new_node, prev_tail <- r_prev_tail, pc <- r_pc, i <- r_i

RelaxedAssumed == Relaxed!ProducersAssumption /\ Relaxed!CounterAssumption

Producers == 0 .. NumProducers - 1

LEMMA RelaxedFacts ==
    ASSUME RelaxedAssumed
    PROVE  /\ NumProducers \in Nat \ {0} /\ Fifos = Producers /\ Relaxed!Producers = Producers
           /\ CounterModulus \in Nat \ {0} /\ NumProducers < CounterModulus
           /\ NULL \notin Nodes /\ NULL \notin Items
BY NullAssumption
DEF RelaxedAssumed, Relaxed!ProducersAssumption, Relaxed!CounterAssumption, Relaxed!Producers,
    Producers

\* Division with remainder by a positive S.
LEMMA DivMod ==
    ASSUME NEW S \in Nat \ {0}, NEW a \in Nat
    PROVE  /\ a \div S \in Int
           /\ a % S \in 0 .. S - 1
           /\ a = S * (a \div S) + (a % S)
OBVIOUS

\* Multiplication distributes over subtraction.
LEMMA TimesMinus ==
    ASSUME NEW S \in Int, NEW j \in Int, NEW k \in Int
    PROVE  S * (k - j) = S * k - S * j
OBVIOUS

\* A non-zero multiple of S is at least S away from 0.
LEMMA MultipleGap ==
    ASSUME NEW S \in Nat \ {0}, NEW k \in Int
    PROVE  /\ k >= 1 => S * k >= S
           /\ k <= 0 => S * k <= 0
           /\ k <= -1 => S * k <= -S
OBVIOUS

\* Quotient and remainder are determined.
LEMMA DivModUnique ==
    ASSUME NEW S \in Nat \ {0}, NEW p \in Int, NEW q \in Int,
           NEW a \in 0 .. S - 1, NEW b \in 0 .. S - 1,
           S * p + a = S * q + b
    PROVE  a = b
<1>1. S * (p - q) = b - a
  BY TimesMinus
<1>2. CASE p - q >= 1
  BY <1>1, <1>2, MultipleGap
<1>3. CASE p - q <= -1
  BY <1>1, <1>3, MultipleGap
<1>4. CASE p = q
  BY <1>4
<1>5. QED
  BY <1>2, <1>3, <1>4

\* The remainder of what is smaller.
LEMMA ModSmall ==
    ASSUME NEW S \in Nat \ {0}, NEW a \in Nat, a < S
    PROVE  a % S = a
<1>1. /\ a \div S \in Int /\ a % S \in 0 .. S - 1 /\ a \in 0 .. S - 1
      /\ a = S * (a \div S) + (a % S)
  BY DivMod
<1>2. S * 0 = 0
  OBVIOUS
<1>3. S * 0 + a = S * (a \div S) + (a % S)
  BY <1>1, <1>2
<1> QED
  BY <1>1, <1>3, DivModUnique

\* The fifo visited after the k-th is the next one, or the first after the last.
LEMMA NextMod ==
    ASSUME NEW S \in Nat \ {0}, NEW a \in Nat
    PROVE  (a + 1) % S = IF a % S = S - 1 THEN 0 ELSE (a % S) + 1
<1> DEFINE p == (a + 1) \div S
           q == a \div S
           x == (a + 1) % S
           y == a % S
<1>1. /\ p \in Int /\ q \in Int /\ x \in 0 .. S - 1 /\ y \in 0 .. S - 1
      /\ S * p + x = S * q + y + 1
  <2>1. a + 1 \in Nat
    OBVIOUS
  <2>2. /\ p \in Int /\ x \in 0 .. S - 1 /\ a + 1 = S * p + x
    BY <2>1, DivMod
  <2>3. /\ q \in Int /\ y \in 0 .. S - 1 /\ a = S * q + y
    BY DivMod
  <2> HIDE DEF p, q, x, y
  <2> QED
    BY <2>2, <2>3
<1>2. S * (q + 1) = S * q + S
  OBVIOUS
<1> HIDE DEF p, q, x, y
<1>3. CASE y = S - 1
  <2>1. S * p + x = S * (q + 1) + 0 /\ q + 1 \in Int /\ 0 \in 0 .. S - 1
    BY <1>1, <1>2, <1>3
  <2>2. x = 0
    BY <1>1, <2>1, DivModUnique
  <2> QED
    BY <1>3, <2>2 DEF x, y
<1>4. CASE y # S - 1
  <2>1. y + 1 \in 0 .. S - 1 /\ S * p + x = S * q + (y + 1)
    BY <1>1, <1>4
  <2>2. x = y + 1
    BY <1>1, <2>1, DivModUnique
  <2> QED
    BY <1>4, <2>2 DEF x, y
<1> QED
  BY <1>3, <1>4

\* A number that is a multiple of S more than p.
LEMMA ModFrom ==
    ASSUME NEW S \in Nat \ {0}, NEW p \in 0 .. S - 1, NEW a \in Nat, p <= a, (a - p) % S = 0
    PROVE  a % S = p
<1> DEFINE k == (a - p) \div S
           q == a \div S
           x == a % S
<1>1. k \in Int /\ a - p = S * k + 0
  <2>1. a - p \in Nat
    OBVIOUS
  <2> QED
    BY <2>1, DivMod
<1>2. q \in Int /\ x \in 0 .. S - 1 /\ a = S * q + x
  BY DivMod
<1> HIDE DEF k, q, x
<1>3. S * k + p = S * q + x
  BY <1>1, <1>2
<1>4. x = p
  BY <1>1, <1>2, <1>3, DivModUnique
<1> QED
  BY <1>4 DEF x

\* The remainder of S * n - 1 - p.
LEMMA ModBelow ==
    ASSUME NEW S \in Nat \ {0}, NEW p \in 0 .. S - 1, NEW M \in Nat, p < M, M % S = 0
    PROVE  (M - 1 - p) % S = S - 1 - p
<1> DEFINE k == M \div S
           q == (M - 1 - p) \div S
           x == (M - 1 - p) % S
<1>1. k \in Int /\ M = S * k + 0
  BY DivMod
<1>2. q \in Int /\ x \in 0 .. S - 1 /\ M - 1 - p = S * q + x
  <2>1. M - 1 - p \in Nat
    OBVIOUS
  <2> QED
    BY <2>1, DivMod
<1>3. S * (k - 1) = S * k - S
  OBVIOUS
<1> HIDE DEF k, q, x
<1>4. S * (k - 1) + (S - 1 - p) = S * q + x /\ k - 1 \in Int /\ S - 1 - p \in 0 .. S - 1
  BY <1>1, <1>2, <1>3
<1>5. x = S - 1 - p
  BY <1>2, <1>4, DivModUnique
<1> QED
  BY <1>5 DEF x

LEMMA NextCounter ==
    ASSUME RelaxedAssumed, counter \in 0 .. CounterModulus - 1, Relaxed!CountVisit
    PROVE  /\ counter' \in 0 .. CounterModulus - 1
           /\ counter' = IF counter + 1 = CounterModulus THEN 0 ELSE counter + 1
<1>1. counter + 1 \in Nat /\ counter \in Nat /\ CounterModulus \in Nat \ {0}
  BY RelaxedFacts
<1>2. counter % CounterModulus = counter
  BY <1>1, ModSmall
<1>3. (counter + 1) % CounterModulus
        = IF counter % CounterModulus = CounterModulus - 1 THEN 0
          ELSE (counter % CounterModulus) + 1
  BY <1>1, NextMod
<1>4. (counter + 1) % CounterModulus
        = IF counter + 1 = CounterModulus THEN 0 ELSE counter + 1
  BY <1>1, <1>2, <1>3
<1>5. counter' = (counter + 1) % CounterModulus
  BY DEF Relaxed!CountVisit
<1> QED
  BY <1>1, <1>4, <1>5

\* Visits are counted from a fifo's last turn on: less than a round of them, and those
\* since the counter wrapped around if that has skipped the fifo.
LEMMA SinceFacts ==
    ASSUME RelaxedAssumed, counter \in 0 .. CounterModulus - 1
    PROVE  /\ Relaxed!Index \in Producers
           /\ \A p \in Producers :
                 /\ Relaxed!Since(p) \in Nat
                 /\ Relaxed!Since(p)
                       < NumProducers + (IF Relaxed!Skipped(p) THEN counter ELSE 0)
<1>1. Relaxed!Index \in Producers
  <2>1. counter \in Nat /\ NumProducers \in Nat \ {0}
    BY RelaxedFacts
  <2>2. counter % NumProducers \in 0 .. NumProducers - 1
    BY <2>1, DivMod
  <2> QED
    BY <2>2 DEF Relaxed!Index, Producers
<1>2. ASSUME NEW p \in Producers
      PROVE  /\ Relaxed!Since(p) \in Nat
             /\ Relaxed!Since(p)
                   < NumProducers + (IF Relaxed!Skipped(p) THEN counter ELSE 0)
  <2>1. /\ p \in 0 .. NumProducers - 1 /\ p < CounterModulus /\ counter \in Nat
        /\ NumProducers \in Nat \ {0} /\ CounterModulus \in Nat
    BY RelaxedFacts DEF Producers
  <2>2. CASE p < counter
    <3>1. counter - 1 - p \in Nat
      BY <2>1, <2>2
    <3>2. (counter - 1 - p) % NumProducers \in 0 .. NumProducers - 1
      BY <2>1, <3>1, DivMod
    <3> QED
      BY <2>1, <2>2, <3>2 DEF Relaxed!Since
  <2>3. CASE p >= counter
    <3>1. CounterModulus - 1 - p \in Nat
      BY <2>1
    <3>2. /\ (CounterModulus - 1 - p) % NumProducers \in 0 .. NumProducers - 1
          /\ Relaxed!Since(p) = counter + ((CounterModulus - 1 - p) % NumProducers)
      BY <2>1, <2>3, <3>1, DivMod DEF Relaxed!Since
    <3>3. CASE CounterModulus % NumProducers = 0
      <4>1. (CounterModulus - 1 - p) % NumProducers = NumProducers - 1 - p
        BY <2>1, <3>3, ModBelow
      <4>2. Relaxed!Since(p) = counter + (NumProducers - 1 - p)
        BY <3>2, <4>1
      <4>3. ~Relaxed!Skipped(p)
        BY <3>3 DEF Relaxed!Skipped
      <4> QED
        BY <2>1, <2>3, <4>2, <4>3
    <3>4. CASE CounterModulus % NumProducers # 0
      <4>1. Relaxed!Skipped(p) <=> counter \in 1 .. p
        BY <3>4 DEF Relaxed!Skipped
      <4> DEFINE rest == (CounterModulus - 1 - p) % NumProducers
      <4> HIDE DEF rest
      <4>2. rest \in 0 .. NumProducers - 1 /\ Relaxed!Since(p) = counter + rest
        BY <3>2 DEF rest
      <4> QED
        BY <2>1, <2>3, <4>1, <4>2
    <3> QED
      BY <3>3, <3>4
  <2> QED
    BY <2>1, <2>2, <2>3
<1> QED
  BY <1>1, <1>2

\* The count of visits is a natural number, whatever the counter is.
LEMMA RestType ==
    ASSUME RelaxedAssumed, NEW p \in Producers, NEW c \in Nat
    PROVE  (IF p < c THEN (c - 1 - p) % NumProducers
            ELSE c + ((CounterModulus - 1 - p) % NumProducers)) \in Nat
<1>1. /\ p \in Nat /\ p < CounterModulus
      /\ NumProducers \in Nat \ {0} /\ CounterModulus \in Nat
  BY RelaxedFacts DEF Producers
<1>2. CASE p < c
  <2>1. c - 1 - p \in Nat
    BY <1>1, <1>2
  <2>2. (c - 1 - p) % NumProducers \in 0 .. NumProducers - 1
    BY <1>1, <2>1, DivMod
  <2> QED
    BY <1>2, <2>2
<1>3. CASE ~(p < c)
  <2> DEFINE rest == (CounterModulus - 1 - p) % NumProducers
  <2>1. CounterModulus - 1 - p \in Nat
    BY <1>1
  <2>2. rest \in 0 .. NumProducers - 1
    BY <1>1, <2>1, DivMod
  <2>3. c + rest \in Nat
    <3> HIDE DEF rest
    <3> QED
      BY <2>2
  <2> QED
    BY <1>3, <2>3
<1> QED
  BY <1>2, <1>3

\* So it is after a visit.
LEMMA SinceLater ==
    ASSUME RelaxedAssumed, counter \in 0 .. CounterModulus - 1, Relaxed!CountVisit,
           NEW p \in Producers
    PROVE  Relaxed!Since(p)' \in Nat
<1>1. PICK c \in Nat : c = counter'
  BY RelaxedFacts, NextCounter
<1>2. Relaxed!Since(p)' = IF p < c THEN (c - 1 - p) % NumProducers
                          ELSE c + ((CounterModulus - 1 - p) % NumProducers)
  BY <1>1 DEF Relaxed!Since
<1> QED
  BY <1>2, RestType

\* A visit to another fifo, also where the counter wraps around.
LEMMA SinceNext ==
    ASSUME RelaxedAssumed, counter \in 0 .. CounterModulus - 1, Relaxed!CountVisit,
           NEW p \in Producers, p # Relaxed!Index
    PROVE  Relaxed!Since(p)' = Relaxed!Since(p) + 1
<1>1. /\ p \in 0 .. NumProducers - 1 /\ p < CounterModulus - 1 /\ counter \in Nat
      /\ NumProducers \in Nat \ {0} /\ CounterModulus \in Nat
      /\ counter <= CounterModulus - 1
  BY RelaxedFacts DEF Producers
<1>2. counter' = IF counter + 1 = CounterModulus THEN 0 ELSE counter + 1
  BY NextCounter
<1>3. p # counter
  BY <1>1, ModSmall DEF Relaxed!Index
<1>4. Relaxed!Since(p)' = IF p < counter' THEN (counter' - 1 - p) % NumProducers
                          ELSE counter' + ((CounterModulus - 1 - p) % NumProducers)
  BY DEF Relaxed!Since
<1>5. CASE p < counter
  <2> DEFINE n == counter - 1 - p
  <2>1. n \in Nat /\ n + 1 = counter - p
    BY <1>1, <1>5
  <2>2. (n + 1) % NumProducers # 0
    <3> SUFFICES ASSUME (counter - p) % NumProducers = 0 PROVE FALSE
      BY <2>1
    <3>1. counter % NumProducers = p
      BY <1>1, <1>5, ModFrom
    <3> QED
      BY <3>1 DEF Relaxed!Index
  <2>3. (n + 1) % NumProducers
          = IF n % NumProducers = NumProducers - 1 THEN 0 ELSE (n % NumProducers) + 1
    BY <1>1, <2>1, NextMod
  <2>4. Relaxed!Since(p) = n % NumProducers
    BY <1>5 DEF Relaxed!Since
  <2>5. Relaxed!Since(p)' = (n + 1) % NumProducers
    <3>1. CASE counter + 1 = CounterModulus
      <4>1. counter' = 0 /\ CounterModulus - 1 - p = n + 1
        BY <1>1, <1>2, <2>1, <3>1
      <4>2. (n + 1) % NumProducers \in 0 .. NumProducers - 1
        <5>1. n + 1 \in Nat
          BY <2>1
        <5> QED
          BY <1>1, <5>1, DivMod
      <4>3. Relaxed!Since(p)' = 0 + ((n + 1) % NumProducers)
        BY <1>1, <1>4, <4>1
      <4> HIDE DEF n
      <4> QED
        BY <4>2, <4>3
    <3>2. CASE counter + 1 # CounterModulus
      <4>1. counter' = counter + 1 /\ counter' - 1 - p = n + 1 /\ p < counter'
        BY <1>1, <1>2, <1>5, <2>1, <3>2
      <4> QED
        BY <1>4, <4>1
    <3> QED
      BY <3>1, <3>2
  <2> QED
    BY <2>2, <2>3, <2>4, <2>5
<1>6. CASE p > counter
  <2> DEFINE rest == (CounterModulus - 1 - p) % NumProducers
  <2>1. rest \in 0 .. NumProducers - 1
    <3>1. CounterModulus - 1 - p \in Nat
      BY <1>1
    <3> QED
      BY <1>1, <3>1, DivMod
  <2>2. counter' = counter + 1 /\ ~(p < counter')
    BY <1>1, <1>2, <1>6
  <2>3. Relaxed!Since(p) = counter + rest /\ Relaxed!Since(p)' = (counter + 1) + rest
    BY <1>1, <1>4, <1>6, <2>2 DEF Relaxed!Since
  <2> HIDE DEF rest
  <2> QED
    BY <1>1, <2>1, <2>3
<1> QED
  BY <1>1, <1>3, <1>5, <1>6

-----------------------------------------------------------------------------
(* The nodes of the fifos.                                                 *)

LEMMA NodesOfSeq ==
    ASSUME NEW s \in Seq(Nodes)
    PROVE  /\ Relaxed!NodesOf(s) \subseteq Nodes /\ Len(s) \in Nat
           /\ \A j \in 1 .. Len(s) : s[j] \in Relaxed!NodesOf(s) /\ s[j] \in Nodes
BY DEF Relaxed!NodesOf

LEMMA RelaxedTypes ==
    ASSUME RelaxedAssumed, Relaxed!TypeOK
    PROVE  /\ r_head \in [Producers -> Nodes \cup {NULL}]
           /\ r_tail \in [Producers -> Nodes \cup {NULL}]
           /\ r_next \in [Nodes -> Nodes \cup {NULL}] /\ r_data \in [Nodes -> Items \cup {NULL}]
           /\ heap \subseteq Nodes
           /\ r_new_node \in [Producers -> Nodes \cup {NULL}]
           /\ r_prev_tail \in [Producers -> Nodes \cup {NULL}]
           /\ out \in Items \cup {NULL}
           /\ queued \in [Producers -> Seq(Items)]
           /\ \A p \in Producers : queued[p] \in Seq(Items) /\ Len(queued[p]) \in Nat
           /\ r_pc \in {"none", "create", "idle", "trypop", "destroy"}
           /\ r_i \in 0 .. NumProducers /\ made \in 0 .. NumProducers
           /\ counter \in 0 .. CounterModulus - 1
           /\ present \subseteq Producers
           /\ passed \in [Producers -> 0 .. 2 * NumProducers]
BY RelaxedFacts DEF Relaxed!TypeOK, Relaxed!SpscTypeOK

LEMMA RelaxedTyped ==
    ASSUME RelaxedAssumed,
           r_head' \in [Producers -> Nodes \cup {NULL}],
           r_tail' \in [Producers -> Nodes \cup {NULL}],
           r_next' \in [Nodes -> Nodes \cup {NULL}], r_data' \in [Nodes -> Items \cup {NULL}],
           heap' \subseteq Nodes,
           r_new_node' \in [Producers -> Nodes \cup {NULL}],
           r_prev_tail' \in [Producers -> Nodes \cup {NULL}],
           out' \in Items \cup {NULL},
           queued' \in [Producers -> Seq(Items)],
           r_pc' \in {"none", "create", "idle", "trypop", "destroy"},
           r_i' \in 0 .. NumProducers, made' \in 0 .. NumProducers,
           counter' \in 0 .. CounterModulus - 1,
           present' \subseteq Producers,
           passed' \in [Producers -> 0 .. 2 * NumProducers]
    PROVE  Relaxed!TypeOK'
BY RelaxedFacts DEF Relaxed!TypeOK, Relaxed!SpscTypeOK, Relaxed!Producers

\* The lengths of a fifo's nodes and items.
LEMMA FifoLength ==
    ASSUME RelaxedAssumed, Relaxed!TypeOK, NEW p \in Producers, NEW s \in Seq(Nodes),
           Relaxed!IsFifo(p, s)
    PROVE  /\ Len(s) \in Nat /\ Len(queued[p]) \in Nat
           /\ s # <<>> => Len(queued[p]) < Len(s)
           /\ s = <<>> => Len(s) = 0 /\ Len(queued[p]) = 0
           /\ s # <<>> => r_head[p] = s[1] /\ s[1] \in Nodes
           /\ \A j \in 1 .. Len(queued[p]) : j \in 1 .. Len(s) /\ j + 1 \in 1 .. Len(s)
<1>1. Len(s) \in Nat /\ Len(queued[p]) \in Nat
  BY RelaxedTypes
<1>2. /\ s # <<>> => Len(queued[p]) < Len(s)
      /\ s = <<>> => Len(s) = 0 /\ Len(queued[p]) = 0
  BY <1>1 DEF Relaxed!IsFifo
<1>3. s # <<>> => r_head[p] = s[1] /\ s[1] \in Nodes
  BY <1>1, <1>2, NodesOfSeq DEF Relaxed!IsFifo
<1> QED
  BY <1>1, <1>2, <1>3

\* Something is linked behind the head exactly when something is queued: the oldest item.
LEMMA LinkedIsQueued ==
    ASSUME RelaxedAssumed, Relaxed!TypeOK, NEW p \in Producers, NEW s \in Seq(Nodes),
           Relaxed!IsFifo(p, s), s # <<>>
    PROVE  /\ Relaxed!Linked(p) <=> queued[p] # <<>>
           /\ Relaxed!Linked(p) => /\ Len(queued[p]) >= 1 /\ Len(s) >= 2
                                   /\ r_next[r_head[p]] = s[2] /\ r_data[s[2]] = queued[p][1]
<1>1. /\ Len(s) \in Nat /\ Len(queued[p]) \in Nat /\ Len(queued[p]) < Len(s)
      /\ r_head[p] = s[1]
  BY FifoLength
<1>2. r_next[s[1]] = IF 1 <= Len(queued[p]) THEN s[2] ELSE NULL
  BY <1>1 DEF Relaxed!IsFifo
<1>3. Len(queued[p]) >= 1 => s[2] \in Nodes /\ r_data[s[2]] = queued[p][1]
  <2>1. ASSUME Len(queued[p]) >= 1
        PROVE  2 \in 1 .. Len(s) /\ 1 \in 1 .. Len(queued[p]) /\ 1 + 1 = 2
    BY <1>1, <2>1
  <2> QED
    BY <2>1, NodesOfSeq DEF Relaxed!IsFifo
<1>4. queued[p] # <<>> <=> Len(queued[p]) >= 1
  BY <1>1, RelaxedTypes
<1> QED
  BY <1>1, <1>2, <1>3, <1>4, RelaxedFacts DEF Relaxed!Linked

\* A fifo whose words are left alone.
SameFifo(p) ==
    UNCHANGED <<r_head[p], r_tail[p], r_new_node[p], r_prev_tail[p], queued[p]>>

LEMMA FifoKept ==
    ASSUME RelaxedAssumed, Relaxed!TypeOK, NEW p \in Producers, NEW s \in Seq(Nodes),
           Relaxed!IsFifo(p, s), SameFifo(p),
           \A n \in Relaxed!NodesOf(s) : r_next'[n] = r_next[n] /\ r_data'[n] = r_data[n]
    PROVE  Relaxed!IsFifo(p, s)'
<1>1. \A j \in 1 .. Len(s) : r_next'[s[j]] = r_next[s[j]] /\ r_data'[s[j]] = r_data[s[j]]
  BY DEF Relaxed!NodesOf
<1>2. \A j \in 1 .. Len(queued[p]) : r_data'[s[j + 1]] = queued[p][j]
  BY <1>1, FifoLength DEF Relaxed!IsFifo
<1>3. ASSUME Len(s) = Len(queued[p]) + 2, r_new_node[p] = s[Len(s)],
             r_data[r_new_node[p]] \in Items
      PROVE  r_data'[r_new_node[p]] \in Items
  BY <1>1, <1>3, FifoLength
<1> QED
  BY <1>1, <1>2, <1>3 DEF Relaxed!IsFifo, SameFifo

\* One fifo gets other nodes, by way of the heap.
LEMMA OneFifo ==
    ASSUME RelaxedAssumed, Relaxed!TypeOK,
           NEW fifos \in [Producers -> Seq(Nodes)], Relaxed!FifosInv(fifos),
           NEW p \in Producers, NEW s \in Seq(Nodes), Relaxed!IsFifo(p, s)',
           \A q \in Producers \ {p} : SameFifo(q),
           \A n \in Nodes \ (heap \cup Relaxed!NodesOf(fifos[p])) :
              r_next'[n] = r_next[n] /\ r_data'[n] = r_data[n],
           Relaxed!NodesOf(s) \subseteq heap \cup Relaxed!NodesOf(fifos[p]),
           heap' = (heap \cup Relaxed!NodesOf(fifos[p])) \ Relaxed!NodesOf(s),
           \A n \in heap' : r_next'[n] = NULL,
           s # <<>> <=> Relaxed!Exists(p)',
           \A q \in Producers \ {p} : Relaxed!Exists(q)' <=> Relaxed!Exists(q)
    PROVE  \E f \in [Producers -> Seq(Nodes)] : Relaxed!FifosInv(f)'
<1> DEFINE f == [fifos EXCEPT ![p] = s]
<1>1. /\ f \in [Producers -> Seq(Nodes)] /\ f[p] = s
      /\ \A q \in Producers \ {p} : f[q] = fifos[q]
  OBVIOUS
<1>2. /\ \A q \in Producers : Relaxed!IsFifo(q, fifos[q]) /\ (fifos[q] # <<>> <=> Relaxed!Exists(q))
      /\ \A q, u \in Producers :
            q # u => Relaxed!NodesOf(fifos[q]) \cap Relaxed!NodesOf(fifos[u]) = {}
      /\ \A n \in Nodes :
            n \in heap <=> \A q \in Producers : n \notin Relaxed!NodesOf(fifos[q])
  BY RelaxedFacts DEF Relaxed!FifosInv, Relaxed!Partition
<1>3. /\ heap \subseteq Nodes /\ Relaxed!NodesOf(s) \subseteq Nodes
      /\ \A q \in Producers : Relaxed!NodesOf(fifos[q]) \subseteq Nodes
  BY RelaxedTypes, NodesOfSeq
<1> HIDE DEF f
<1>4. ASSUME NEW q \in Producers
      PROVE  Relaxed!IsFifo(q, f[q])' /\ (f[q] # <<>> <=> Relaxed!Exists(q)')
  <2>1. CASE q = p
    BY <1>1, <2>1
  <2>2. CASE q # p
    <3>1. \A n \in Relaxed!NodesOf(fifos[q]) : n \in Nodes \ (heap \cup Relaxed!NodesOf(fifos[p]))
      BY <1>2, <1>3, <2>2
    <3>2. Relaxed!IsFifo(q, fifos[q])'
      BY <1>2, <2>2, <3>1, FifoKept
    <3> QED
      BY <1>1, <1>2, <2>2, <3>2
  <2> QED
    BY <2>1, <2>2
<1>5. \A q \in Producers \ {p} : Relaxed!NodesOf(s) \cap Relaxed!NodesOf(fifos[q]) = {}
  BY <1>2, <1>3
<1>6. ASSUME NEW q \in Producers, NEW u \in Producers, q # u
      PROVE  Relaxed!NodesOf(f[q]) \cap Relaxed!NodesOf(f[u]) = {}
  <2>1. CASE q = p
    BY <1>1, <1>6, <1>5, <2>1
  <2>2. CASE u = p
    BY <1>1, <1>6, <1>5, <2>2
  <2>3. CASE q # p /\ u # p
    BY <1>1, <1>2, <1>6, <2>3
  <2> QED
    BY <2>1, <2>2, <2>3
<1>7. ASSUME NEW n \in Nodes
      PROVE  n \in heap' <=> \A q \in Producers : n \notin Relaxed!NodesOf(f[q])
  <2>1. ASSUME n \in heap', NEW q \in Producers PROVE n \notin Relaxed!NodesOf(f[q])
    <3>1. CASE q = p
      BY <1>1, <2>1, <3>1
    <3>2. CASE q # p
      BY <1>1, <1>2, <2>1, <3>2
    <3> QED
      BY <3>1, <3>2
  <2>2. ASSUME \A q \in Producers : n \notin Relaxed!NodesOf(f[q]) PROVE n \in heap'
    <3>1. n \notin Relaxed!NodesOf(s)
      BY <1>1, <2>2
    <3>2. \A q \in Producers \ {p} : n \notin Relaxed!NodesOf(fifos[q])
      BY <1>1, <2>2
    <3> QED
      BY <1>2, <3>1, <3>2
  <2> QED
    BY <2>1, <2>2
<1>8. \A x : Relaxed!NodesOf(x)' = Relaxed!NodesOf(x)
  BY DEF Relaxed!NodesOf
<1>9. Relaxed!Partition(f)'
  BY <1>6, <1>7, <1>8, RelaxedFacts DEF Relaxed!Partition, Relaxed!Producers
<1>10. Relaxed!FifosInv(f)'
  BY <1>4, <1>9, RelaxedFacts DEF Relaxed!FifosInv, Relaxed!Producers
<1> QED
  BY <1>1, <1>10

\* No fifo changes.
LEMMA NoFifo ==
    ASSUME RelaxedAssumed, Relaxed!TypeOK,
           NEW fifos \in [Producers -> Seq(Nodes)], Relaxed!FifosInv(fifos),
           UNCHANGED <<r_head, r_tail, r_next, r_data, heap, r_new_node, r_prev_tail, queued>>,
           \A q \in Producers : Relaxed!Exists(q)' <=> Relaxed!Exists(q)
    PROVE  \E f \in [Producers -> Seq(Nodes)] : Relaxed!FifosInv(f)'
<1>1. \A q \in Producers : Relaxed!IsFifo(q, fifos[q])'
  BY RelaxedFacts DEF Relaxed!FifosInv, Relaxed!IsFifo
<1>2. Relaxed!Partition(fifos)'
  BY DEF Relaxed!FifosInv, Relaxed!Partition, Relaxed!NodesOf, Relaxed!Producers
<1>3. Relaxed!FifosInv(fifos)'
  BY <1>1, <1>2, RelaxedFacts DEF Relaxed!FifosInv, Relaxed!Producers
<1> QED
  BY <1>3

\* Every nonempty set of natural numbers has a least element.
LEMMA LeastNat ==
    ASSUME NEW S \in SUBSET Nat, S # {}
    PROVE  \E m \in S : \A n \in S : m <= n
<1> DEFINE R == OpToRel(<, Nat)
<1>1. IsWellFoundedOn(R, Nat)
  BY NatLessThanWellFounded
<1>2. PICK m \in S : \A y \in S : ~(<<y, m>> \in R)
  <2> HIDE DEF R
  <2> QED
    BY <1>1, WFMin
<1>3. \A y \in S : ~(y < m)
  BY <1>2 DEF OpToRel
<1> QED
  BY <1>3

\* What one comes to from the head: all nodes, but for one that is still to be linked.
LEMMA ChainFromHead ==
    ASSUME RelaxedAssumed, Relaxed!TypeOK, NEW p \in Producers, NEW s \in Seq(Nodes),
           Relaxed!IsFifo(p, s)
    PROVE  LET L == IF s = <<>> THEN 0 ELSE Len(queued[p]) + 1 IN
           Relaxed!ChainFrom(r_head[p]) = {s[j] : j \in 1 .. L}
<1> DEFINE L == IF s = <<>> THEN 0 ELSE Len(queued[p]) + 1
           linked == {s[j] : j \in 1 .. L}
<1>1. L \in Nat /\ L <= Len(s) /\ Len(s) \in Nat
  BY FifoLength
<1>2. \A j \in 1 .. L : s[j] \in Nodes /\ r_next[s[j]] = IF j < L THEN s[j + 1] ELSE NULL
  <2>1. ASSUME NEW j \in 1 .. L
        PROVE  s[j] \in Nodes /\ r_next[s[j]] = IF j < L THEN s[j + 1] ELSE NULL
    <3>1. L = Len(queued[p]) + 1
      BY <1>1, <2>1
    <3>2. j \in 1 .. Len(s) /\ (j < L <=> j <= Len(queued[p]))
      BY <1>1, <2>1, <3>1, FifoLength
    <3> HIDE DEF L
    <3> QED
      BY <3>2, NodesOfSeq DEF Relaxed!IsFifo
  <2> QED
    BY <2>1
<1>3. IF L = 0 THEN r_head[p] = NULL ELSE r_head[p] = s[1]
  BY FifoLength DEF Relaxed!IsFifo
<1> HIDE DEF L
<1>4. linked \subseteq Nodes
  BY <1>2
<1>5. r_head[p] # NULL => r_head[p] \in linked
  BY <1>1, <1>3
<1>6. ASSUME NEW m \in linked PROVE r_next[m] \in linked \cup {NULL}
  <2>1. PICK j \in 1 .. L : m = s[j]
    OBVIOUS
  <2>2. j < L => j + 1 \in 1 .. L
    BY <1>1
  <2> QED
    BY <1>2, <2>1, <2>2
<1>7. Relaxed!ChainFrom(r_head[p]) \subseteq linked
  BY <1>4, <1>5, <1>6 DEF Relaxed!ChainFrom
<1>8. ASSUME NEW S \in SUBSET Nodes, r_head[p] # NULL => r_head[p] \in S,
             \A m \in S : r_next[m] \in S \cup {NULL}
      PROVE  linked \subseteq S
  <2> DEFINE Outside == {j \in 1 .. L : s[j] \notin S}
  <2>1. SUFFICES ASSUME Outside # {} PROVE FALSE
    OBVIOUS
  <2>2. PICK j \in Outside : \A k \in Outside : j <= k
    <3>1. Outside \in SUBSET Nat
      BY <1>1
    <3> HIDE DEF Outside
    <3> QED
      BY <2>1, <3>1, LeastNat
  <2>3. j \in 1 .. L /\ s[j] \notin S /\ s[j] \in Nodes
    BY <1>2, <2>2
  <2>4. CASE j = 1
    BY <1>1, <1>3, <1>8, <2>3, <2>4, RelaxedFacts
  <2>5. CASE j # 1
    <3>1. j - 1 \in 1 .. L /\ j - 1 < L /\ (j - 1) + 1 = j /\ ~(j <= j - 1)
      BY <1>1, <2>3, <2>5
    <3>2. s[j - 1] \in S
      BY <2>2, <3>1
    <3>3. r_next[s[j - 1]] = s[j]
      BY <1>2, <3>1
    <3> QED
      BY <1>8, <2>3, <3>2, <3>3, RelaxedFacts
  <2> QED
    BY <2>4, <2>5
<1>9. linked \subseteq Relaxed!ChainFrom(r_head[p])
  BY <1>4, <1>8 DEF Relaxed!ChainFrom
<1> QED
  BY <1>7, <1>9 DEF L

\* Nobody has a fifo.
LEMMA RelaxedInitInv == ASSUME RelaxedAssumed, Relaxed!Init PROVE Relaxed!IInv
<1>1. /\ r_head = [p \in Producers |-> NULL] /\ r_tail = [p \in Producers |-> NULL]
      /\ r_next = [n \in Nodes |-> NULL] /\ r_data = [n \in Nodes |-> NULL]
      /\ heap = Nodes
      /\ r_new_node = [p \in Producers |-> NULL] /\ r_prev_tail = [p \in Producers |-> NULL]
      /\ out = NULL /\ queued = [p \in Producers |-> <<>>]
      /\ r_pc = "none" /\ r_i = 0 /\ made = 0 /\ counter = 0 /\ present = {}
      /\ passed = [p \in Producers |-> 0]
  BY RelaxedFacts DEF Relaxed!Init, Relaxed!SpscInit
<1>2. Relaxed!TypeOK
  <2>1. <<>> \in Seq(Items)
    OBVIOUS
  <2>2. /\ 0 \in 0 .. CounterModulus - 1 /\ 0 \in 0 .. NumProducers
        /\ 0 \in 0 .. 2 * NumProducers
    BY RelaxedFacts
  <2> QED
    BY <1>1, <2>1, <2>2, RelaxedFacts DEF Relaxed!TypeOK, Relaxed!SpscTypeOK
<1>3. Relaxed!StagesInv
  BY <1>1, RelaxedFacts DEF Relaxed!StagesInv
<1>4. \A p \in Producers : Relaxed!Since(p) \in Nat
  <2>1. counter \in 0 .. CounterModulus - 1
    BY <1>1, RelaxedFacts
  <2> QED
    BY <2>1, SinceFacts
<1>5. Relaxed!RoundsInv
  BY <1>1, <1>4, RelaxedFacts DEF Relaxed!RoundsInv
<1>6. PICK fifos : fifos = [p \in Producers |-> <<>>]
  OBVIOUS
<1>7. fifos \in [Producers -> Seq(Nodes)]
  BY <1>6
<1>8. \A p \in Producers : fifos[p] = <<>> /\ Relaxed!NodesOf(fifos[p]) = {}
  BY <1>6 DEF Relaxed!NodesOf
<1>9. \A p \in Producers : Relaxed!IsFifo(p, fifos[p]) /\ ~Relaxed!Exists(p)
  BY <1>1, <1>8 DEF Relaxed!IsFifo, Relaxed!Exists
<1>10. Relaxed!Partition(fifos)
  BY <1>1, <1>8, RelaxedFacts DEF Relaxed!Partition
<1>11. Relaxed!FifosInv(fifos)
  BY <1>8, <1>9, <1>10, RelaxedFacts DEF Relaxed!FifosInv
<1> QED
  BY <1>2, <1>3, <1>5, <1>7, <1>11, RelaxedFacts DEF Relaxed!IInv

-----------------------------------------------------------------------------
(* The rounds.                                                             *)

\* A step that visits no fifo and takes nothing away.
LEMMA RoundsKept ==
    ASSUME RelaxedAssumed, Relaxed!TypeOK, Relaxed!RoundsInv, UNCHANGED <<counter, passed>>,
           \A p \in Producers : queued[p] # <<>> => queued'[p] # <<>>,
           \A p \in Producers : Relaxed!Exists(p) => Relaxed!Exists(p)',
           r_pc' = "trypop" => r_pc = "trypop" /\ UNCHANGED <<r_i, present>>
    PROVE  Relaxed!RoundsInv'
<1>1. \A p \in Producers : Relaxed!Since(p)' = Relaxed!Since(p)
  BY DEF Relaxed!Since
<1>2. /\ \A p \in Producers : passed[p] <= Relaxed!Since(p)
      /\ \A p \in Producers : passed[p] # 0 => Relaxed!Exists(p) /\ queued[p] # <<>>
      /\ r_pc = "trypop" => \A p \in present : queued[p] # <<>> /\ r_i <= Relaxed!Since(p)
  BY RelaxedFacts DEF Relaxed!RoundsInv
<1>3. present \subseteq Producers
  BY RelaxedTypes
<1>4. \A p \in Producers : passed'[p] <= Relaxed!Since(p)'
  BY <1>1, <1>2
<1>5. \A p \in Producers : passed'[p] # 0 => Relaxed!Exists(p)' /\ queued'[p] # <<>>
  BY <1>2
<1>6. r_pc' = "trypop" => \A p \in present' : queued'[p] # <<>> /\ r_i' <= Relaxed!Since(p)'
  BY <1>1, <1>2, <1>3
<1> QED
  BY <1>4, <1>5, <1>6, RelaxedFacts DEF Relaxed!RoundsInv, Relaxed!Producers

\* The counter is reset when there is no fifo.
LEMMA RoundsReset ==
    ASSUME RelaxedAssumed, Relaxed!TypeOK, Relaxed!RoundsInv,
           \A p \in Producers : ~Relaxed!Exists(p),
           counter' = 0, passed' = passed, r_pc' # "trypop"
    PROVE  Relaxed!RoundsInv'
<1>1. \A p \in Producers : passed'[p] = 0
  BY RelaxedFacts DEF Relaxed!RoundsInv
<1>2. counter' \in 0 .. CounterModulus - 1
  BY RelaxedFacts
<1>3. \A p \in Producers : Relaxed!Since(p)' \in Nat
  <2> TAKE p \in Producers
  <2>1. Relaxed!Since(p)' = IF p < 0 THEN (0 - 1 - p) % NumProducers
                            ELSE 0 + ((CounterModulus - 1 - p) % NumProducers)
    BY DEF Relaxed!Since
  <2> QED
    BY <2>1, RestType
<1> QED
  BY <1>1, <1>3, RelaxedFacts DEF Relaxed!RoundsInv, Relaxed!Producers

-----------------------------------------------------------------------------
(* Every step keeps the invariant.                                         *)

LEMMA RelaxedParts ==
    ASSUME RelaxedAssumed
    PROVE  /\ Relaxed!IInv => /\ Relaxed!TypeOK /\ Relaxed!StagesInv /\ Relaxed!RoundsInv
                              /\ \E f \in [Producers -> Seq(Nodes)] : Relaxed!FifosInv(f)
           /\ Relaxed!TypeOK' /\ Relaxed!StagesInv' /\ Relaxed!RoundsInv'
                /\ (\E f \in [Producers -> Seq(Nodes)] : Relaxed!FifosInv(f)') => Relaxed!IInv'
BY RelaxedFacts DEF Relaxed!IInv, Relaxed!Producers

\* What the nonempty fifos are.
LEMMA FifosFacts ==
    ASSUME RelaxedAssumed, NEW fifos \in [Producers -> Seq(Nodes)], Relaxed!FifosInv(fifos),
           NEW p \in Producers
    PROVE  Relaxed!IsFifo(p, fifos[p]) /\ (fifos[p] # <<>> <=> Relaxed!Exists(p))
BY RelaxedFacts DEF Relaxed!FifosInv

LEMMA RelaxedStutter ==
    ASSUME RelaxedAssumed, Relaxed!IInv, UNCHANGED Relaxed!vars
    PROVE  Relaxed!IInv'
<1>1. /\ Relaxed!TypeOK /\ Relaxed!StagesInv /\ Relaxed!RoundsInv
      /\ \E f \in [Producers -> Seq(Nodes)] : Relaxed!FifosInv(f)
  BY RelaxedParts
<1>2. UNCHANGED <<r_head, r_tail, r_next, r_data, heap, r_new_node, r_prev_tail, out, queued,
                  r_pc, r_i, made, counter, present, passed>>
  BY DEF Relaxed!vars, Relaxed!spscVars
<1>3. Relaxed!TypeOK'
  BY <1>1, <1>2, RelaxedTypes, RelaxedTyped
<1>4. Relaxed!StagesInv'
  BY <1>1, <1>2 DEF Relaxed!StagesInv, Relaxed!Producers
<1>5. \A p \in Producers : Relaxed!Exists(p)' <=> Relaxed!Exists(p)
  BY <1>2 DEF Relaxed!Exists
<1>6. Relaxed!RoundsInv'
  BY <1>1, <1>2, <1>5, RoundsKept
<1>7. \E f \in [Producers -> Seq(Nodes)] : Relaxed!FifosInv(f)'
  BY <1>1, <1>2, <1>5, NoFifo
<1> QED
  BY <1>3, <1>4, <1>6, <1>7, RelaxedParts

LEMMA CreateCallInv ==
    ASSUME RelaxedAssumed, Relaxed!IInv, Relaxed!CreateCall
    PROVE  Relaxed!IInv'
<1>1. /\ Relaxed!TypeOK /\ Relaxed!StagesInv /\ Relaxed!RoundsInv
      /\ \E f \in [Producers -> Seq(Nodes)] : Relaxed!FifosInv(f)
  BY RelaxedParts
<1>2. /\ UNCHANGED <<r_head, r_tail, r_next, r_data, heap, r_new_node, r_prev_tail, out, queued,
                     present, passed>>
      /\ r_pc = "none" /\ r_pc' = "create" /\ r_i' = 0 /\ made' = 0 /\ counter' = 0
  BY DEF Relaxed!CreateCall, Relaxed!spscVars
<1>3. Relaxed!TypeOK'
  BY <1>1, <1>2, RelaxedTypes, RelaxedTyped, RelaxedFacts
<1>4. Relaxed!StagesInv'
  BY <1>1, <1>2, RelaxedFacts DEF Relaxed!StagesInv, Relaxed!Producers
<1>5. \A p \in Producers : ~Relaxed!Exists(p) /\ ~Relaxed!Exists(p)'
  BY <1>2, RelaxedFacts DEF Relaxed!Exists, Producers
<1>6. Relaxed!RoundsInv'
  BY <1>1, <1>2, <1>5, RoundsReset
<1>7. \E f \in [Producers -> Seq(Nodes)] : Relaxed!FifosInv(f)'
  BY <1>1, <1>2, <1>5, NoFifo
<1> QED
  BY <1>3, <1>4, <1>6, <1>7, RelaxedParts

\* CreateFails and DestroyCall: all that exists is to be destroyed.
LEMMA ToDestroyInv ==
    ASSUME RelaxedAssumed, Relaxed!IInv, Relaxed!CreateFails \/ Relaxed!DestroyCall
    PROVE  Relaxed!IInv'
<1>1. /\ Relaxed!TypeOK /\ Relaxed!StagesInv /\ Relaxed!RoundsInv
      /\ \E f \in [Producers -> Seq(Nodes)] : Relaxed!FifosInv(f)
  BY RelaxedParts
<1>2. /\ UNCHANGED <<r_head, r_tail, r_next, r_data, heap, r_new_node, r_prev_tail, out, queued,
                     made, counter, present, passed>>
      /\ r_pc' = "destroy" /\ r_i' = 0
  BY DEF Relaxed!CreateFails, Relaxed!DestroyCall, Relaxed!spscVars
<1>3. r_pc = "create" \/ (r_pc = "idle" /\ \A p \in Producers : r_new_node[p] = NULL)
  BY RelaxedFacts DEF Relaxed!CreateFails, Relaxed!DestroyCall
<1>4. Relaxed!TypeOK'
  BY <1>1, <1>2, RelaxedTypes, RelaxedTyped, RelaxedFacts
<1>5. Relaxed!StagesInv'
  BY <1>1, <1>2, <1>3, RelaxedFacts, RelaxedTypes DEF Relaxed!StagesInv, Relaxed!Producers
<1>6. \A p \in Producers : Relaxed!Exists(p)' <=> Relaxed!Exists(p)
  BY <1>1, <1>2, <1>3, RelaxedFacts DEF Relaxed!Exists, Relaxed!StagesInv, Producers
<1>7. Relaxed!RoundsInv'
  BY <1>1, <1>2, <1>6, RoundsKept
<1>8. \E f \in [Producers -> Seq(Nodes)] : Relaxed!FifosInv(f)'
  BY <1>1, <1>2, <1>6, NoFifo
<1> QED
  BY <1>4, <1>5, <1>7, <1>8, RelaxedParts

LEMMA TrypopCallInv ==
    ASSUME RelaxedAssumed, Relaxed!IInv, Relaxed!TrypopCall
    PROVE  Relaxed!IInv'
<1>1. /\ Relaxed!TypeOK /\ Relaxed!StagesInv /\ Relaxed!RoundsInv
      /\ \E f \in [Producers -> Seq(Nodes)] : Relaxed!FifosInv(f)
  BY RelaxedParts
<1>2. /\ UNCHANGED <<r_head, r_tail, r_next, r_data, heap, r_new_node, r_prev_tail, queued,
                     made, counter, passed>>
      /\ r_pc = "idle" /\ r_pc' = "trypop" /\ r_i' = 0 /\ out' = NULL
      /\ present' = {p \in Producers : Relaxed!Linked(p)}
  BY RelaxedFacts DEF Relaxed!TrypopCall
<1>3. Relaxed!TypeOK'
  BY <1>1, <1>2, RelaxedTypes, RelaxedTyped, RelaxedFacts
<1>4. Relaxed!StagesInv'
  BY <1>1, <1>2 DEF Relaxed!StagesInv, Relaxed!Producers
<1>5. \A p \in Producers : Relaxed!Exists(p) /\ Relaxed!Exists(p)'
  BY <1>2 DEF Relaxed!Exists
<1>6. \A p \in present' : p \in Producers /\ queued[p] # <<>>
  BY <1>1, <1>2, <1>5, FifosFacts, LinkedIsQueued
<1>7. Relaxed!RoundsInv'
  <2>1. \A p \in Producers : /\ Relaxed!Since(p)' = Relaxed!Since(p)
                             /\ Relaxed!Since(p) \in Nat
    BY <1>1, <1>2, RelaxedTypes, SinceFacts DEF Relaxed!Since
  <2>2. \A p \in Producers : passed'[p] <= Relaxed!Since(p)'
    BY <1>1, <1>2, <2>1, RelaxedFacts DEF Relaxed!RoundsInv
  <2>3. \A p \in Producers : passed'[p] # 0 => Relaxed!Exists(p)' /\ queued'[p] # <<>>
    BY <1>1, <1>2, <1>5, RelaxedFacts DEF Relaxed!RoundsInv
  <2>4. \A p \in present' : queued'[p] # <<>> /\ r_i' <= Relaxed!Since(p)'
    BY <1>2, <1>6, <2>1, RelaxedFacts
  <2> QED
    BY <2>2, <2>3, <2>4, RelaxedFacts DEF Relaxed!RoundsInv, Relaxed!Producers
<1>8. \E f \in [Producers -> Seq(Nodes)] : Relaxed!FifosInv(f)'
  BY <1>1, <1>2, <1>5, NoFifo
<1> QED
  BY <1>3, <1>4, <1>7, <1>8, RelaxedParts

LEMMA TrypopReturnsNullInv ==
    ASSUME RelaxedAssumed, Relaxed!IInv, Relaxed!TrypopReturnsNull
    PROVE  Relaxed!IInv'
<1>1. /\ Relaxed!TypeOK /\ Relaxed!StagesInv /\ Relaxed!RoundsInv
      /\ \E f \in [Producers -> Seq(Nodes)] : Relaxed!FifosInv(f)
  BY RelaxedParts
<1>2. /\ UNCHANGED <<r_head, r_tail, r_next, r_data, heap, r_new_node, r_prev_tail, out, queued,
                     made, counter, passed>>
      /\ r_pc = "trypop" /\ r_pc' = "idle" /\ r_i' = 0 /\ present' = {}
  BY DEF Relaxed!TrypopReturnsNull, Relaxed!spscVars
<1>3. Relaxed!TypeOK'
  BY <1>1, <1>2, RelaxedTypes, RelaxedTyped, RelaxedFacts
<1>4. Relaxed!StagesInv'
  BY <1>1, <1>2 DEF Relaxed!StagesInv, Relaxed!Producers
<1>5. \A p \in Producers : Relaxed!Exists(p) /\ Relaxed!Exists(p)'
  BY <1>2 DEF Relaxed!Exists
<1>6. Relaxed!RoundsInv'
  BY <1>1, <1>2, <1>5, RoundsKept
<1>7. \E f \in [Producers -> Seq(Nodes)] : Relaxed!FifosInv(f)'
  BY <1>1, <1>2, <1>5, NoFifo
<1> QED
  BY <1>3, <1>4, <1>6, <1>7, RelaxedParts

\* The fifo that was visited was empty, so it neither waits nor was there to be found.
LEMMA TrypopNothingInv ==
    ASSUME RelaxedAssumed, Relaxed!IInv, Relaxed!TrypopNothing
    PROVE  Relaxed!IInv'
<1>1. /\ Relaxed!TypeOK /\ Relaxed!StagesInv /\ Relaxed!RoundsInv
      /\ \E f \in [Producers -> Seq(Nodes)] : Relaxed!FifosInv(f)
  BY RelaxedParts
<1>2. /\ UNCHANGED <<r_head, r_tail, r_next, r_data, heap, r_new_node, r_prev_tail, out, queued,
                     r_pc, made, present, passed>>
      /\ r_pc = "trypop" /\ r_i < NumProducers /\ r_i' = r_i + 1
      /\ ~Relaxed!Linked(Relaxed!Index) /\ Relaxed!CountVisit
  BY DEF Relaxed!TrypopNothing, Relaxed!spscVars
<1>3. /\ Relaxed!Index \in Producers
      /\ \A p \in Producers : Relaxed!Since(p) \in Nat
  BY <1>1, RelaxedTypes, SinceFacts
<1>4. counter' \in 0 .. CounterModulus - 1
  BY <1>1, <1>2, RelaxedTypes, NextCounter
<1>5. Relaxed!TypeOK'
  BY <1>1, <1>2, <1>4, RelaxedTypes, RelaxedTyped, RelaxedFacts
<1>6. Relaxed!StagesInv'
  BY <1>1, <1>2 DEF Relaxed!StagesInv, Relaxed!Producers
<1>7. \A p \in Producers : Relaxed!Exists(p) /\ Relaxed!Exists(p)'
  BY <1>2 DEF Relaxed!Exists
<1>8. queued[Relaxed!Index] = <<>>
  BY <1>1, <1>2, <1>3, <1>7, FifosFacts, LinkedIsQueued
<1>9. Relaxed!RoundsInv'
  <2>1. \A p \in Producers :
          /\ Relaxed!Since(p)' \in Nat
          /\ p # Relaxed!Index => Relaxed!Since(p)' = Relaxed!Since(p) + 1
    BY <1>1, <1>2, RelaxedTypes, SinceNext, SinceLater
  <2>2. /\ \A p \in Producers : passed[p] <= Relaxed!Since(p) /\ passed[p] \in Nat
        /\ \A p \in Producers : passed[p] # 0 => queued[p] # <<>>
        /\ \A p \in present : p \in Producers /\ queued[p] # <<>> /\ r_i <= Relaxed!Since(p)
    BY <1>1, <1>2, RelaxedFacts, RelaxedTypes DEF Relaxed!RoundsInv
  <2>3. ASSUME NEW p \in Producers PROVE passed'[p] <= Relaxed!Since(p)'
    BY <1>2, <1>3, <1>8, <2>1, <2>2
  <2>4. \A p \in Producers : passed'[p] # 0 => Relaxed!Exists(p)' /\ queued'[p] # <<>>
    BY <1>2, <1>7, <2>2
  <2>5. ASSUME NEW p \in present' PROVE queued'[p] # <<>> /\ r_i' <= Relaxed!Since(p)'
    <3>1. p \in Producers /\ p # Relaxed!Index /\ r_i <= Relaxed!Since(p) /\ queued'[p] # <<>>
      BY <1>2, <1>8, <2>2
    <3> QED
      BY <1>1, <1>2, <1>3, <2>1, <3>1, RelaxedTypes
  <2> QED
    BY <2>3, <2>4, <2>5, RelaxedFacts DEF Relaxed!RoundsInv, Relaxed!Producers
<1>10. \E f \in [Producers -> Seq(Nodes)] : Relaxed!FifosInv(f)'
  BY <1>1, <1>2, <1>7, NoFifo
<1> QED
  BY <1>5, <1>6, <1>9, <1>10, RelaxedParts

LEMMA CreateFifoInv ==
    ASSUME RelaxedAssumed, Relaxed!IInv, Relaxed!CreateFifo
    PROVE  Relaxed!IInv'
<1>1. /\ Relaxed!TypeOK /\ Relaxed!StagesInv /\ Relaxed!RoundsInv
      /\ \E f \in [Producers -> Seq(Nodes)] : Relaxed!FifosInv(f)
  BY RelaxedParts
<1>2. PICK n \in Nodes : Relaxed!SpscFifoInit(r_i, n)
  BY DEF Relaxed!CreateFifo
<1>3. /\ UNCHANGED <<r_next, r_data, r_new_node, r_prev_tail, out, queued,
                     counter, present, passed>>
      /\ n \in heap /\ heap' = heap \ {n}
      /\ r_head' = [r_head EXCEPT ![r_i] = n] /\ r_tail' = [r_tail EXCEPT ![r_i] = n]
  BY <1>2 DEF Relaxed!CreateFifo, Relaxed!SpscFifoInit, Relaxed!Calloc
<1>4. /\ r_pc = "create" /\ r_i < NumProducers /\ made' = made + 1
      /\ \/ r_i + 1 < NumProducers /\ r_i' = r_i + 1 /\ r_pc' = r_pc
         \/ r_i + 1 = NumProducers /\ r_i' = 0 /\ r_pc' = "idle"
  BY DEF Relaxed!CreateFifo
<1>5. /\ made = r_i /\ r_i \in Producers
      /\ \A p \in Producers : r_new_node[p] = NULL
  <2>1. made = r_i /\ r_i \in 0 .. NumProducers /\ r_i < NumProducers
    BY <1>1, <1>4, RelaxedTypes DEF Relaxed!StagesInv
  <2>2. \A p \in Producers : r_new_node[p] = NULL
    BY <1>1, <1>4, RelaxedFacts DEF Relaxed!StagesInv
  <2> QED
    BY <2>1, <2>2, RelaxedFacts DEF Producers
<1> PICK p \in Producers : p = r_i
  BY <1>5
<1>6. Relaxed!TypeOK'
  BY <1>1, <1>3, <1>4, <1>5, RelaxedTypes, RelaxedTyped, RelaxedFacts
<1>7. Relaxed!StagesInv'
  BY <1>3, <1>4, <1>5, RelaxedFacts DEF Relaxed!StagesInv, Relaxed!Producers, Producers
<1>8. /\ ~Relaxed!Exists(p) /\ Relaxed!Exists(p)'
      /\ \A q \in Producers \ {p} : Relaxed!Exists(q)' <=> Relaxed!Exists(q)
  <2>1. \A q \in Producers : Relaxed!Exists(q) <=> q < p
    BY <1>4 DEF Relaxed!Exists
  <2>2. \A q \in Producers : q \in Nat /\ q < NumProducers
    BY RelaxedFacts DEF Producers
  <2>3. CASE r_i + 1 < NumProducers /\ r_i' = r_i + 1 /\ r_pc' = r_pc
    <3>1. \A q \in Producers : Relaxed!Exists(q)' <=> q < p + 1
      BY <1>4, <2>3 DEF Relaxed!Exists
    <3> QED
      BY <1>5, <2>1, <2>2, <3>1
  <2>4. CASE r_i + 1 = NumProducers /\ r_i' = 0 /\ r_pc' = "idle"
    <3>1. \A q \in Producers : Relaxed!Exists(q)'
      BY <2>4 DEF Relaxed!Exists
    <3>2. \A q \in Producers \ {p} : q < p
      BY <1>5, <2>2, <2>4, RelaxedFacts
    <3> QED
      BY <1>5, <2>1, <2>2, <3>1, <3>2
  <2> QED
    BY <1>4, <2>3, <2>4
<1>9. Relaxed!RoundsInv'
  BY <1>1, <1>3, <1>4, <1>8, RoundsKept
<1>10. PICK f \in [Producers -> Seq(Nodes)] : Relaxed!FifosInv(f)
  BY <1>1
<1>11. f[p] = <<>> /\ queued[p] = <<>>
  <2>1. Relaxed!IsFifo(p, f[p]) /\ f[p] = <<>>
    BY <1>5, <1>8, <1>10, FifosFacts
  <2>2. Len(queued[p]) = 0
    BY <1>1, <1>5, <2>1, FifoLength
  <2> QED
    BY <1>1, <1>5, <2>1, <2>2, RelaxedTypes
<1>12. /\ <<n>> \in Seq(Nodes) /\ Len(<<n>>) = 1 /\ <<n>>[1] = n
       /\ Relaxed!NodesOf(<<n>>) = {n} /\ Relaxed!NodesOf(f[p]) = {}
  BY <1>11 DEF Relaxed!NodesOf
<1>13. \A m \in heap : r_next[m] = NULL
  BY <1>10 DEF Relaxed!FifosInv, Relaxed!Partition
<1>14. Relaxed!IsFifo(p, <<n>>)'
  <2>1. r_head'[p] = n /\ r_tail'[p] = n
    BY <1>1, <1>3, <1>5, RelaxedTypes
  <2>2. queued'[p] = <<>> /\ r_new_node'[p] = NULL /\ r_next'[n] = NULL
    BY <1>3, <1>5, <1>11, <1>13
  <2>3. Len(queued'[p]) = 0
    BY <2>2
  <2> QED
    BY <1>12, <2>1, <2>2, <2>3 DEF Relaxed!IsFifo
<1>15. \A q \in Producers \ {p} : SameFifo(q)
  BY <1>1, <1>3, RelaxedTypes DEF SameFifo
<1>16. \E g \in [Producers -> Seq(Nodes)] : Relaxed!FifosInv(g)'
  <2>1. <<n>> # <<>> /\ n \in Nodes
    BY <1>12
  <2>2. heap' = (heap \cup Relaxed!NodesOf(f[p])) \ Relaxed!NodesOf(<<n>>)
    BY <1>3, <1>12
  <2>3. \A m \in heap' : r_next'[m] = NULL
    BY <1>3, <1>13
  <2>4. Relaxed!NodesOf(<<n>>) \subseteq heap \cup Relaxed!NodesOf(f[p])
    BY <1>3, <1>12
  <2>5. \A m \in Nodes \ (heap \cup Relaxed!NodesOf(f[p])) :
           r_next'[m] = r_next[m] /\ r_data'[m] = r_data[m]
    BY <1>3
  <2>6. <<n>> # <<>> <=> Relaxed!Exists(p)'
    BY <1>8, <2>1
  <2>7. <<n>> \in Seq(Nodes)
    BY <1>12
  <2> QED
    BY <1>1, <1>8, <1>10, <1>14, <1>15, <2>2, <2>3, <2>4, <2>5, <2>6, <2>7, OneFifo
<1> QED
  BY <1>6, <1>7, <1>9, <1>16, RelaxedParts

LEMMA DestroyFifoInv ==
    ASSUME RelaxedAssumed, Relaxed!IInv, Relaxed!DestroyFifo
    PROVE  Relaxed!IInv'
<1>1. /\ Relaxed!TypeOK /\ Relaxed!StagesInv /\ Relaxed!RoundsInv
      /\ \E f \in [Producers -> Seq(Nodes)] : Relaxed!FifosInv(f)
  BY RelaxedParts
<1>2. /\ r_pc = "destroy" /\ r_i <= made /\ r_i \in Nat /\ made \in 0 .. NumProducers
      /\ \A p \in Producers : r_new_node[p] = NULL
  BY <1>1, RelaxedFacts, RelaxedTypes DEF Relaxed!DestroyFifo, Relaxed!StagesInv
<1>3. CASE r_i < made
  <2>1. /\ Relaxed!SpscDestroy(r_i)
        /\ r_i' = r_i + 1 /\ passed' = [passed EXCEPT ![r_i] = 0]
        /\ UNCHANGED <<r_pc, made, counter, present>>
    BY <1>2, <1>3 DEF Relaxed!DestroyFifo
  <2>2. PICK f \in [Producers -> Seq(Nodes)] : Relaxed!FifosInv(f)
    BY <1>1
  <2>3. PICK p \in Producers : p = r_i
    BY <1>2, <1>3, RelaxedFacts DEF Producers
  <2>4. /\ Relaxed!Exists(p) /\ ~Relaxed!Exists(p)'
        /\ \A q \in Producers \ {p} : Relaxed!Exists(q)' <=> Relaxed!Exists(q)
    <3>1. \A q \in Producers : /\ Relaxed!Exists(q) <=> (p <= q /\ q < made)
                               /\ Relaxed!Exists(q)' <=> (p + 1 <= q /\ q < made)
      BY <1>2, <2>1, <2>3 DEF Relaxed!Exists
    <3>2. \A q \in Producers : q \in Nat
      BY RelaxedFacts DEF Producers
    <3>3. Relaxed!Exists(p) /\ ~Relaxed!Exists(p)'
      <4>1. p \in Nat /\ p < made /\ p <= p /\ ~(p + 1 <= p)
        BY <1>3, <2>3, <3>2
      <4> QED
        BY <3>1, <4>1
    <3>4. \A q \in Producers \ {p} : Relaxed!Exists(q)' <=> Relaxed!Exists(q)
      <4>1. p \in Nat /\ \A q \in Producers \ {p} : p + 1 <= q <=> p <= q
        BY <3>2
      <4> QED
        BY <3>1, <4>1
    <3> QED
      BY <3>3, <3>4
  <2>5. Relaxed!IsFifo(p, f[p]) /\ f[p] # <<>> /\ f[p] \in Seq(Nodes)
    BY <2>2, <2>3, <2>4, FifosFacts
  <2>6. Len(f[p]) = Len(queued[p]) + 1
    BY <1>1, <1>2, <2>3, <2>5, NodesOfSeq, RelaxedFacts, FifoLength DEF Relaxed!IsFifo
  <2>7. Relaxed!ChainFrom(r_head[p]) = Relaxed!NodesOf(f[p])
    <3>1. Relaxed!ChainFrom(r_head[p]) = {f[p][j] : j \in 1 .. Len(queued[p]) + 1}
      BY <1>1, <2>3, <2>5, ChainFromHead
    <3> QED
      BY <2>6, <3>1 DEF Relaxed!NodesOf
  <2>8. /\ heap' = heap \cup Relaxed!NodesOf(f[p])
        /\ r_next' = [n \in Nodes |-> IF n \in Relaxed!NodesOf(f[p]) THEN NULL ELSE r_next[n]]
        /\ r_data' = [n \in Nodes |-> IF n \in Relaxed!NodesOf(f[p]) THEN NULL ELSE r_data[n]]
        /\ r_head' = [r_head EXCEPT ![p] = NULL] /\ r_tail' = [r_tail EXCEPT ![p] = NULL]
        /\ queued' = [queued EXCEPT ![p] = <<>>]
        /\ UNCHANGED <<r_new_node, r_prev_tail, out>>
    BY <2>1, <2>3, <2>7 DEF Relaxed!SpscDestroy, Relaxed!Free
  <2>9. Relaxed!NodesOf(f[p]) \subseteq Nodes
    BY <2>5, NodesOfSeq
  <2>10. Relaxed!TypeOK'
    <3>1. <<>> \in Seq(Items)
      OBVIOUS
    <3>2. /\ r_next' \in [Nodes -> Nodes \cup {NULL}] /\ r_data' \in [Nodes -> Items \cup {NULL}]
          /\ heap' \subseteq Nodes
      BY <1>1, <2>8, <2>9, RelaxedTypes
    <3>3. /\ r_head' \in [Producers -> Nodes \cup {NULL}]
          /\ r_tail' \in [Producers -> Nodes \cup {NULL}]
      BY <1>1, <2>8, RelaxedTypes
    <3>5. queued' \in [Producers -> Seq(Items)]
      BY <1>1, <2>8, <3>1, RelaxedTypes
    <3>6. passed' \in [Producers -> 0 .. 2 * NumProducers]
      BY <1>1, <2>1, <2>3, RelaxedTypes, RelaxedFacts
    <3>4. r_i' \in 0 .. NumProducers
      BY <1>2, <1>3, <2>1, RelaxedFacts
    <3> QED
      BY <1>1, <2>1, <2>8, <3>2, <3>3, <3>4, <3>5, <3>6, RelaxedTypes, RelaxedTyped
  <2>11. Relaxed!StagesInv'
    BY <1>2, <1>3, <2>1, <2>8 DEF Relaxed!StagesInv, Relaxed!Producers, Producers
  <2>12. Relaxed!RoundsInv'
    <3>1. \A q \in Producers : Relaxed!Since(q)' = Relaxed!Since(q)
      BY <2>1 DEF Relaxed!Since
    <3>2. \A q \in Producers : Relaxed!Since(q) \in Nat
      BY <1>1, RelaxedTypes, SinceFacts
    <3>3. \A q \in Producers \ {p} : passed'[q] = passed[q] /\ queued'[q] = queued[q]
      BY <1>1, <2>1, <2>3, <2>8, RelaxedTypes
    <3>4. passed'[p] = 0
      BY <1>1, <2>1, <2>3, RelaxedTypes
    <3>5. ASSUME NEW q \in Producers
          PROVE  /\ passed'[q] <= Relaxed!Since(q)'
                 /\ passed'[q] # 0 => Relaxed!Exists(q)' /\ queued'[q] # <<>>
      <4>1. CASE q = p
        BY <3>1, <3>2, <3>4, <4>1
      <4>2. CASE q # p
        BY <1>1, <2>4, <3>1, <3>3, <4>2, RelaxedFacts DEF Relaxed!RoundsInv
      <4> QED
        BY <4>1, <4>2
    <3>6. r_pc' # "trypop"
      BY <1>2, <2>1
    <3> QED
      BY <3>5, <3>6, RelaxedFacts DEF Relaxed!RoundsInv, Relaxed!Producers
  <2>13. Relaxed!IsFifo(p, <<>>)'
    <3>1. /\ r_head'[p] = NULL /\ r_tail'[p] = NULL /\ queued'[p] = <<>>
          /\ r_new_node'[p] = NULL
      BY <1>1, <1>2, <2>3, <2>8, RelaxedTypes
    <3>2. Len(queued'[p]) = 0
      BY <3>1
    <3> QED
      BY <3>1, <3>2 DEF Relaxed!IsFifo
  <2>14. \A q \in Producers \ {p} : SameFifo(q)
    BY <1>1, <2>8, RelaxedTypes DEF SameFifo
  <2>15. /\ <<>> \in Seq(Nodes) /\ Relaxed!NodesOf(<<>>) = {}
         /\ \A n \in heap' : r_next'[n] = NULL
         /\ \A n \in Nodes \ (heap \cup Relaxed!NodesOf(f[p])) :
               r_next'[n] = r_next[n] /\ r_data'[n] = r_data[n]
    <3>1. \A n \in heap : r_next[n] = NULL /\ n \in Nodes
      BY <1>1, <2>2, RelaxedTypes DEF Relaxed!FifosInv, Relaxed!Partition
    <3>2. <<>> \in Seq(Nodes) /\ Relaxed!NodesOf(<<>>) = {}
      BY DEF Relaxed!NodesOf
    <3> QED
      BY <2>8, <2>9, <3>1, <3>2
  <2>16. \E g \in [Producers -> Seq(Nodes)] : Relaxed!FifosInv(g)'
    BY <1>1, <2>2, <2>3, <2>4, <2>8, <2>13, <2>14, <2>15, OneFifo
  <2> QED
    BY <2>10, <2>11, <2>12, <2>16, RelaxedParts
<1>4. CASE r_i = made
  <2>1. /\ UNCHANGED <<r_head, r_tail, r_next, r_data, heap, r_new_node, r_prev_tail, out,
                       queued, present, passed>>
        /\ r_pc' = "none" /\ r_i' = 0 /\ made' = 0 /\ counter' = 0
    BY <1>2, <1>4 DEF Relaxed!DestroyFifo, Relaxed!spscVars
  <2>2. Relaxed!TypeOK'
    BY <1>1, <2>1, RelaxedTypes, RelaxedTyped, RelaxedFacts
  <2>3. Relaxed!StagesInv'
    BY <1>2, <2>1, RelaxedFacts DEF Relaxed!StagesInv, Relaxed!Producers
  <2>4. \A p \in Producers : ~Relaxed!Exists(p) /\ ~Relaxed!Exists(p)'
    BY <1>2, <1>4, <2>1, RelaxedFacts DEF Relaxed!Exists, Producers
  <2>5. Relaxed!RoundsInv'
    BY <1>1, <2>1, <2>4, RoundsReset
  <2>6. \E f \in [Producers -> Seq(Nodes)] : Relaxed!FifosInv(f)'
    BY <1>1, <2>1, <2>4, NoFifo
  <2> QED
    BY <2>2, <2>3, <2>5, <2>6, RelaxedParts
<1> QED
  BY <1>2, <1>3, <1>4

\* The new node goes behind the last, not linked yet.
LEMMA RelaxedPushInv ==
    ASSUME RelaxedAssumed, Relaxed!IInv, NEW p \in Producers, NEW n \in Nodes, NEW v \in Items,
           Relaxed!Push(p, n, v)
    PROVE  Relaxed!IInv'
<1>1. /\ Relaxed!TypeOK /\ Relaxed!StagesInv /\ Relaxed!RoundsInv
      /\ \E f \in [Producers -> Seq(Nodes)] : Relaxed!FifosInv(f)
  BY RelaxedParts
<1>2. /\ r_pc \in {"idle", "trypop"} /\ r_new_node[p] = NULL
      /\ n \in heap /\ heap' = heap \ {n}
      /\ r_data' = [r_data EXCEPT ![n] = v] /\ r_next' = [r_next EXCEPT ![n] = NULL]
      /\ r_prev_tail' = [r_prev_tail EXCEPT ![p] = r_tail[p]]
      /\ r_tail' = [r_tail EXCEPT ![p] = n]
      /\ r_new_node' = [r_new_node EXCEPT ![p] = n]
      /\ UNCHANGED <<r_head, out, queued, r_pc, r_i, made, counter, present, passed>>
  BY DEF Relaxed!Push, Relaxed!SpscPush, Relaxed!Calloc
<1>3. Relaxed!TypeOK'
  <2>1. r_tail[p] \in Nodes \cup {NULL}
    BY <1>1, RelaxedTypes
  <2>2. /\ r_next' \in [Nodes -> Nodes \cup {NULL}] /\ r_data' \in [Nodes -> Items \cup {NULL}]
        /\ heap' \subseteq Nodes
    BY <1>1, <1>2, RelaxedTypes
  <2>3. /\ r_tail' \in [Producers -> Nodes \cup {NULL}]
        /\ r_new_node' \in [Producers -> Nodes \cup {NULL}]
        /\ r_prev_tail' \in [Producers -> Nodes \cup {NULL}]
    BY <1>1, <1>2, <2>1, RelaxedTypes
  <2> QED
    BY <1>1, <1>2, <2>2, <2>3, RelaxedTypes, RelaxedTyped
<1>4. Relaxed!StagesInv'
  BY <1>1, <1>2 DEF Relaxed!StagesInv
<1>5. \A q \in Producers : Relaxed!Exists(q) /\ Relaxed!Exists(q)'
  BY <1>2 DEF Relaxed!Exists
<1>6. Relaxed!RoundsInv'
  BY <1>1, <1>2, <1>5, RoundsKept
<1>7. PICK f \in [Producers -> Seq(Nodes)] : Relaxed!FifosInv(f)
  BY <1>1
<1> DEFINE s == f[p]
           t == Append(s, n)
<1>8. Relaxed!IsFifo(p, s) /\ s # <<>> /\ s \in Seq(Nodes)
  BY <1>5, <1>7, FifosFacts
<1>9. Len(s) = Len(queued[p]) + 1 /\ Len(queued[p]) \in Nat
  BY <1>1, <1>2, <1>8, NodesOfSeq, RelaxedFacts, FifoLength DEF Relaxed!IsFifo
<1>10. /\ t \in Seq(Nodes) /\ Len(t) = Len(s) + 1 /\ t[Len(s) + 1] = n /\ t # <<>>
       /\ \A j \in 1 .. Len(s) : t[j] = s[j]
  BY <1>8
<1>11. /\ n \notin Relaxed!NodesOf(s)
       /\ \A m \in heap : m \in Nodes /\ r_next[m] = NULL
  BY <1>1, <1>2, <1>7, RelaxedTypes, RelaxedFacts DEF Relaxed!FifosInv, Relaxed!Partition
<1>12. \A j \in 1 .. Len(s) : s[j] # n /\ s[j] \in Nodes
  BY <1>8, <1>11, NodesOfSeq
<1>13. Relaxed!NodesOf(t) = Relaxed!NodesOf(s) \cup {n}
  <2>1. \A j \in 1 .. Len(t) : j \in 1 .. Len(s) \/ j = Len(s) + 1
    BY <1>9, <1>10
  <2>2. \A j \in 1 .. Len(s) : j \in 1 .. Len(t)
    BY <1>9, <1>10
  <2>3. Len(s) + 1 \in 1 .. Len(t)
    BY <1>9, <1>10
  <2> HIDE DEF s, t
  <2> QED
    BY <1>10, <2>1, <2>2, <2>3 DEF Relaxed!NodesOf
<1> HIDE DEF s, t
<1>14. Relaxed!IsFifo(p, t)'
  <2>1. /\ r_head' = r_head /\ queued' = queued
        /\ r_tail'[p] = n /\ r_new_node'[p] = n /\ r_prev_tail'[p] = r_tail[p]
        /\ r_next'[n] = NULL /\ r_data'[n] = v
        /\ \A m \in Nodes : m # n => r_next'[m] = r_next[m] /\ r_data'[m] = r_data[m]
    BY <1>1, <1>2, RelaxedTypes
  <2>2. /\ r_head[p] = s[1] /\ r_tail[p] = s[Len(s)]
        /\ \A j, k \in 1 .. Len(s) : s[j] = s[k] => j = k
        /\ \A j \in 1 .. Len(s) : r_next[s[j]] = IF j <= Len(queued[p]) THEN s[j + 1] ELSE NULL
        /\ \A j \in 1 .. Len(queued[p]) : r_data[s[j + 1]] = queued[p][j]
    BY <1>8 DEF Relaxed!IsFifo
  <2>3. r_head'[p] = t[1] /\ r_tail'[p] = t[Len(t)]
    BY <1>9, <1>10, <2>1, <2>2
  <2>4. \A j, k \in 1 .. Len(t) : t[j] = t[k] => j = k
    BY <1>9, <1>10, <1>12, <2>2
  <2>5. ASSUME NEW j \in 1 .. Len(t)
        PROVE  r_next'[t[j]] = IF j <= Len(queued[p]) THEN t[j + 1] ELSE NULL
    <3>1. CASE j = Len(s) + 1
      BY <1>9, <1>10, <2>1, <3>1
    <3>2. CASE j \in 1 .. Len(s)
      <4>1. j <= Len(queued[p]) => j + 1 \in 1 .. Len(s)
        BY <1>9, <3>2
      <4> QED
        BY <1>10, <1>12, <2>1, <2>2, <3>2, <4>1
    <3> QED
      BY <1>9, <1>10, <3>1, <3>2
  <2>6. ASSUME NEW j \in 1 .. Len(queued[p]) PROVE r_data'[t[j + 1]] = queued[p][j]
    <3>1. j + 1 \in 1 .. Len(s)
      BY <1>9
    <3> QED
      BY <1>10, <1>12, <2>1, <2>2, <3>1
  <2>7. /\ Len(t) = Len(queued[p]) + 2 /\ Len(t) - 1 = Len(s) /\ Len(s) \in 1 .. Len(s)
    BY <1>9, <1>10
  <2>8. /\ r_new_node'[p] = t[Len(t)] /\ r_prev_tail'[p] = t[Len(t) - 1]
        /\ r_data'[r_new_node'[p]] \in Items
    BY <1>10, <2>1, <2>2, <2>3, <2>7
  <2> QED
    BY <1>10, <2>1, <2>3, <2>4, <2>5, <2>6, <2>7, <2>8 DEF Relaxed!IsFifo
<1>15. \A q \in Producers \ {p} : SameFifo(q)
  BY <1>1, <1>2, RelaxedTypes DEF SameFifo
<1>16. \E g \in [Producers -> Seq(Nodes)] : Relaxed!FifosInv(g)'
  <2>1. heap' = (heap \cup Relaxed!NodesOf(f[p])) \ Relaxed!NodesOf(t)
    <3>1. heap \cap Relaxed!NodesOf(s) = {}
      BY <1>1, <1>7, RelaxedTypes, RelaxedFacts DEF Relaxed!FifosInv, Relaxed!Partition, s
    <3> QED
      BY <1>2, <1>13, <3>1 DEF s
  <2>2. \A m \in heap' : r_next'[m] = NULL
    BY <1>1, <1>2, <1>11, RelaxedTypes
  <2>3. Relaxed!NodesOf(t) \subseteq heap \cup Relaxed!NodesOf(f[p])
    BY <1>2, <1>13 DEF s
  <2>4. \A m \in Nodes \ (heap \cup Relaxed!NodesOf(f[p])) :
           r_next'[m] = r_next[m] /\ r_data'[m] = r_data[m]
    BY <1>1, <1>2, RelaxedTypes
  <2>5. t # <<>> <=> Relaxed!Exists(p)'
    BY <1>5, <1>10
  <2>6. t \in Seq(Nodes)
    BY <1>10
  <2> QED
    BY <1>1, <1>5, <1>7, <1>14, <1>15, <2>1, <2>2, <2>3, <2>4, <2>5, <2>6, OneFifo
<1> QED
  BY <1>3, <1>4, <1>6, <1>16, RelaxedParts

\* The last link of the fifo is made.
LEMMA RelaxedPushLinkInv ==
    ASSUME RelaxedAssumed, Relaxed!IInv, NEW p \in Producers, Relaxed!PushLink(p)
    PROVE  Relaxed!IInv'
<1>1. /\ Relaxed!TypeOK /\ Relaxed!StagesInv /\ Relaxed!RoundsInv
      /\ \E f \in [Producers -> Seq(Nodes)] : Relaxed!FifosInv(f)
  BY RelaxedParts
<1>2. /\ r_new_node[p] # NULL
      /\ r_next' = [r_next EXCEPT ![r_prev_tail[p]] = r_new_node[p]]
      /\ r_new_node' = [r_new_node EXCEPT ![p] = NULL]
      /\ r_prev_tail' = [r_prev_tail EXCEPT ![p] = NULL]
      /\ queued' = [queued EXCEPT ![p] = Append(queued[p], r_data[r_new_node[p]])]
      /\ UNCHANGED <<r_head, r_tail, r_data, heap, out, r_pc, r_i, made, counter, present, passed>>
  BY DEF Relaxed!PushLink, Relaxed!SpscPushLink
<1>3. PICK f \in [Producers -> Seq(Nodes)] : Relaxed!FifosInv(f)
  BY <1>1
<1> DEFINE s == f[p]
           item_p == r_data[r_new_node[p]]
           K == Len(queued[p])
<1>4. Relaxed!IsFifo(p, s) /\ (s # <<>> <=> Relaxed!Exists(p)) /\ s \in Seq(Nodes)
  BY <1>3, FifosFacts
<1>5. /\ Len(s) = K + 2 /\ K \in Nat
      /\ r_new_node[p] = s[Len(s)] /\ r_prev_tail[p] = s[Len(s) - 1]
      /\ item_p \in Items
  <2>1. Len(s) = K + 2 /\ r_new_node[p] = s[Len(s)] /\ r_prev_tail[p] = s[Len(s) - 1]
        /\ item_p \in Items
    BY <1>2, <1>4 DEF Relaxed!IsFifo
  <2>2. K \in Nat
    BY <1>1, RelaxedTypes
  <2> QED
    BY <2>1, <2>2
<1> HIDE DEF item_p
<1>6. queued[p] \in Seq(Items)
  BY <1>1, RelaxedTypes
<1>7. /\ queued'[p] \in Seq(Items) /\ Len(queued'[p]) = K + 1
      /\ queued'[p][K + 1] = item_p /\ queued'[p] # <<>>
      /\ \A j \in 1 .. K : queued'[p][j] = queued[p][j]
  <2>1. queued'[p] = Append(queued[p], item_p)
    BY <1>1, <1>2, RelaxedTypes DEF item_p
  <2>2. item_p \in Items
    BY <1>5
  <2>3. queued'[p] \in Seq(Items) /\ Len(queued'[p]) = K + 1
    BY <1>6, <2>1, <2>2
  <2>4. queued'[p][K + 1] = item_p /\ \A j \in 1 .. K : queued'[p][j] = queued[p][j]
    BY <1>6, <2>1, <2>2, AppendProperties
  <2>5. queued'[p] # <<>>
    BY <1>5, <2>3
  <2> QED
    BY <2>3, <2>4, <2>5
<1> HIDE DEF s, K
<1>8. r_prev_tail[p] = s[K + 1] /\ s[K + 1] \in Nodes /\ r_new_node[p] = s[K + 2] /\ s[K + 2] \in Nodes
  <2>1. Len(s) - 1 = K + 1 /\ K + 1 \in 1 .. Len(s) /\ K + 2 \in 1 .. Len(s)
    BY <1>5
  <2> QED
    BY <1>4, <1>5, <2>1, NodesOfSeq
<1>9. Relaxed!TypeOK'
  <2>1. r_next' \in [Nodes -> Nodes \cup {NULL}]
    BY <1>1, <1>2, <1>8, RelaxedTypes
  <2>2. /\ r_new_node' \in [Producers -> Nodes \cup {NULL}]
        /\ r_prev_tail' \in [Producers -> Nodes \cup {NULL}]
    BY <1>1, <1>2, RelaxedTypes
  <2>3. queued' \in [Producers -> Seq(Items)]
    <3>1. Append(queued[p], r_data[r_new_node[p]]) \in Seq(Items)
      BY <1>5, <1>6 DEF item_p
    <3> QED
      BY <1>1, <1>2, <3>1, RelaxedTypes
  <2> QED
    BY <1>1, <1>2, <2>1, <2>2, <2>3, RelaxedTypes, RelaxedTyped
<1>10. r_pc \in {"idle", "trypop"}
  BY <1>1, <1>2, RelaxedFacts DEF Relaxed!StagesInv
<1>11. Relaxed!StagesInv'
  BY <1>1, <1>2, <1>10 DEF Relaxed!StagesInv
<1>12. \A q \in Producers : Relaxed!Exists(q) /\ Relaxed!Exists(q)'
  BY <1>2, <1>10 DEF Relaxed!Exists
<1>13. \A q \in Producers \ {p} : SameFifo(q)
  BY <1>1, <1>2, RelaxedTypes DEF SameFifo
<1>14. Relaxed!RoundsInv'
  <2>1. \A q \in Producers : queued[q] # <<>> => queued'[q] # <<>>
    BY <1>7, <1>13 DEF SameFifo
  <2> QED
    BY <1>1, <1>2, <1>12, <2>1, RoundsKept
<1>15. Relaxed!IsFifo(p, s)'
  <2>1. /\ r_head' = r_head /\ r_tail' = r_tail /\ r_data' = r_data /\ r_new_node'[p] = NULL
        /\ r_next'[s[K + 1]] = s[K + 2]
        /\ \A m \in Nodes : m # s[K + 1] => r_next'[m] = r_next[m]
    BY <1>1, <1>2, <1>8, RelaxedTypes
  <2>2. /\ s # <<>>
        /\ r_head[p] = s[1] /\ r_tail[p] = s[Len(s)]
        /\ \A j, k \in 1 .. Len(s) : s[j] = s[k] => j = k
        /\ \A j \in 1 .. Len(s) : r_next[s[j]] = IF j <= K THEN s[j + 1] ELSE NULL
        /\ \A j \in 1 .. K : r_data[s[j + 1]] = queued[p][j]
    BY <1>4, <1>12 DEF Relaxed!IsFifo, K
  <2>3. ASSUME NEW j \in 1 .. Len(s)
        PROVE  r_next'[s[j]] = IF j <= K + 1 THEN s[j + 1] ELSE NULL
    <3>1. CASE j = K + 1
      BY <1>5, <2>1, <3>1
    <3>2. CASE j # K + 1
      <4>1. s[j] # s[K + 1] /\ s[j] \in Nodes
        BY <1>4, <1>5, <2>2, <3>2, NodesOfSeq
      <4>2. j <= K + 1 <=> j <= K
        BY <1>5, <3>2
      <4> QED
        BY <2>1, <2>2, <4>1, <4>2
    <3> QED
      BY <3>1, <3>2
  <2>4. ASSUME NEW j \in 1 .. K + 1 PROVE r_data'[s[j + 1]] = queued'[p][j]
    <3>1. CASE j = K + 1
      BY <1>5, <1>7, <1>8, <2>1, <3>1 DEF item_p
    <3>2. CASE j \in 1 .. K
      BY <1>7, <2>1, <2>2, <3>2
    <3> QED
      BY <1>5, <3>1, <3>2
  <2>5. Len(s) = Len(queued'[p]) + 1
    BY <1>5, <1>7
  <2> QED
    BY <1>7, <2>1, <2>2, <2>3, <2>4, <2>5 DEF Relaxed!IsFifo
<1>16. \E g \in [Producers -> Seq(Nodes)] : Relaxed!FifosInv(g)'
  <2>1. /\ heap \cap Relaxed!NodesOf(s) = {} /\ Relaxed!NodesOf(s) \subseteq Nodes
        /\ \A m \in heap : m \in Nodes /\ r_next[m] = NULL
    BY <1>1, <1>3, <1>4, RelaxedTypes, RelaxedFacts, NodesOfSeq
    DEF Relaxed!FifosInv, Relaxed!Partition, s
  <2>2. s[K + 1] \in Relaxed!NodesOf(s)
    BY <1>5 DEF Relaxed!NodesOf
  <2>3. \A m \in Nodes : m \notin Relaxed!NodesOf(s) => r_next'[m] = r_next[m] /\ r_data'[m] = r_data[m]
    BY <1>1, <1>2, <1>8, <2>2, RelaxedTypes
  <2>4. \A m \in heap' : r_next'[m] = NULL
    BY <1>2, <2>1, <2>3
  <2>5. heap' = (heap \cup Relaxed!NodesOf(f[p])) \ Relaxed!NodesOf(s)
    BY <1>2, <2>1 DEF s
  <2>6. Relaxed!NodesOf(s) \subseteq heap \cup Relaxed!NodesOf(f[p])
    BY DEF s
  <2>7. \A m \in Nodes \ (heap \cup Relaxed!NodesOf(f[p])) :
           r_next'[m] = r_next[m] /\ r_data'[m] = r_data[m]
    BY <2>3 DEF s
  <2>8. s # <<>> <=> Relaxed!Exists(p)'
    BY <1>4, <1>12
  <2>9. s \in Seq(Nodes)
    BY <1>4
  <2> QED
    BY <1>1, <1>3, <1>12, <1>13, <1>15, <2>4, <2>5, <2>6, <2>7, <2>8, <2>9, OneFifo
<1> QED
  BY <1>9, <1>11, <1>14, <1>16, RelaxedParts

\* A nonempty sequence without its first element.
LEMMA TailFacts ==
    ASSUME NEW S, NEW q \in Seq(S), q # <<>>
    PROVE  /\ Tail(q) \in Seq(S) /\ Len(Tail(q)) = Len(q) - 1
           /\ \A j \in 1 .. Len(q) - 1 : Tail(q)[j] = q[j + 1]
           /\ Tail(q) # <<>> <=> Len(q) > 1
           /\ Len(q) \in Nat \ {0} /\ Head(q) = q[1] /\ q[1] \in S
<1>1. Len(q) \in Nat \ {0}
  OBVIOUS
<1>2. /\ Tail(q) \in Seq(S) /\ Len(Tail(q)) = Len(q) - 1
      /\ \A j \in 1 .. Len(q) - 1 : Tail(q)[j] = q[j + 1]
      /\ Head(q) \in S
  BY HeadTailProperties
<1>3. Tail(q) # <<>> <=> Len(q) > 1
  <2> DEFINE r == Tail(q)
  <2>1. r \in Seq(S) /\ Len(r) = Len(q) - 1
    BY <1>2
  <2> HIDE DEF r
  <2>2. r # <<>> <=> Len(r) # 0
    BY <2>1, EmptySeq
  <2>3. r # <<>> <=> Len(q) > 1
    BY <1>1, <2>1, <2>2
  <2> QED
    BY <2>3 DEF r
<1>4. Head(q) = q[1]
  OBVIOUS
<1> QED
  BY <1>1, <1>2, <1>3, <1>4

\* The head goes back to the heap, and the next node is the head.
LEMMA TrypopFoundInv ==
    ASSUME RelaxedAssumed, Relaxed!IInv, Relaxed!TrypopFound
    PROVE  Relaxed!IInv'
<1>1. /\ Relaxed!TypeOK /\ Relaxed!StagesInv /\ Relaxed!RoundsInv
      /\ \E f \in [Producers -> Seq(Nodes)] : Relaxed!FifosInv(f)
  BY RelaxedParts
<1>2. PICK p \in Producers : p = Relaxed!Index
  BY <1>1, RelaxedTypes, SinceFacts
<1>3. /\ r_pc = "trypop" /\ Relaxed!Linked(p) /\ Relaxed!CountVisit
      /\ r_head' = [r_head EXCEPT ![p] = r_next[r_head[p]]]
      /\ out' = r_data[r_next[r_head[p]]]
      /\ heap' = heap \cup {r_head[p]}
      /\ r_next' = [n \in Nodes |-> IF n \in {r_head[p]} THEN NULL ELSE r_next[n]]
      /\ r_data' = [n \in Nodes |-> IF n \in {r_head[p]} THEN NULL ELSE r_data[n]]
      /\ queued' = [queued EXCEPT ![p] = Tail(queued[p])]
      /\ r_pc' = "idle" /\ r_i' = 0 /\ present' = {}
      /\ passed' = [q \in Producers |->
                      IF q = p THEN 0
                      ELSE IF Relaxed!Linked(q) /\ passed[q] < 2 * NumProducers THEN passed[q] + 1
                      ELSE passed[q]]
      /\ UNCHANGED <<r_tail, r_new_node, r_prev_tail, made>>
  BY <1>2, RelaxedFacts DEF Relaxed!TrypopFound, Relaxed!SpscTrypop, Relaxed!Free
<1>4. PICK f \in [Producers -> Seq(Nodes)] : Relaxed!FifosInv(f)
  BY <1>1
<1>5. \A q \in Producers : Relaxed!Exists(q) /\ Relaxed!Exists(q)'
  BY <1>3 DEF Relaxed!Exists
<1> DEFINE s == f[p]
           t == Tail(s)
           K == Len(queued[p])
<1>6. Relaxed!IsFifo(p, s) /\ s # <<>> /\ s \in Seq(Nodes)
  BY <1>4, <1>5, FifosFacts
<1>7. /\ K \in Nat \ {0} /\ queued[p] \in Seq(Items) /\ queued[p] # <<>>
      /\ r_head[p] = s[1] /\ r_next[r_head[p]] = s[2] /\ r_data[s[2]] = queued[p][1]
      /\ Len(s) \in Nat /\ Len(s) > K
  BY <1>1, <1>3, <1>6, LinkedIsQueued, FifoLength, RelaxedTypes
<1>8. /\ queued'[p] = Tail(queued[p]) /\ Tail(queued[p]) \in Seq(Items)
      /\ Len(queued'[p]) = K - 1
      /\ \A j \in 1 .. K - 1 : queued'[p][j] = queued[p][j + 1]
  <2>1. queued'[p] = Tail(queued[p])
    BY <1>1, <1>3, RelaxedTypes
  <2> QED
    BY <1>7, <2>1, TailFacts
<1>9. /\ t \in Seq(Nodes) /\ Len(t) = Len(s) - 1 /\ t # <<>>
      /\ \A j \in 1 .. Len(s) - 1 : t[j] = s[j + 1]
  BY <1>6, <1>7, TailFacts
<1>10. /\ s[1] \in Nodes /\ s[2] \in Nodes
       /\ \A j \in 1 .. Len(s) : s[j] \in Nodes /\ (s[j] = s[1] => j = 1)
       /\ r_data[s[2]] \in Items
  <2>1. 1 \in 1 .. Len(s) /\ 2 \in 1 .. Len(s)
    BY <1>7
  <2>2. queued[p][1] \in Items
    BY <1>7, TailFacts
  <2> QED
    BY <1>6, <1>7, <2>1, <2>2, NodesOfSeq DEF Relaxed!IsFifo
<1> HIDE DEF s, t, K
<1>11. counter' \in 0 .. CounterModulus - 1
  BY <1>1, <1>3, RelaxedTypes, NextCounter
<1>12. Relaxed!TypeOK'
  <2>1. /\ r_next' \in [Nodes -> Nodes \cup {NULL}] /\ r_data' \in [Nodes -> Items \cup {NULL}]
        /\ heap' \subseteq Nodes /\ out' \in Items \cup {NULL}
    BY <1>1, <1>3, <1>7, <1>10, RelaxedTypes
  <2>2. r_head' \in [Producers -> Nodes \cup {NULL}]
    BY <1>1, <1>3, <1>7, <1>10, RelaxedTypes
  <2>3. queued' \in [Producers -> Seq(Items)]
    BY <1>1, <1>3, <1>8, RelaxedTypes
  <2>4. passed' \in [Producers -> 0 .. 2 * NumProducers]
    <3>1. \A q \in Producers : passed[q] \in 0 .. 2 * NumProducers
      BY <1>1, RelaxedTypes
    <3>2. \A q \in Producers :
             passed[q] < 2 * NumProducers => passed[q] + 1 \in 0 .. 2 * NumProducers
      BY <3>1, RelaxedFacts
    <3>3. 0 \in 0 .. 2 * NumProducers
      BY RelaxedFacts
    <3> QED
      BY <1>3, <3>1, <3>2, <3>3
  <2>5. r_i' \in 0 .. NumProducers
    BY <1>3, RelaxedFacts
  <2>6. /\ r_tail' \in [Producers -> Nodes \cup {NULL}]
        /\ r_new_node' \in [Producers -> Nodes \cup {NULL}]
        /\ r_prev_tail' \in [Producers -> Nodes \cup {NULL}]
        /\ made' \in 0 .. NumProducers
        /\ r_pc' \in {"none", "create", "idle", "trypop", "destroy"}
        /\ present' \subseteq Producers
    BY <1>1, <1>3, RelaxedTypes
  <2> QED
    BY <1>11, <2>1, <2>2, <2>3, <2>4, <2>5, <2>6, RelaxedTyped
<1>13. Relaxed!StagesInv'
  BY <1>1, <1>3 DEF Relaxed!StagesInv
<1>14. \A q \in Producers \ {p} : SameFifo(q)
  BY <1>1, <1>3, RelaxedTypes DEF SameFifo
<1>15. Relaxed!RoundsInv'
  <2>1. \A q \in Producers : /\ q # p => Relaxed!Since(q)' = Relaxed!Since(q) + 1
                             /\ Relaxed!Since(q)' \in Nat /\ Relaxed!Since(q) \in Nat
    BY <1>1, <1>2, <1>3, RelaxedTypes, SinceNext, SinceFacts, SinceLater
  <2>2. /\ \A q \in Producers : passed[q] <= Relaxed!Since(q) /\ passed[q] \in Nat
        /\ \A q \in Producers : passed[q] # 0 => queued[q] # <<>>
    BY <1>1, RelaxedFacts, RelaxedTypes DEF Relaxed!RoundsInv
  <2>3. \A q \in Producers : Relaxed!Linked(q) => queued[q] # <<>>
    BY <1>1, <1>4, <1>5, FifosFacts, LinkedIsQueued
  <2>4. ASSUME NEW q \in Producers
        PROVE  /\ passed'[q] <= Relaxed!Since(q)'
               /\ passed'[q] # 0 => Relaxed!Exists(q)' /\ queued'[q] # <<>>
    <3>1. CASE q = p
      <4>1. passed'[q] = 0 /\ Relaxed!Since(q)' \in Nat
        BY <1>3, <2>1, <3>1
      <4> QED
        BY <4>1
    <3>2. CASE q # p
      <4>1. passed'[q] = IF Relaxed!Linked(q) /\ passed[q] < 2 * NumProducers
                         THEN passed[q] + 1 ELSE passed[q]
        BY <1>3, <3>2
      <4>2. Relaxed!Since(q)' = Relaxed!Since(q) + 1 /\ Relaxed!Since(q) \in Nat
        BY <2>1, <3>2, RelaxedFacts
      <4>3. passed'[q] <= Relaxed!Since(q)'
        BY <2>2, <4>1, <4>2
      <4>4. passed'[q] # 0 => queued[q] # <<>>
        BY <2>2, <2>3, <4>1
      <4>5. queued'[q] = queued[q]
        BY <1>14, <3>2 DEF SameFifo
      <4> QED
        BY <1>5, <4>3, <4>4, <4>5
    <3> QED
      BY <3>1, <3>2
  <2>5. r_pc' # "trypop"
    BY <1>3
  <2> QED
    BY <2>4, <2>5, RelaxedFacts DEF Relaxed!RoundsInv, Relaxed!Producers
<1>16. Relaxed!IsFifo(p, t)'
  <2>1. /\ r_head'[p] = s[2] /\ r_tail' = r_tail /\ r_new_node' = r_new_node
        /\ r_prev_tail' = r_prev_tail
        /\ \A m \in Nodes : m # s[1] => r_next'[m] = r_next[m] /\ r_data'[m] = r_data[m]
    BY <1>1, <1>3, <1>7, RelaxedTypes
  <2>2. /\ r_tail[p] = s[Len(s)]
        /\ \A j, k \in 1 .. Len(s) : s[j] = s[k] => j = k
        /\ \A j \in 1 .. Len(s) : r_next[s[j]] = IF j <= K THEN s[j + 1] ELSE NULL
        /\ \A j \in 1 .. K : r_data[s[j + 1]] = queued[p][j]
        /\ \/ Len(s) = K + 1 /\ r_new_node[p] = NULL
           \/ /\ Len(s) = K + 2 /\ r_new_node[p] = s[Len(s)] /\ r_prev_tail[p] = s[Len(s) - 1]
              /\ r_data[r_new_node[p]] \in Items
    BY <1>6 DEF Relaxed!IsFifo, K
  <2>3. \A j \in 1 .. Len(t) : j + 1 \in 1 .. Len(s) /\ t[j] = s[j + 1] /\ j + 1 # 1
    BY <1>7, <1>9
  <2>4. Len(t) \in 1 .. Len(t) /\ Len(t) + 1 = Len(s) /\ 1 \in 1 .. Len(t) /\ 1 + 1 = 2
    BY <1>7, <1>9
  <2>5. t[1] = s[2] /\ t[Len(t)] = s[Len(s)]
    BY <2>3, <2>4
  <2>6. \A j, k \in 1 .. Len(t) : t[j] = t[k] => j = k
    <3>1. \A j, k \in 1 .. Len(t) : j + 1 = k + 1 => j = k
      OBVIOUS
    <3> QED
      BY <2>2, <2>3, <3>1
  <2>7. ASSUME NEW j \in 1 .. Len(t)
        PROVE  r_next'[t[j]] = IF j <= K - 1 THEN t[j + 1] ELSE NULL
    <3>1. r_next'[t[j]] = IF j + 1 <= K THEN s[j + 2] ELSE NULL
      <4>1. s[j + 1] # s[1] /\ s[j + 1] \in Nodes /\ (j + 1) + 1 = j + 2
        BY <1>10, <2>3
      <4> QED
        BY <2>1, <2>2, <2>3, <4>1
    <3>2. j + 1 <= K <=> j <= K - 1
      BY <1>7
    <3>3. j <= K - 1 => j + 1 \in 1 .. Len(t) /\ (j + 1) + 1 = j + 2
      BY <1>7, <1>9
    <3> QED
      BY <2>3, <3>1, <3>2, <3>3
  <2>8. ASSUME NEW j \in 1 .. K - 1 PROVE r_data'[t[j + 1]] = queued'[p][j]
    <3>1. j + 1 \in 1 .. Len(t) /\ j + 1 \in 1 .. K /\ (j + 1) + 1 \in 1 .. Len(s)
      BY <1>7, <1>9
    <3>2. s[(j + 1) + 1] # s[1] /\ s[(j + 1) + 1] \in Nodes
      BY <1>10, <2>3, <3>1
    <3>3. t[j + 1] = s[(j + 1) + 1]
      BY <2>3, <3>1
    <3>4. r_data[s[(j + 1) + 1]] = queued[p][j + 1]
      BY <2>2, <3>1
    <3> QED
      BY <1>8, <2>1, <3>2, <3>3, <3>4
  <2>9. \/ Len(t) = Len(queued'[p]) + 1 /\ r_new_node'[p] = NULL
        \/ /\ Len(t) = Len(queued'[p]) + 2
           /\ r_new_node'[p] = t[Len(t)] /\ r_prev_tail'[p] = t[Len(t) - 1]
           /\ r_data'[r_new_node'[p]] \in Items
    <3>1. CASE Len(s) = K + 1 /\ r_new_node[p] = NULL
      BY <1>7, <1>8, <1>9, <2>1, <3>1
    <3>2. CASE /\ Len(s) = K + 2 /\ r_new_node[p] = s[Len(s)] /\ r_prev_tail[p] = s[Len(s) - 1]
               /\ r_data[r_new_node[p]] \in Items
      <4>1. Len(t) - 1 \in 1 .. Len(t) /\ (Len(t) - 1) + 1 = Len(s) - 1 /\ Len(s) \in 1 .. Len(s)
        BY <1>7, <1>9, <3>2
      <4>2. t[Len(t) - 1] = s[Len(s) - 1]
        BY <2>3, <4>1
      <4>3. s[Len(s)] # s[1] /\ s[Len(s)] \in Nodes
        BY <1>7, <1>10, <3>2, <4>1
      <4>4. Len(t) = Len(queued'[p]) + 2
        BY <1>7, <1>8, <1>9, <3>2
      <4> QED
        BY <2>1, <2>5, <3>2, <4>2, <4>3, <4>4
    <3> QED
      BY <2>2, <3>1, <3>2
  <2> QED
    BY <1>8, <1>9, <2>1, <2>2, <2>5, <2>6, <2>7, <2>8, <2>9 DEF Relaxed!IsFifo
<1>17. Relaxed!NodesOf(t) = Relaxed!NodesOf(s) \ {s[1]}
  <2>1. \A j \in 1 .. Len(t) : j + 1 \in 1 .. Len(s) /\ t[j] = s[j + 1] /\ s[j + 1] # s[1]
    <3>1. \A j \in 1 .. Len(t) : j + 1 \in 1 .. Len(s) /\ j + 1 # 1
      BY <1>7, <1>9
    <3> QED
      BY <1>9, <1>10, <3>1
  <2>2. \A j \in 1 .. Len(s) : j # 1 => j - 1 \in 1 .. Len(t) /\ t[j - 1] = s[j]
    <3>1. \A j \in 1 .. Len(s) : j # 1 => j - 1 \in 1 .. Len(s) - 1 /\ (j - 1) + 1 = j
      BY <1>7
    <3> QED
      BY <1>9, <3>1
  <2>3. ASSUME NEW m \in Relaxed!NodesOf(t) PROVE m \in Relaxed!NodesOf(s) \ {s[1]}
    BY <2>1 DEF Relaxed!NodesOf
  <2>4. ASSUME NEW m \in Relaxed!NodesOf(s), m # s[1] PROVE m \in Relaxed!NodesOf(t)
    <3>1. PICK j \in 1 .. Len(s) : m = s[j]
      BY DEF Relaxed!NodesOf
    <3>2. j - 1 \in 1 .. Len(t) /\ t[j - 1] = m
      BY <2>2, <2>4, <3>1
    <3> QED
      BY <3>2 DEF Relaxed!NodesOf
  <2> QED
    BY <2>3, <2>4
<1>18. \E g \in [Producers -> Seq(Nodes)] : Relaxed!FifosInv(g)'
  <2>1. /\ heap \cap Relaxed!NodesOf(s) = {}
        /\ \A m \in heap : m \in Nodes /\ r_next[m] = NULL
    BY <1>1, <1>4, <1>6, RelaxedTypes, RelaxedFacts, NodesOfSeq
    DEF Relaxed!FifosInv, Relaxed!Partition, s
  <2>2. s[1] \in Relaxed!NodesOf(s)
    BY <1>7 DEF Relaxed!NodesOf
  <2>3. \A m \in heap' : r_next'[m] = NULL
    BY <1>3, <1>7, <1>10, <2>1
  <2>4. heap' = (heap \cup Relaxed!NodesOf(f[p])) \ Relaxed!NodesOf(t)
    BY <1>3, <1>7, <1>17, <2>1, <2>2 DEF s
  <2>5. Relaxed!NodesOf(t) \subseteq heap \cup Relaxed!NodesOf(f[p])
    BY <1>17 DEF s
  <2>6. \A m \in Nodes \ (heap \cup Relaxed!NodesOf(f[p])) :
           r_next'[m] = r_next[m] /\ r_data'[m] = r_data[m]
    BY <1>3, <1>7, <2>2 DEF s
  <2>7. t # <<>> <=> Relaxed!Exists(p)'
    BY <1>5, <1>9
  <2>8. t \in Seq(Nodes)
    BY <1>9
  <2> QED
    BY <1>1, <1>4, <1>5, <1>14, <1>16, <2>3, <2>4, <2>5, <2>6, <2>7, <2>8, OneFifo
<1> QED
  BY <1>12, <1>13, <1>15, <1>18, RelaxedParts

LEMMA RelaxedStepInv ==
    ASSUME RelaxedAssumed, Relaxed!IInv, [Relaxed!Next]_(Relaxed!vars)
    PROVE  Relaxed!IInv'
<1>1. CASE UNCHANGED Relaxed!vars
  BY <1>1, RelaxedStutter
<1>2. CASE Relaxed!Next
  <2>1. \/ Relaxed!CreateCall \/ Relaxed!CreateFifo \/ Relaxed!CreateFails
        \/ Relaxed!TrypopCall \/ Relaxed!TrypopFound \/ Relaxed!TrypopNothing
        \/ Relaxed!TrypopReturnsNull
        \/ Relaxed!DestroyCall \/ Relaxed!DestroyFifo
        \/ \E p \in Producers : Relaxed!PushLink(p)
        \/ \E p \in Producers, n \in Nodes, v \in Items : Relaxed!Push(p, n, v)
    BY <1>2, RelaxedFacts DEF Relaxed!Next, Relaxed!Trypop
  <2> QED
    BY <2>1, CreateCallInv, CreateFifoInv, ToDestroyInv, TrypopCallInv, TrypopFoundInv,
       TrypopNothingInv, TrypopReturnsNullInv, DestroyFifoInv, RelaxedPushLinkInv,
       RelaxedPushInv
<1> QED
  BY <1>1, <1>2

\* The invariant of the relaxed fifo, whoever pushes while the consumer visits.
THEOREM RelaxedInvariant == ASSUME RelaxedAssumed PROVE Relaxed!Spec => []Relaxed!IInv
<1>1. Relaxed!Init => Relaxed!IInv
  BY RelaxedInitInv
<1>2. Relaxed!IInv /\ [Relaxed!Next]_(Relaxed!vars) => Relaxed!IInv'
  BY RelaxedStepInv
<1> QED
  BY <1>1, <1>2, PTL DEF Relaxed!Spec

\* The nodes of a fifo are those one comes to from its head, and the one to be linked.
LEMMA FifoNodes ==
    ASSUME RelaxedAssumed, Relaxed!TypeOK, NEW p \in Producers, NEW s \in Seq(Nodes),
           Relaxed!IsFifo(p, s), NEW n \in Nodes
    PROVE  n \in Relaxed!ChainFrom(r_head[p]) \cup {r_new_node[p]}
             <=> n \in Relaxed!NodesOf(s)
<1> DEFINE K == Len(queued[p])
<1>1. K \in Nat /\ Len(s) \in Nat /\ n # NULL
  BY RelaxedTypes, RelaxedFacts
<1>2. CASE s = <<>>
  <2>1. r_new_node[p] = NULL /\ Relaxed!NodesOf(s) = {}
    BY <1>1, <1>2 DEF Relaxed!IsFifo, Relaxed!NodesOf
  <2>2. Relaxed!ChainFrom(r_head[p]) = {s[j] : j \in 1 .. 0}
    BY <1>2, ChainFromHead
  <2> QED
    BY <1>1, <2>1, <2>2
<1>3. CASE s # <<>>
  <2>1. Relaxed!ChainFrom(r_head[p]) = {s[j] : j \in 1 .. K + 1}
    BY <1>3, ChainFromHead
  <2>2. CASE Len(s) = K + 1 /\ r_new_node[p] = NULL
    BY <1>1, <2>1, <2>2 DEF Relaxed!NodesOf
  <2>3. CASE Len(s) = K + 2 /\ r_new_node[p] = s[Len(s)]
    <3>1. \A j \in Int : j \in 1 .. Len(s) <=> j \in 1 .. K + 1 \/ j = Len(s)
      BY <1>1, <2>3
    <3>2. Relaxed!NodesOf(s) = {s[j] : j \in 1 .. K + 1} \cup {s[Len(s)]}
      BY <1>1, <3>1 DEF Relaxed!NodesOf
    <3> QED
      BY <2>1, <2>3, <3>2
  <2> QED
    BY <1>3, <2>2, <2>3 DEF Relaxed!IsFifo
<1> QED
  BY <1>2, <1>3

\* No node is lost or in two places, also when a create fails or the fifo is destroyed.
THEOREM RelaxedNodesCorrect ==
    ASSUME RelaxedAssumed PROVE Relaxed!Spec => []Relaxed!NodesIntact
<1>1. ASSUME Relaxed!IInv PROVE Relaxed!NodesIntact
  <2>1. Relaxed!TypeOK
    BY <1>1, RelaxedParts
  <2>2. PICK f \in [Producers -> Seq(Nodes)] : Relaxed!FifosInv(f)
    BY <1>1, RelaxedParts
  <2>3. /\ \A p, q \in Producers :
             p # q => Relaxed!NodesOf(f[p]) \cap Relaxed!NodesOf(f[q]) = {}
        /\ \A n \in Nodes : n \in heap <=> \A p \in Producers : n \notin Relaxed!NodesOf(f[p])
    BY <2>2, RelaxedFacts DEF Relaxed!FifosInv, Relaxed!Partition
  <2>4. ASSUME NEW n \in Nodes
        PROVE  Cardinality({p \in Producers :
                              n \in Relaxed!ChainFrom(r_head[p]) \cup {r_new_node[p]}})
                 = (IF n \in heap THEN 0 ELSE 1)
    <3> DEFINE At == {p \in Producers :
                        n \in Relaxed!ChainFrom(r_head[p]) \cup {r_new_node[p]}}
    <3>1. \A p \in Producers : p \in At <=> n \in Relaxed!NodesOf(f[p])
      BY <2>1, <2>2, FifosFacts, FifoNodes
    <3>2. CASE n \in heap
      <4>1. At = {}
        BY <2>3, <3>1, <3>2
      <4> QED
        BY <3>2, <4>1, FS_EmptySet
    <3>3. CASE n \notin heap
      <4>1. PICK p \in Producers : n \in Relaxed!NodesOf(f[p])
        BY <2>3, <3>3
      <4>2. At = {p}
        BY <2>3, <3>1, <4>1
      <4> QED
        BY <3>3, <4>2, FS_Singleton
    <3> QED
      BY <3>2, <3>3
  <2>5. ASSUME r_pc = "none" PROVE heap = Nodes
    <3>1. \A p \in Producers : ~Relaxed!Exists(p)
      BY <2>5 DEF Relaxed!Exists
    <3>2. \A p \in Producers : Relaxed!NodesOf(f[p]) = {}
      BY <2>2, <3>1, FifosFacts DEF Relaxed!NodesOf
    <3> QED
      BY <2>1, <2>3, <3>2, RelaxedTypes
  <2>6. \A S : Relaxed!Cardinality(S) = Cardinality(S)
    BY DEF Relaxed!Cardinality, Cardinality
  <2> QED
    BY <2>1, <2>4, <2>5, <2>6, Zenon
    DEF Relaxed!NodesIntact, Relaxed!NodesConserved, Relaxed!Producers, Producers
<1>2. Relaxed!IInv => Relaxed!NodesIntact
  BY <1>1
<1> QED
  BY <1>2, RelaxedInvariant, PTL

\* A trypop misses nothing that was there when it was called but in a fifo that the
\* counter has just skipped by wrapping around, and no producer waits for more than one
\* round of the others and one such jump, whatever the number of producers.
THEOREM RoundRobinCorrect ==
    ASSUME RelaxedAssumed
    PROVE  Relaxed!Spec => []Relaxed!RoundRobin
<1>1. ASSUME Relaxed!IInv PROVE Relaxed!RoundRobin
  <2>1. Relaxed!TypeOK /\ Relaxed!RoundsInv /\ counter \in Nat
    BY <1>1, RelaxedParts, RelaxedTypes, RelaxedFacts
  <2>2. \A p \in Producers :
           /\ Relaxed!Since(p) \in Nat
           /\ Relaxed!Since(p) < NumProducers + (IF Relaxed!Skipped(p) THEN counter ELSE 0)
    BY <2>1, RelaxedTypes, SinceFacts
  <2>3. Relaxed!OneRound
    <3>1. \A p \in Producers : passed[p] <= Relaxed!Since(p) /\ passed[p] \in Nat
      BY <2>1, RelaxedFacts, RelaxedTypes DEF Relaxed!RoundsInv
    <3>2. \A p \in Producers :
             passed[p] < NumProducers + (IF Relaxed!Skipped(p) THEN counter ELSE 0)
      BY <2>1, <2>2, <3>1, RelaxedFacts
    <3> QED
      BY <3>2, RelaxedFacts DEF Relaxed!OneRound
  <2>4. Relaxed!EmptyIsHonest
    <3>1. SUFFICES ASSUME r_pc = "trypop", r_i = NumProducers, NEW p \in present
                   PROVE  Relaxed!Skipped(p)
      BY DEF Relaxed!EmptyIsHonest
    <3>2. p \in Producers /\ r_i <= Relaxed!Since(p)
      BY <2>1, <3>1, RelaxedTypes DEF Relaxed!RoundsInv
    <3> QED
      BY <2>2, <3>1, <3>2, RelaxedFacts
  <2> QED
    BY <2>3, <2>4 DEF Relaxed!RoundRobin
<1>2. Relaxed!IInv => Relaxed!RoundRobin
  BY <1>1
<1> QED
  BY <1>2, RelaxedInvariant, PTL

\* What one step takes from a fifo is the oldest item of its producer.
LEMMA PopsOldest ==
    ASSUME RelaxedAssumed, Relaxed!IInv, [Relaxed!Next]_(Relaxed!vars),
           NEW p \in Producers, r_head[p] # NULL, r_head'[p] \notin {NULL, r_head[p]}
    PROVE  queued[p] # <<>> /\ out' = Head(queued[p])
<1>1. /\ Relaxed!TypeOK /\ Relaxed!StagesInv
      /\ \E f \in [Producers -> Seq(Nodes)] : Relaxed!FifosInv(f)
  BY RelaxedParts
<1>2. PICK f \in [Producers -> Seq(Nodes)] : Relaxed!FifosInv(f)
  BY <1>1
<1>3. CASE Relaxed!TrypopFound
  <2>1. p = Relaxed!Index /\ Relaxed!Linked(p) /\ out' = r_data[r_next[r_head[p]]]
    <3>1. PICK q \in Producers : q = Relaxed!Index
      BY <1>1, RelaxedTypes, SinceFacts
    <3>2. /\ r_head' = [r_head EXCEPT ![q] = r_next[r_head[q]]]
          /\ Relaxed!Linked(q) /\ out' = r_data[r_next[r_head[q]]]
      BY <1>3, <3>1 DEF Relaxed!TrypopFound, Relaxed!SpscTrypop
    <3>3. p = q
      BY <1>1, <3>2, RelaxedTypes
    <3> QED
      BY <3>1, <3>2, <3>3
  <2>2. Relaxed!Exists(p)
    BY <1>3 DEF Relaxed!TrypopFound, Relaxed!Exists
  <2>3. Relaxed!IsFifo(p, f[p]) /\ f[p] # <<>> /\ f[p] \in Seq(Nodes)
    BY <1>2, <2>2, FifosFacts
  <2>4. queued[p] # <<>> /\ r_data[r_next[r_head[p]]] = queued[p][1] /\ queued[p] \in Seq(Items)
    BY <1>1, <2>1, <2>3, LinkedIsQueued, RelaxedTypes
  <2> QED
    BY <2>1, <2>4, TailFacts
<1>4. CASE Relaxed!CreateFifo
  <2>1. PICK n \in Nodes : r_head' = [r_head EXCEPT ![r_i] = n]
    BY <1>4 DEF Relaxed!CreateFifo, Relaxed!SpscFifoInit
  <2>2. p = r_i /\ r_pc = "create"
    BY <1>1, <1>4, <2>1, RelaxedTypes DEF Relaxed!CreateFifo
  <2>3. ~Relaxed!Exists(p)
    BY <2>2, RelaxedFacts DEF Relaxed!Exists, Producers
  <2>4. r_head[p] = NULL
    BY <1>2, <2>3, FifosFacts DEF Relaxed!IsFifo
  <2> QED
    BY <2>4
<1>5. CASE Relaxed!DestroyFifo
  <2>1. r_head' = r_head \/ r_head' = [r_head EXCEPT ![r_i] = NULL]
    BY <1>5 DEF Relaxed!DestroyFifo, Relaxed!SpscDestroy, Relaxed!spscVars
  <2> QED
    BY <1>1, <2>1, RelaxedTypes
<1>6. CASE r_head' = r_head
  BY <1>6
<1>7. \/ Relaxed!TrypopFound \/ Relaxed!CreateFifo \/ Relaxed!DestroyFifo
      \/ r_head' = r_head
  BY DEF Relaxed!Next, Relaxed!vars, Relaxed!spscVars, Relaxed!CreateCall, Relaxed!CreateFails,
         Relaxed!TrypopCall, Relaxed!Trypop, Relaxed!TrypopNothing, Relaxed!TrypopReturnsNull,
         Relaxed!DestroyCall, Relaxed!PushLink, Relaxed!SpscPushLink, Relaxed!Push,
         Relaxed!SpscPush
<1> QED
  BY <1>3, <1>4, <1>5, <1>6, <1>7

\* Strict fifo per producer, although the items are copied from node to node.
THEOREM RelaxedOrderCorrect ==
    ASSUME RelaxedAssumed PROVE Relaxed!Spec => Relaxed!PopsInOrder
<1> DEFINE Oldest ==
             \A p \in Relaxed!Producers :
                r_head[p] # NULL /\ r_head'[p] \notin {NULL, r_head[p]} =>
                    queued[p] # <<>> /\ out' = Head(queued[p])
<1>1. Relaxed!IInv /\ [Relaxed!Next]_(Relaxed!vars) => Oldest
  BY PopsOldest, RelaxedFacts
<1> HIDE DEF Oldest
<1>2. Relaxed!Spec => [][Oldest]_(Relaxed!vars)
  BY <1>1, RelaxedInvariant, PTL DEF Relaxed!Spec
<1> QED
  BY <1>2 DEF Oldest, Relaxed!PopsInOrder

=============================================================================
