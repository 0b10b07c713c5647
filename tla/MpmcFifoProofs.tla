--------------------------- MODULE MpmcFifoProofs ---------------------------
(***************************************************************************)
(* Proofs about mpmc_fifo.h over hazard_pointer.c, for every number of     *)
(* threads, every set of nodes and of items and every order of the list of *)
(* records, where store_load_barrier() is a fence.                         *)
(***************************************************************************)
EXTENDS MpmcFifo, FiniteSetTheorems, SequenceTheorems, TLAPS

\* The facts about qsort and binary_search of hazard_pointer.c, and about finite
\* sets of numbers, that are proved with the records.
Registry == INSTANCE HazardRecordsProofs WITH shared <- head, list <- hsb

-----------------------------------------------------------------------------
(* The inductive invariant.                                                *)

Last == Len(pushed)

\* A node that a push has not yet got into the fifo is the thread's own.
PrivateLabels == {"push_tail", "push_check", "push_cas"}
Private(t) == IF pc[t] \in PrivateLabels THEN {node[t]} ELSE {}
Held(t) == Private(t) \cup retired[t]

\* Every node is in exactly one place, where Q is what the fifo has.
Partition(Q) ==
    /\ Q \cap free = {}
    /\ \A t \in Threads : Private(t) \cap retired[t] = {} /\ Held(t) \cap (Q \cup free) = {}
    /\ \A t, u \in Threads : t # u => Held(t) \cap Held(u) = {}
    /\ \A n \in Nodes : n \in Q \cup free \/ \E t \in Threads : n \in Held(t)

\* t is about to link the j-th node to the one it has pushed after it.
LinksAt(t, c, j) ==
    pc[t] = "push_link" /\ old[t] = c[j] /\ node[t] = c[j + 1] /\ prev[c[j]] = NULL

\* From head to tail the fifo has the nodes c[lo] .. c[Last], of which c[j] is the node
\* of the j-th push.  Each is linked to the next one, or its pusher is about to do so.
Chain(c, lo) ==
    /\ \A i, j \in lo .. Last : c[i] = c[j] => i = j
    /\ head = IF lo <= Last THEN c[lo] ELSE NULL
    /\ tail = c[Last]
    /\ lo <= Last => prev[c[Last]] = NULL
    /\ \A j \in lo .. Last - 1 :
          prev[c[j]] = c[j + 1] \/ \E t \in Threads : LinksAt(t, c, j)
    /\ \A t \in Threads :
          pc[t] = "push_link" => \E j \in lo .. Last - 1 : LinksAt(t, c, j)

ChainNodes(c, lo) == {c[j] : j \in lo .. Last}

\* In service the nodes behind the first have the values not yet popped, in order.
Queue(c, lo) ==
    /\ Chain(c, lo)
    /\ Partition(ChainNodes(c, lo))
    /\ InService =>
          lo = Len(popped) /\ \A j \in lo + 1 .. Last : value[c[j]] = pushed[j]

\* While the fifo is being destroyed, and afterwards, nobody is in a call of it.
Destroying == {"idle", "scan", "destroy", "destroy_scan"}
DestroyInv == InService \/ \A t \in Threads : pc[t] \in Destroying

ScanInv ==
    \A t \in Threads : pc[t] \notin {"scan", "destroy_scan"} =>
        walk[t] = <<>> /\ max_pointers[t] = 0

In(x, s) == \E i \in 1 .. Len(s) : s[i] = x

\* A scan of u, if one is under way, has seen hazard pointer k of t, where n is, or
\* has not come to it yet.
Covered(u, t, k, n) ==
    \/ walk[u] = <<>> /\ max_pointers[u] = 0
    \/ In(n, plist[u])
    \/ In(<<t, k>>, walk[u])

\* No scan will give n back as long as hazard pointer k of t stays.
Secure(t, k, n) ==
    n \notin free /\ \A u \in Threads : n \in retired[u] => Covered(u, t, k, n)

Protects(t, k, n) == n \in Nodes /\ hp[t][k] = n /\ Secure(t, k, n)

\* The last store of t to its hazard pointers, visible or not.
LastStore(t, k, n) ==
    IF hsb[t] = <<>> THEN hp[t][k] = n ELSE hsb[t][Len(hsb[t])] = <<k, n>>

\* A push: its node, and the old tail.
PushInv(t) ==
    /\ node[t] # NULL <=> pc[t] \in PrivateLabels \cup {"push_link"}
    /\ pc[t] \in PrivateLabels => prev[node[t]] = NULL /\ value[node[t]] \in Items
    /\ pc[t] = "push_check" => old[t] \in Nodes /\ LastStore(t, 0, old[t])
    /\ pc[t] \in {"push_cas", "push_link"} => hsb[t] = <<>> /\ Protects(t, 0, old[t])

\* A pop: the old head, its successor and that one's value.
PopInv(t) ==
    /\ pc[t] = "pop_check" => old[t] \in Nodes /\ LastStore(t, 0, old[t])
    /\ pc[t] \in {"pop_prev", "pop_check2", "pop_value", "pop_cas"} => Protects(t, 0, old[t])
    /\ pc[t] \in {"pop_prev", "pop_value", "pop_cas"} => hsb[t] = <<>>
    /\ pc[t] = "pop_check2" =>
          \/ hsb[t] = <<<<1, prv[t]>>>>
          \/ hsb[t] = <<>> /\ hp[t][1] = prv[t]
    /\ pc[t] \in {"pop_check2", "pop_value", "pop_cas"} => prev[old[t]] = prv[t]
    /\ pc[t] \in {"pop_value", "pop_cas"} => Protects(t, 1, prv[t])
    /\ pc[t] = "pop_cas" => ret[t] = value[prv[t]]

ThreadInv(t) == PushInv(t) /\ PopInv(t)

OwnNodes == \A t, u \in Threads : t # u /\ node[t] # NULL => node[t] # node[u]

IInv ==
    /\ TypeOK /\ records = Records /\ FifoOrder /\ DestroyInv /\ ScanInv /\ OwnNodes
    /\ \E c \in [Nat -> Nodes], lo \in Nat : Queue(c, lo)
    /\ \A t \in Threads : ThreadInv(t)

-----------------------------------------------------------------------------
(* Types, and what a step leaves alone.                                    *)

\* What a scan asks of the plist: qsort and binary_search decide membership.
LEMMA HazardousIsMembership ==
    ASSUME NEW found \in Seq(Nodes), NEW n \in Nodes
    PROVE  Hazardous(found, n) <=> In(n, found)
<1>1. Hazardous(found, n) = Registry!Hazardous(found, n)
  BY DEF Hazardous, Registry!Hazardous, BinarySearch, Registry!BinarySearch,
         Qsort, Registry!Qsort, Search, Registry!Search
<1>2. Registry!Hazardous(found, n) <=> \E i \in 1 .. Len(found) : found[i] = n
  BY Registry!HazardousIsMembership, KAssumption, NodesAssumption, FencedAssumption
<1> QED
  BY <1>1, <1>2 DEF In

Stores == (0 .. 1) \X (Nodes \cup {NULL})

LEMMA Constants ==
    /\ K = 2 /\ 0 .. K - 1 = 0 .. 1 /\ NULL \notin Nodes /\ InitialNode \in Nodes
    /\ \A n \in Nodes : n # NULL
BY HazardCountAssumption, NodesAssumption, InitialNodeAssumption

\* One store at the end of a buffer.
LEMMA OneStore ==
    ASSUME NEW s \in Seq(Stores), NEW k \in 0 .. 1, NEW n \in Nodes \cup {NULL}
    PROVE  LET r == s \o <<<<k, n>>>> IN
           r \in Seq(Stores) /\ r # <<>> /\ r[Len(r)] = <<k, n>>
<1>1. <<k, n>> \in Stores
  BY DEF Stores
<1> DEFINE e == <<k, n>>
<1>2. <<e>> \in Seq(Stores) /\ Len(<<e>>) = 1 /\ <<e>>[1] = e
  BY <1>1
<1> HIDE DEF e, Stores
<1> QED
  BY <1>2 DEF e

LEMMA BufferType ==
    ASSUME TypeOK
    PROVE  /\ hsb \in [Threads -> Seq(Stores)]
           /\ hp \in [Threads -> [0 .. 1 -> Nodes \cup {NULL}]]
           /\ walk \in [Threads -> Seq(Threads \X (0 .. 1))]
BY Constants DEF TypeOK, HazardTypeOK, Stores

LEMMA AnnounceType ==
    ASSUME TypeOK, NEW t \in Threads, NEW k \in 0 .. 1, NEW n \in Nodes \cup {NULL},
           Announce(t, <<<<k, n>>>>)
    PROVE  /\ hsb' \in [Threads -> Seq((0 .. K - 1) \X (Nodes \cup {NULL}))]
           /\ hsb'[t] # <<>> /\ hsb'[t][Len(hsb'[t])] = <<k, n>>
           /\ hsb'[t] = hsb[t] \o <<<<k, n>>>>
           /\ \A u \in Threads \ {t} : hsb'[u] = hsb[u]
<1>1. hsb' = [hsb EXCEPT ![t] = hsb[t] \o <<<<k, n>>>>]
  BY DEF Announce
<1>2. hsb \in [Threads -> Seq(Stores)]
  BY BufferType
<1>3. PICK r \in Seq(Stores) : r = hsb[t] \o <<<<k, n>>>> /\ r # <<>> /\ r[Len(r)] = <<k, n>>
  BY <1>2, OneStore
<1>4. hsb' = [hsb EXCEPT ![t] = r]
  BY <1>1, <1>3
<1>5. /\ hsb' \in [Threads -> Seq(Stores)] /\ hsb'[t] = r
      /\ \A u \in Threads \ {t} : hsb'[u] = hsb[u]
  BY <1>2, <1>4
<1>6. Seq(Stores) = Seq((0 .. K - 1) \X (Nodes \cup {NULL}))
  BY Constants DEF Stores
<1> QED
  BY <1>3, <1>5, <1>6

LEMMA LastType ==
    ASSUME TypeOK
    PROVE  Last \in Nat /\ Len(popped) \in Nat
BY DEF TypeOK, Last

\* What a thread holds stays what it is.
LEMMA PartitionKept ==
    ASSUME NEW Q, Partition(Q), UNCHANGED <<free, retired>>,
           \A u \in Threads :
              /\ pc'[u] \in PrivateLabels <=> pc[u] \in PrivateLabels
              /\ pc[u] \in PrivateLabels => node'[u] = node[u]
    PROVE  Partition(Q)'
<1>1. \A u \in Threads : Private(u)' = Private(u) /\ Held(u)' = Held(u)
  BY DEF Private, Held
<1> QED
  BY <1>1 DEF Partition

\* Nothing happens to the chain but that its poppers move on.
LEMMA ChainKept ==
    ASSUME NEW c, NEW lo, Chain(c, lo),
           UNCHANGED <<head, tail, prev, pushed>>,
           \A u \in Threads :
              /\ pc'[u] = "push_link" <=> pc[u] = "push_link"
              /\ pc[u] = "push_link" => old'[u] = old[u] /\ node'[u] = node[u]
    PROVE  Chain(c, lo)'
<1>1. Last' = Last
  BY DEF Last
<1>2. \A u \in Threads : \A j : LinksAt(u, c, j)' <=> LinksAt(u, c, j)
  BY DEF LinksAt
<1> QED
  BY <1>1, <1>2 DEF Chain

LEMMA QueueKept ==
    ASSUME NEW c, NEW lo, Queue(c, lo), Partition(ChainNodes(c, lo))',
           UNCHANGED <<head, tail, prev, value, pushed, popped>>,
           \A u \in Threads :
              /\ pc'[u] = "push_link" <=> pc[u] = "push_link"
              /\ pc[u] = "push_link" => old'[u] = old[u] /\ node'[u] = node[u],
           InService' => InService
    PROVE  Queue(c, lo)'
<1>1. Last' = Last
  BY DEF Last
<1>2. Chain(c, lo)'
  BY ChainKept DEF Queue
<1> QED
  BY <1>1, <1>2 DEF Queue

LEMMA ChainNodesKept ==
    ASSUME NEW c, NEW lo, UNCHANGED pushed
    PROVE  ChainNodes(c, lo)' = ChainNodes(c, lo)
BY DEF ChainNodes, Last

\* Nothing is written to nodes that are not free, but where a link was missing.
NodesKept ==
    \A n \in Nodes \ free : value'[n] = value[n] /\ (prev[n] # NULL => prev'[n] = prev[n])

\* What protects a node of u still does.
SecurityKept(u) ==
    \A k \in 0 .. 1, n \in Nodes : hp[u][k] = n /\ Secure(u, k, n) => Secure(u, k, n)'

LEMMA ThreadKept ==
    ASSUME TypeOK, NEW u \in Threads, ThreadInv(u), NodesKept, SecurityKept(u),
           UNCHANGED <<pc[u], node[u], old[u], prv[u], ret[u], hsb[u], hp[u]>>,
           pc[u] \in PrivateLabels =>
              prev'[node[u]] = prev[node[u]] /\ value'[node[u]] = value[node[u]]
    PROVE  ThreadInv(u)'
<1>1. \A k \in 0 .. 1, n \in Nodes : Protects(u, k, n) => Protects(u, k, n)' /\ n \in Nodes \ free
  BY DEF Protects, SecurityKept, Secure
<1>2. \A k, n : LastStore(u, k, n) => LastStore(u, k, n)'
  BY DEF LastStore
<1>3. \A k \in 0 .. 1 : \A n : Protects(u, k, n) => n \in Nodes
  BY DEF Protects
<1>4. 0 \in 0 .. 1 /\ 1 \in 0 .. 1
  OBVIOUS
<1>5. \A n : /\ Protects(u, 0, n) => Protects(u, 0, n)' /\ n \in Nodes \ free
             /\ Protects(u, 1, n) => Protects(u, 1, n)' /\ n \in Nodes \ free
  BY <1>1, <1>3, <1>4
<1>6. PushInv(u)'
  BY <1>2, <1>5 DEF ThreadInv, PushInv
<1>7. PopInv(u)'
  <2>1. pc[u] \in {"pop_check2", "pop_value", "pop_cas"} => prv[u] \in Nodes /\ prv[u] # NULL
    BY NodesAssumption DEF TypeOK
  <2> QED
    BY <1>2, <1>5, <2>1 DEF ThreadInv, PopInv, NodesKept
<1> QED
  BY <1>6, <1>7 DEF ThreadInv

LEMMA SecuritySame ==
    ASSUME UNCHANGED <<free, retired, scanVars>>, NEW u \in Threads
    PROVE  SecurityKept(u)
<1>1. UNCHANGED <<walk, max_pointers, plist>>
  BY DEF scanVars
<1> QED
  BY <1>1 DEF SecurityKept, Secure, Covered, In

LEMMA ScanInvKept ==
    ASSUME ScanInv, UNCHANGED scanVars,
           \A u \in Threads :
              pc[u] \in {"scan", "destroy_scan"} => pc'[u] \in {"scan", "destroy_scan"}
    PROVE  ScanInv'
BY DEF ScanInv, scanVars

\* A step of a push or a pop that writes to nothing but the thread's own variables
\* and its store buffer.
LEMMA CallStep ==
    ASSUME IInv, InService, NEW t \in Threads, pc[t] \notin {"scan", "destroy_scan", "push_link"},
           NEW label \in Labels \ {"push_link", "destroy", "destroy_scan"},
           pc' = [pc EXCEPT ![t] = label], pc[t] \in PrivateLabels <=> label \in PrivateLabels,
           TypeOK', ThreadInv(t)',
           UNCHANGED <<records, threshold, hp, retired, scanVars, free, nodeVars, node, history>>,
           \A u \in Threads \ {t} : UNCHANGED <<old[u], prv[u], ret[u], hsb[u]>>
    PROVE  IInv'
<1>1. pc \in [Threads -> Labels] /\ TypeOK
  BY DEF IInv, TypeOK
<1>2. /\ UNCHANGED <<head, tail, prev, value, pushed, popped>>
      /\ pc'[t] = label /\ \A u \in Threads \ {t} : pc'[u] = pc[u]
  BY <1>1 DEF nodeVars, history
<1>3. InService /\ InService' /\ DestroyInv'
  BY <1>1, <1>2 DEF InService, DestroyInv
<1>4. PICK c \in [Nat -> Nodes], lo \in Nat : Queue(c, lo)
  BY DEF IInv
<1>5. Queue(c, lo)'
  <2>1. \A u \in Threads :
          /\ pc'[u] \in PrivateLabels <=> pc[u] \in PrivateLabels
          /\ pc'[u] = "push_link" <=> pc[u] = "push_link"
          /\ pc[u] = "push_link" => old'[u] = old[u]
    BY <1>2
  <2>2. Partition(ChainNodes(c, lo))'
    <3> DEFINE Q == ChainNodes(c, lo)
    <3>1. Partition(Q)
      BY <1>4 DEF Queue
    <3>2. Q' = Q
      BY <1>2, ChainNodesKept
    <3>3. PICK S : S = Q
      OBVIOUS
    <3>4. Partition(S)'
      BY <3>1, <3>3, <2>1, PartitionKept
    <3> QED
      BY <3>2, <3>3, <3>4
  <2> QED
    BY <1>2, <1>3, <1>4, <2>1, <2>2, QueueKept
<1>6. \A u \in Threads : ThreadInv(u)'
  <2> SUFFICES ASSUME NEW u \in Threads, u # t PROVE ThreadInv(u)'
    OBVIOUS
  <2>1. NodesKept /\ SecurityKept(u)
    BY <1>2, SecuritySame DEF NodesKept
  <2>2. UNCHANGED <<pc[u], node[u], old[u], prv[u], ret[u], hsb[u], hp[u]>>
    BY <1>2
  <2> QED
    BY <1>1, <1>2, <2>1, <2>2, ThreadKept DEF IInv
<1>7. ScanInv'
  BY <1>2, ScanInvKept DEF IInv
<1>8. records' = Records /\ FifoOrder' /\ OwnNodes'
  BY <1>2 DEF IInv, FifoOrder, OwnNodes
<1> QED
  BY <1>3, <1>5, <1>6, <1>7, <1>8 DEF IInv

\* A thread that is in a call of the fifo need not look whether it is in service.
LEMMA LocalStep ==
    ASSUME IInv, NEW t \in Threads, pc[t] \notin Destroying \cup {"push_link"},
           NEW label \in Labels \ {"push_link", "destroy", "destroy_scan"},
           pc' = [pc EXCEPT ![t] = label], pc[t] \in PrivateLabels <=> label \in PrivateLabels,
           TypeOK', ThreadInv(t)',
           UNCHANGED <<records, threshold, hp, retired, scanVars, free, nodeVars, node, history>>,
           \A u \in Threads \ {t} : UNCHANGED <<old[u], prv[u], ret[u], hsb[u]>>
    PROVE  IInv'
<1>1. InService
  BY DEF IInv, DestroyInv
<1> QED
  BY <1>1, CallStep DEF Destroying

-----------------------------------------------------------------------------
(* The steps that only read the fifo.                                      *)

LEMMA PushReadTailInv ==
    ASSUME IInv, NEW t \in Threads, PushReadTail(t)
    PROVE  IInv'
<1>1. /\ pc[t] = "push_tail" /\ pc' = [pc EXCEPT ![t] = "push_check"]
      /\ old' = [old EXCEPT ![t] = tail] /\ Announce(t, <<<<0, tail>>>>)
      /\ UNCHANGED <<records, threshold, hp, retired, scanVars, free, nodeVars, node, prv, ret, history>>
  BY DEF PushReadTail, Goto, recordVars
<1>2. TypeOK /\ tail \in Nodes
  BY DEF IInv, TypeOK
<1>3. /\ hsb' \in [Threads -> Seq((0 .. K - 1) \X (Nodes \cup {NULL}))]
      /\ hsb'[t] # <<>> /\ hsb'[t][Len(hsb'[t])] = <<0, tail>>
      /\ \A u \in Threads \ {t} : hsb'[u] = hsb[u]
  BY <1>1, <1>2, AnnounceType
<1>4. TypeOK'
  BY <1>1, <1>2, <1>3 DEF TypeOK, HazardTypeOK, Labels, nodeVars, history, scanVars
<1>5. /\ pc'[t] = "push_check" /\ old'[t] = tail
      /\ \A u \in Threads \ {t} : old'[u] = old[u]
  BY <1>1, <1>2 DEF TypeOK
<1>6. ThreadInv(t)'
  <2>1. LastStore(t, 0, old[t])'
    BY <1>3, <1>5 DEF LastStore
  <2>2. PushInv(t)
    BY DEF IInv, ThreadInv
  <2> QED
    BY <1>1, <1>2, <1>5, <2>1, <2>2 DEF ThreadInv, PushInv, PopInv, PrivateLabels, nodeVars
<1> QED
  BY <1>1, <1>3, <1>4, <1>5, <1>6, LocalStep DEF Labels, Destroying, PrivateLabels

\* What the tail or the head points to is in the fifo, so nobody gives it back.
LEMMA Safe ==
    ASSUME TypeOK, NEW c \in [Nat -> Nodes], NEW lo \in Nat, Queue(c, lo),
           NEW j \in lo .. Last, NEW t, NEW k
    PROVE  Secure(t, k, c[j]) /\ c[j] \in Nodes /\ c[j] \in ChainNodes(c, lo)
<1>1. c[j] \in ChainNodes(c, lo)
  BY DEF ChainNodes
<1>2. c[j] \notin free /\ \A u \in Threads : c[j] \notin retired[u]
  BY <1>1 DEF Queue, Partition, Held
<1>3. c[j] \in Nodes
  BY LastType
<1> QED
  BY <1>1, <1>2, <1>3 DEF Secure

LEMMA EndsSafe ==
    ASSUME IInv, InService, NEW t, NEW k
    PROVE  Secure(t, k, head) /\ head \in Nodes /\ Secure(t, k, tail) /\ tail \in Nodes
<1>1. TypeOK
  BY DEF IInv
<1>2. PICK c \in [Nat -> Nodes], lo \in Nat : Queue(c, lo)
  BY DEF IInv
<1>3. head = c[lo] /\ tail = c[Last] /\ lo \in lo .. Last /\ Last \in lo .. Last
  BY <1>2, <1>1, LastType DEF Queue, Chain, InService
<1> QED
  BY <1>1, <1>2, <1>3, Safe

\* A thread whose buffer has drained announces what it stored last.
LEMMA Announced ==
    ASSUME Fenced, NEW t \in Threads, BarrierPassed(t), NEW k, NEW n, LastStore(t, k, n)
    PROVE  hsb[t] = <<>> /\ hp[t][k] = n
BY DEF BarrierPassed, Drained, LastStore

LEMMA PushCheckTailInv ==
    ASSUME Fenced, IInv, NEW t \in Threads, PushCheckTail(t)
    PROVE  IInv'
<1> DEFINE label == IF old[t] = tail THEN "push_cas" ELSE "push_tail"
<1>1. /\ pc[t] = "push_check" /\ pc' = [pc EXCEPT ![t] = label] /\ BarrierPassed(t)
      /\ UNCHANGED <<hazardVars, nodeVars, node, old, prv, ret, history>>
  BY DEF PushCheckTail, Goto
<1>2. UNCHANGED <<records, threshold, hp, hsb, retired, scanVars, free>>
  BY <1>1 DEF hazardVars, recordVars
<1>3. TypeOK /\ label \in {"push_cas", "push_tail"}
  BY DEF IInv
<1>4. TypeOK'
  BY <1>1, <1>2, <1>3 DEF TypeOK, HazardTypeOK, Labels, nodeVars, history, scanVars
<1>5. pc'[t] = label
  BY <1>1, <1>3 DEF TypeOK
<1>6. ThreadInv(t)'
  <2>1. PushInv(t)
    BY DEF IInv, ThreadInv
  <2>2. old[t] \in Nodes /\ hsb[t] = <<>> /\ hp[t][0] = old[t]
    BY <1>1, <2>1, Announced DEF PushInv
  <2>3. old[t] = tail => Protects(t, 0, old[t])'
    <3>1. InService
      BY <1>1 DEF IInv, DestroyInv, Destroying
    <3>2. old[t] = tail => Secure(t, 0, old[t])
      BY <3>1, EndsSafe
    <3> QED
      BY <1>1, <1>2, <2>2, <3>2, SecuritySame DEF Protects, SecurityKept
  <2> QED
    BY <1>1, <1>2, <1>3, <1>5, <2>1, <2>2, <2>3
       DEF ThreadInv, PushInv, PopInv, PrivateLabels, nodeVars
<1> HIDE DEF label
<1> QED
  BY <1>1, <1>2, <1>3, <1>4, <1>5, <1>6, LocalStep DEF Labels, Destroying, PrivateLabels

\* A CAS that fails sends the thread back to where it started.
LEMMA PushCASFailsInv ==
    ASSUME IInv, NEW t \in Threads, pc[t] = "push_cas",
           pc' = [pc EXCEPT ![t] = "push_tail"],
           UNCHANGED <<hazardVars, nodeVars, node, old, prv, ret, history>>
    PROVE  IInv'
<1>1. UNCHANGED <<records, threshold, hp, hsb, retired, scanVars, free>>
  BY DEF hazardVars, recordVars
<1>2. TypeOK
  BY DEF IInv
<1>3. TypeOK'
  BY <1>1, <1>2 DEF TypeOK, HazardTypeOK, Labels, nodeVars, history, scanVars
<1>4. ThreadInv(t)'
  <2>1. PushInv(t) /\ pc'[t] = "push_tail"
    BY <1>2 DEF IInv, ThreadInv, TypeOK
  <2> QED
    BY <2>1 DEF ThreadInv, PushInv, PopInv, PrivateLabels, nodeVars
<1> QED
  BY <1>1, <1>3, <1>4, LocalStep DEF Labels, Destroying, PrivateLabels

LEMMA PopReadHeadInv ==
    ASSUME IInv, NEW t \in Threads, PopReadHead(t), InService, pc[t] \in {"idle", "pop_head"}
    PROVE  IInv'
<1>1. /\ pc' = [pc EXCEPT ![t] = "pop_check"]
      /\ old' = [old EXCEPT ![t] = head] /\ Announce(t, <<<<0, head>>>>)
      /\ UNCHANGED <<records, threshold, hp, retired, scanVars, free, nodeVars, node, prv, ret, history>>
  BY DEF PopReadHead, Goto, recordVars
<1>2. TypeOK /\ head \in Nodes
  BY DEF IInv, TypeOK, InService
<1>3. /\ hsb' \in [Threads -> Seq((0 .. K - 1) \X (Nodes \cup {NULL}))]
      /\ hsb'[t] # <<>> /\ hsb'[t][Len(hsb'[t])] = <<0, head>>
      /\ \A u \in Threads \ {t} : hsb'[u] = hsb[u]
  BY <1>1, <1>2, AnnounceType
<1>4. TypeOK'
  BY <1>1, <1>2, <1>3 DEF TypeOK, HazardTypeOK, Labels, nodeVars, history, scanVars
<1>5. /\ pc'[t] = "pop_check" /\ old'[t] = head
      /\ \A u \in Threads \ {t} : old'[u] = old[u] /\ pc'[u] = pc[u]
  BY <1>1, <1>2 DEF TypeOK
<1>6. ThreadInv(t)'
  <2>1. LastStore(t, 0, old[t])'
    BY <1>3, <1>5 DEF LastStore
  <2>2. PushInv(t)
    BY DEF IInv, ThreadInv
  <2> QED
    BY <1>1, <1>2, <1>5, <2>1, <2>2 DEF ThreadInv, PushInv, PopInv, PrivateLabels, nodeVars
<1> QED
  BY <1>1, <1>3, <1>4, <1>5, <1>6, CallStep DEF Labels, PrivateLabels

LEMMA PopCallInv ==
    ASSUME IInv, NEW t \in Threads, PopCall(t)
    PROVE  IInv'
BY PopReadHeadInv DEF PopCall

LEMMA PopRetryInv ==
    ASSUME IInv, NEW t \in Threads, PopRetry(t)
    PROVE  IInv'
BY PopReadHeadInv DEF PopRetry, IInv, DestroyInv, Destroying

\* The two checks of a pop, and its CAS that fails.
LEMMA PopAgainInv ==
    ASSUME IInv, NEW t \in Threads, pc[t] \in {"pop_check", "pop_check2", "pop_cas"},
           pc' = [pc EXCEPT ![t] = "pop_head"],
           UNCHANGED <<hazardVars, nodeVars, node, old, prv, ret, history>>
    PROVE  IInv'
<1>1. UNCHANGED <<records, threshold, hp, hsb, retired, scanVars, free>>
  BY DEF hazardVars, recordVars
<1>2. TypeOK
  BY DEF IInv
<1>3. TypeOK'
  BY <1>1, <1>2 DEF TypeOK, HazardTypeOK, Labels, nodeVars, history, scanVars
<1>4. ThreadInv(t)'
  <2>1. PushInv(t) /\ pc'[t] = "pop_head"
    BY <1>2 DEF IInv, ThreadInv, TypeOK
  <2> QED
    BY <2>1 DEF ThreadInv, PushInv, PopInv, PrivateLabels, nodeVars
<1> QED
  BY <1>1, <1>3, <1>4, LocalStep DEF Labels, Destroying, PrivateLabels

LEMMA PopCheckHeadInv ==
    ASSUME Fenced, IInv, NEW t \in Threads, PopCheckHead(t)
    PROVE  IInv'
<1>1. /\ pc[t] = "pop_check" /\ BarrierPassed(t)
      /\ pc' = [pc EXCEPT ![t] = IF old[t] = head THEN "pop_prev" ELSE "pop_head"]
      /\ UNCHANGED <<hazardVars, nodeVars, node, old, prv, ret, history>>
  BY DEF PopCheckHead, Goto
<1>2. UNCHANGED <<records, threshold, hp, hsb, retired, scanVars, free>>
  BY <1>1 DEF hazardVars, recordVars
<1>3. CASE old[t] = head
  <2>1. TypeOK /\ pc' = [pc EXCEPT ![t] = "pop_prev"]
    BY <1>1, <1>3 DEF IInv
  <2>2. TypeOK' /\ pc'[t] = "pop_prev"
    BY <1>1, <1>2, <2>1 DEF TypeOK, HazardTypeOK, Labels, nodeVars, history, scanVars
  <2>3. ThreadInv(t)'
    <3>1. PushInv(t) /\ PopInv(t)
      BY DEF IInv, ThreadInv
    <3>2. old[t] \in Nodes /\ hsb[t] = <<>> /\ hp[t][0] = old[t]
      BY <1>1, <3>1, Announced DEF PopInv
    <3>3. InService
      BY <1>1 DEF IInv, DestroyInv, Destroying
    <3>4. Secure(t, 0, old[t])
      BY <3>3, <1>3, EndsSafe
    <3>5. Protects(t, 0, old[t])'
      BY <1>1, <1>2, <3>2, <3>4, SecuritySame DEF Protects, SecurityKept
    <3> QED
      BY <1>1, <1>2, <2>2, <3>1, <3>2, <3>5
         DEF ThreadInv, PushInv, PopInv, PrivateLabels, nodeVars
  <2> QED
    BY <1>1, <1>2, <2>1, <2>2, <2>3, LocalStep DEF Labels, Destroying, PrivateLabels
<1>4. CASE old[t] # head
  BY <1>1, <1>4, PopAgainInv
<1> QED
  BY <1>3, <1>4

LEMMA PopReadPrevInv ==
    ASSUME IInv, NEW t \in Threads, PopReadPrev(t)
    PROVE  IInv'
<1>1. /\ pc[t] = "pop_prev"
      /\ UNCHANGED <<records, threshold, hp, retired, scanVars, free, nodeVars, history>>
      /\ \/ prev[old[t]] = NULL /\ Announce(t, <<<<0, NULL>>>>) /\ ReturnTo(t, "idle")
         \/ /\ prev[old[t]] # NULL
            /\ prv' = [prv EXCEPT ![t] = prev[old[t]]]
            /\ Announce(t, <<<<1, prev[old[t]]>>>>)
            /\ Goto(t, "pop_check2")
            /\ UNCHANGED <<node, old, ret>>
  BY DEF PopReadPrev, recordVars
<1>2. TypeOK /\ PushInv(t) /\ PopInv(t)
  BY DEF IInv, ThreadInv
<1>3. hsb[t] = <<>> /\ Protects(t, 0, old[t]) /\ node[t] = NULL
  BY <1>1, <1>2 DEF PushInv, PopInv, PrivateLabels
<1>4. old[t] \in Nodes /\ prev[old[t]] \in Nodes \cup {NULL}
  BY <1>2, <1>3 DEF Protects, TypeOK
<1>5. CASE prev[old[t]] = NULL
  <2>1. /\ pc' = [pc EXCEPT ![t] = "idle"] /\ Announce(t, <<<<0, NULL>>>>)
        /\ node' = [node EXCEPT ![t] = NULL] /\ old' = [old EXCEPT ![t] = NULL]
        /\ prv' = [prv EXCEPT ![t] = NULL] /\ ret' = [ret EXCEPT ![t] = NULL]
    BY <1>1, <1>5 DEF ReturnTo, Goto
  <2>2. node' = node
    BY <1>2, <1>3, <2>1 DEF TypeOK
  <2>3. /\ hsb' \in [Threads -> Seq((0 .. K - 1) \X (Nodes \cup {NULL}))]
        /\ \A u \in Threads \ {t} : hsb'[u] = hsb[u]
    BY <1>2, <2>1, AnnounceType
  <2>4. TypeOK'
    BY <1>1, <1>2, <2>1, <2>2, <2>3
       DEF TypeOK, HazardTypeOK, Labels, nodeVars, history, scanVars
  <2>5. /\ pc'[t] = "idle"
        /\ \A u \in Threads \ {t} : old'[u] = old[u] /\ prv'[u] = prv[u] /\ ret'[u] = ret[u]
    BY <1>2, <2>1 DEF TypeOK
  <2>6. ThreadInv(t)'
    BY <1>3, <2>2, <2>5 DEF ThreadInv, PushInv, PopInv, PrivateLabels
  <2> QED
    BY <1>1, <2>1, <2>2, <2>3, <2>4, <2>5, <2>6, LocalStep DEF Labels, Destroying, PrivateLabels
<1>6. CASE prev[old[t]] # NULL
  <2> DEFINE p == prev[old[t]]
  <2>1. /\ pc' = [pc EXCEPT ![t] = "pop_check2"] /\ Announce(t, <<<<1, p>>>>)
        /\ prv' = [prv EXCEPT ![t] = p] /\ UNCHANGED <<node, old, ret>> /\ p \in Nodes
    BY <1>1, <1>4, <1>6 DEF Goto
  <2> HIDE DEF p
  <2>2. /\ hsb' \in [Threads -> Seq((0 .. K - 1) \X (Nodes \cup {NULL}))]
        /\ hsb'[t] = hsb[t] \o <<<<1, p>>>>
        /\ \A u \in Threads \ {t} : hsb'[u] = hsb[u]
    BY <1>2, <2>1, AnnounceType
  <2>3. hsb'[t] = <<<<1, p>>>>
    BY <1>3, <2>2
  <2>4. /\ pc'[t] = "pop_check2" /\ prv'[t] = p
        /\ \A u \in Threads \ {t} : prv'[u] = prv[u] /\ pc'[u] = pc[u]
    BY <1>2, <2>1 DEF TypeOK
  <2>5. TypeOK'
    BY <1>1, <1>2, <2>1, <2>2, <2>4
       DEF TypeOK, HazardTypeOK, Labels, nodeVars, history, scanVars
  <2>6. Protects(t, 0, old[t])'
    BY <1>1, <1>3, <2>1, SecuritySame DEF Protects, SecurityKept
  <2>7. ThreadInv(t)'
    BY <1>1, <1>3, <2>1, <2>3, <2>4, <2>6
       DEF ThreadInv, PushInv, PopInv, PrivateLabels, nodeVars, p
  <2> QED
    BY <1>1, <2>1, <2>2, <2>4, <2>5, <2>7, LocalStep DEF Labels, Destroying, PrivateLabels
<1> QED
  BY <1>5, <1>6

\* The link of the head is that of the chain, and the node it leads to has the value
\* that is due.
LEMMA Successor ==
    ASSUME TypeOK, InService, NEW c \in [Nat -> Nodes], NEW lo \in Nat, Queue(c, lo),
           prev[head] # NULL
    PROVE  /\ lo \in Nat /\ lo = Len(popped) /\ lo < Last /\ head = c[lo]
           /\ prev[head] = c[lo + 1] /\ lo + 1 \in lo .. Last
           /\ value[prev[head]] = pushed[lo + 1]
<1>1. head = c[lo] /\ lo <= Last /\ lo = Len(popped)
  BY DEF Queue, Chain, InService
<1>2. lo # Last
  BY <1>1 DEF Queue, Chain
<1>3. lo < Last /\ lo \in lo .. Last - 1 /\ lo + 1 \in lo + 1 .. Last /\ lo + 1 \in lo .. Last
  BY <1>1, <1>2, LastType
<1>4. prev[c[lo]] = c[lo + 1]
  BY <1>1, <1>3 DEF Queue, Chain, LinksAt
<1> QED
  BY <1>1, <1>3, <1>4 DEF Queue

LEMMA PopCheckAgainInv ==
    ASSUME Fenced, IInv, NEW t \in Threads, PopCheckAgain(t)
    PROVE  IInv'
<1>1. /\ pc[t] = "pop_check2" /\ BarrierPassed(t)
      /\ pc' = [pc EXCEPT ![t] = IF old[t] = head THEN "pop_value" ELSE "pop_head"]
      /\ UNCHANGED <<hazardVars, nodeVars, node, old, prv, ret, history>>
  BY DEF PopCheckAgain, Goto
<1>2. UNCHANGED <<records, threshold, hp, hsb, retired, scanVars, free>>
  BY <1>1 DEF hazardVars, recordVars
<1>3. CASE old[t] = head
  <2>1. TypeOK /\ pc' = [pc EXCEPT ![t] = "pop_value"]
    BY <1>1, <1>3 DEF IInv
  <2>2. TypeOK' /\ pc'[t] = "pop_value"
    BY <1>1, <1>2, <2>1 DEF TypeOK, HazardTypeOK, Labels, nodeVars, history, scanVars
  <2>3. ThreadInv(t)'
    <3>1. PushInv(t) /\ PopInv(t)
      BY DEF IInv, ThreadInv
    <3>2. hsb[t] = <<>> /\ hp[t][1] = prv[t] /\ prev[old[t]] = prv[t] /\ Protects(t, 0, old[t])
      <4>1. Fenced => hsb[t] = <<>>
        BY <1>1 DEF BarrierPassed, Drained
      <4>2. hsb[t] # <<<<1, prv[t]>>>>
        BY <4>1
      <4> QED
        BY <1>1, <3>1, <4>1, <4>2 DEF PopInv
    <3>3. prv[t] \in Nodes /\ Secure(t, 1, prv[t])
      <4>1. InService
        BY <1>1 DEF IInv, DestroyInv, Destroying
      <4>2. prv[t] \in Nodes /\ prv[t] # NULL
        BY <1>1, <2>1, NodesAssumption DEF TypeOK
      <4>3. PICK c \in [Nat -> Nodes], lo \in Nat : Queue(c, lo)
        BY DEF IInv
      <4>4. prv[t] = c[lo + 1] /\ lo + 1 \in lo .. Last
        BY <1>3, <2>1, <3>2, <4>1, <4>2, <4>3, Successor
      <4> QED
        BY <2>1, <4>2, <4>3, <4>4, Safe
    <3>4. Protects(t, 0, old[t])' /\ Protects(t, 1, prv[t])'
      BY <1>1, <1>2, <3>2, <3>3, SecuritySame DEF Protects, SecurityKept
    <3> QED
      BY <1>1, <1>2, <2>2, <3>1, <3>2, <3>4
         DEF ThreadInv, PushInv, PopInv, PrivateLabels, nodeVars
  <2> QED
    BY <1>1, <1>2, <2>1, <2>2, <2>3, LocalStep DEF Labels, Destroying, PrivateLabels
<1>4. CASE old[t] # head
  BY <1>1, <1>4, PopAgainInv
<1> QED
  BY <1>3, <1>4

LEMMA PopReadValueInv ==
    ASSUME IInv, NEW t \in Threads, PopReadValue(t)
    PROVE  IInv'
<1>1. /\ pc[t] = "pop_value" /\ pc' = [pc EXCEPT ![t] = "pop_cas"]
      /\ ret' = [ret EXCEPT ![t] = value[prv[t]]]
      /\ UNCHANGED <<hazardVars, nodeVars, node, old, prv, history>>
  BY DEF PopReadValue, Goto
<1>2. UNCHANGED <<records, threshold, hp, hsb, retired, scanVars, free>>
  BY <1>1 DEF hazardVars, recordVars
<1>3. TypeOK /\ prv[t] \in Nodes
  BY <1>1 DEF IInv, TypeOK
<1>4. value[prv[t]] \in Items \cup {NULL}
  BY <1>3 DEF TypeOK
<1>5. TypeOK'
  BY <1>1, <1>2, <1>3, <1>4 DEF TypeOK, HazardTypeOK, Labels, nodeVars, history, scanVars
<1>6. /\ pc'[t] = "pop_cas" /\ ret'[t] = value[prv[t]]
      /\ \A u \in Threads \ {t} : ret'[u] = ret[u]
  BY <1>1, <1>3 DEF TypeOK
<1>7. ThreadInv(t)'
  <2>1. PushInv(t) /\ PopInv(t)
    BY DEF IInv, ThreadInv
  <2>2. Protects(t, 0, old[t])' /\ Protects(t, 1, prv[t])'
    BY <1>1, <1>2, <2>1, SecuritySame DEF PopInv, Protects, SecurityKept
  <2> QED
    BY <1>1, <1>2, <1>6, <2>1, <2>2
       DEF ThreadInv, PushInv, PopInv, PrivateLabels, nodeVars
<1> QED
  BY <1>1, <1>2, <1>5, <1>6, <1>7, LocalStep DEF Labels, Destroying, PrivateLabels

-----------------------------------------------------------------------------
(* The steps that write.                                                   *)

\* The node comes from the callers.
LEMMA PushCallInv ==
    ASSUME IInv, NEW t \in Threads, NEW n \in Nodes, NEW v \in Items, PushCall(t, n, v)
    PROVE  IInv'
<1>1. /\ pc[t] = "idle" /\ InService /\ n \in free
      /\ free' = free \ {n} /\ pc' = [pc EXCEPT ![t] = "push_tail"]
      /\ value' = [value EXCEPT ![n] = v] /\ prev' = [prev EXCEPT ![n] = NULL]
      /\ node' = [node EXCEPT ![t] = n]
      /\ UNCHANGED <<records, threshold, hp, hsb, retired, scanVars, head, tail, old, prv, ret, history>>
  BY DEF PushCall, Goto, recordVars
<1>2. TypeOK
  BY DEF IInv
<1>3. TypeOK'
  BY <1>1, <1>2 DEF TypeOK, HazardTypeOK, Labels, history, scanVars
<1>4. /\ pc'[t] = "push_tail" /\ node'[t] = n /\ n # NULL
      /\ \A u \in Threads \ {t} : pc'[u] = pc[u] /\ node'[u] = node[u]
      /\ \A m \in Nodes \ {n} : value'[m] = value[m] /\ prev'[m] = prev[m]
      /\ value'[n] = v /\ prev'[n] = NULL
      /\ pushed' = pushed /\ popped' = popped
  BY <1>1, <1>2, Constants DEF TypeOK, history
<1>5. PICK c \in [Nat -> Nodes], lo \in Nat : Queue(c, lo)
  BY DEF IInv
<1>6. Last' = Last /\ Last \in Nat
  BY <1>2, <1>4, LastType DEF Last
<1>7. ASSUME NEW j \in lo .. Last
      PROVE  c[j] \in Nodes \ {n} /\ value'[c[j]] = value[c[j]] /\ prev'[c[j]] = prev[c[j]]
  <2>1. c[j] \in Nodes /\ c[j] \notin free
    BY <1>2, <1>5, Safe DEF Secure
  <2> QED
    BY <1>1, <1>4, <2>1
<1>8. Chain(c, lo)'
  <2>1. Chain(c, lo)
    BY <1>5 DEF Queue
  <2>2. \A j \in lo .. Last - 1, u \in Threads : LinksAt(u, c, j) => LinksAt(u, c, j)'
    <3> SUFFICES ASSUME NEW j \in lo .. Last - 1, NEW u \in Threads, LinksAt(u, c, j)
                 PROVE  LinksAt(u, c, j)'
      OBVIOUS
    <3>1. j \in lo .. Last /\ u # t
      BY <1>1, <1>6 DEF LinksAt
    <3> QED
      BY <1>1, <1>4, <1>7, <3>1 DEF LinksAt
  <2>3. \A u \in Threads : pc'[u] = "push_link" => pc[u] = "push_link"
    BY <1>4
  <2>4. \A j \in lo .. Last - 1 : prev'[c[j]] = prev[c[j]]
    BY <1>6, <1>7
  <2>5. lo <= Last => prev'[c[Last]] = prev[c[Last]]
    BY <1>6, <1>7
  <2> QED
    BY <1>1, <1>6, <2>1, <2>2, <2>3, <2>4, <2>5 DEF Chain
<1>9. Partition(ChainNodes(c, lo))'
  <2> DEFINE Q == ChainNodes(c, lo)
  <2>1. Partition(Q) /\ Q' = Q
    BY <1>4, <1>5, ChainNodesKept DEF Queue
  <2>2. PICK S : S = Q
    OBVIOUS
  <2>3. Partition(S)
    BY <2>1, <2>2
  <2>4. /\ Private(t) = {} /\ Private(t)' = {n} /\ Held(t)' = Held(t) \cup {n}
        /\ \A u \in Threads \ {t} : Private(u)' = Private(u) /\ Held(u)' = Held(u)
        /\ retired' = retired /\ free' = free \ {n} /\ n \in free
    BY <1>1, <1>4 DEF Private, PrivateLabels, Held
  <2>5. Partition(S)'
    <3>1. \A u \in Threads : n \notin Held(u) /\ n \notin S
      BY <1>1, <2>3 DEF Partition
    <3>2. n \notin retired[t]
      BY <3>1 DEF Held
    <3>3. \A u \in Threads : (Private(u) \cap retired[u] = {})'
      BY <2>3, <2>4, <3>2 DEF Partition
    <3>4. \A u \in Threads : (Held(u) \cap (S \cup free) = {})'
      BY <2>3, <2>4, <3>1 DEF Partition
    <3>5. \A u, w \in Threads : u # w => (Held(u) \cap Held(w) = {})'
      BY <2>3, <2>4, <3>1 DEF Partition
    <3>6. \A m \in Nodes : m \in S \cup free' \/ \E u \in Threads : m \in Held(u)'
      BY <2>3, <2>4 DEF Partition
    <3>7. S \cap free' = {}
      BY <2>3, <2>4 DEF Partition
    <3> QED
      BY <3>3, <3>4, <3>5, <3>6, <3>7 DEF Partition
  <2> QED
    BY <2>1, <2>2, <2>5
<1>10. InService /\ InService' /\ DestroyInv'
  BY <1>1, <1>4 DEF InService, DestroyInv
<1>11. Queue(c, lo)'
  <2>1. \A j \in lo + 1 .. Last : value'[c[j]] = value[c[j]]
    BY <1>6, <1>7
  <2> QED
    BY <1>4, <1>5, <1>6, <1>8, <1>9, <1>10, <2>1 DEF Queue
<1>12. OwnNodes'
  <2>1. ASSUME NEW u \in Threads, u # t, node[u] # NULL PROVE node[u] # n
    <3>1. pc[u] \in PrivateLabels \cup {"push_link"}
      BY <2>1 DEF IInv, ThreadInv, PushInv
    <3>2. CASE pc[u] \in PrivateLabels
      BY <1>1, <1>5, <3>2 DEF Queue, Partition, Held, Private
    <3>3. CASE pc[u] = "push_link"
      <4>1. PICK j \in lo .. Last - 1 : LinksAt(u, c, j)
        BY <1>5, <3>3 DEF Queue, Chain
      <4>2. j + 1 \in lo .. Last /\ node[u] = c[j + 1]
        BY <1>6, <4>1 DEF LinksAt
      <4> QED
        BY <1>7, <4>2
    <3> QED
      BY <3>1, <3>2, <3>3
  <2> QED
    BY <1>4, <2>1 DEF IInv, OwnNodes
<1>13. ASSUME NEW u \in Threads PROVE ThreadInv(u)'
  <2>1. CASE u = t
    <3>1. PrivateLabels = {"push_tail", "push_check", "push_cas"}
      BY DEF PrivateLabels
    <3> QED
      BY <1>4, <2>1, <3>1 DEF ThreadInv, PushInv, PopInv
  <2>2. CASE u # t
    <3>1. NodesKept
      BY <1>1, <1>4 DEF NodesKept
    <3>2. SecurityKept(u)
      <4>1. UNCHANGED <<walk, max_pointers, plist, retired>>
        BY <1>1 DEF scanVars
      <4> QED
        BY <1>1, <4>1 DEF SecurityKept, Secure, Covered, In
    <3>3. pc[u] \in PrivateLabels => node[u] \in Nodes \ {n}
      <4>1. pc[u] \in PrivateLabels => node[u] # n
        BY <1>1, <1>5 DEF Queue, Partition, Held, Private
      <4>2. pc[u] \in PrivateLabels => node[u] \in Nodes
        BY <1>2, <2>2 DEF IInv, ThreadInv, PushInv, TypeOK
      <4> QED
        BY <4>1, <4>2
    <3>4. UNCHANGED <<pc[u], node[u], old[u], prv[u], ret[u], hsb[u], hp[u]>>
      BY <1>1, <1>4, <2>2
    <3> QED
      BY <1>2, <1>4, <3>1, <3>2, <3>3, <3>4, ThreadKept DEF IInv
  <2> QED
    BY <2>1, <2>2
<1>14. ScanInv'
  BY <1>1, <1>4, ScanInvKept DEF IInv
<1>15. records' = Records /\ FifoOrder'
  BY <1>1, <1>4 DEF IInv, FifoOrder
<1> QED
  BY <1>3, <1>10, <1>11, <1>12, <1>13, <1>14, <1>15 DEF IInv

\* A node of a thread's own becomes the last one of the fifo.
LEMMA PushSucceeds ==
    ASSUME IInv, NEW t \in Threads, pc[t] = "push_cas", tail = old[t], tail' = node[t],
           pushed' = Append(pushed, value[node[t]]), pc' = [pc EXCEPT ![t] = "push_link"],
           UNCHANGED <<hazardVars, head, prev, value, node, old, prv, ret, popped>>
    PROVE  IInv'
<1>0. PICK x, L : x = node[t] /\ L = Last
  OBVIOUS
<1>1. UNCHANGED <<records, threshold, hp, hsb, retired, scanVars, free>>
  BY DEF hazardVars, recordVars
<1>2. TypeOK /\ PushInv(t) /\ InService
  BY DEF IInv, ThreadInv, DestroyInv, Destroying
<1>3. x \in Nodes /\ prev[x] = NULL /\ value[x] \in Items
  BY <1>0, <1>2 DEF PushInv, PrivateLabels, TypeOK
<1>4. TypeOK'
  <2>1. pushed' \in Seq(Items)
    BY <1>0, <1>2, <1>3 DEF TypeOK
  <2>2. tail' \in Nodes
    BY <1>0, <1>3
  <2> QED
  BY <1>1, <1>2, <2>1, <2>2 DEF TypeOK, HazardTypeOK, Labels, scanVars
<1>5. pc'[t] = "push_link" /\ \A u \in Threads \ {t} : pc'[u] = pc[u]
  BY <1>2 DEF TypeOK
<1>6. PICK c \in [Nat -> Nodes], lo \in Nat : Queue(c, lo)
  BY DEF IInv
<1>7. /\ L \in Nat /\ Last = L /\ Last' = L + 1 /\ lo <= L
      /\ pushed'[L + 1] = value[x] /\ \A j \in 1 .. L : pushed'[j] = pushed[j]
  <2>1. pushed \in Seq(Items)
    BY <1>2 DEF TypeOK
  <2>2. lo <= L
    BY <1>0, <1>2, <1>6 DEF Queue, Chain, InService
  <2>3. L = Len(pushed) /\ Last' = Len(pushed')
    BY <1>0 DEF Last
  <2> QED
    BY <1>0, <1>3, <2>1, <2>2, <2>3
<1>8. PICK d \in [Nat -> Nodes] :
          d[L + 1] = x /\ \A j \in Nat : j # L + 1 => d[j] = c[j]
  <2>1. [c EXCEPT ![L + 1] = x] \in [Nat -> Nodes] /\ L + 1 \in Nat
    BY <1>3, <1>7
  <2> QED
    BY <1>7, <2>1
<1>9. \A j \in lo .. L : d[j] = c[j] /\ c[j] # x /\ j \in Nat
  <2>1. \A j \in lo .. L : d[j] = c[j] /\ j \in Nat
    BY <1>7, <1>8
  <2>2. Held(t) \cap ChainNodes(c, lo) = {} /\ x \in Held(t)
    BY <1>0, <1>6 DEF Queue, Partition, Held, Private, PrivateLabels
  <2> QED
    BY <1>0, <2>1, <2>2 DEF ChainNodes
<1>10. Chain(d, lo)'
  <2>1. Chain(c, lo)
    BY <1>6 DEF Queue
  <2>2. \A i, j \in lo .. L + 1 : d[i] = d[j] => i = j
    <3> TAKE i, j \in lo .. L + 1
    <3>1. CASE i \in lo .. L /\ j \in lo .. L
      BY <1>0, <1>9, <2>1, <3>1 DEF Chain
    <3>2. CASE i = L + 1 /\ j \in lo .. L
      BY <1>8, <1>9, <3>2
    <3>3. CASE i \in lo .. L /\ j = L + 1
      BY <1>8, <1>9, <3>3
    <3> QED
      BY <1>7, <3>1, <3>2, <3>3
  <2>3. head' = IF lo <= L + 1 THEN d[lo] ELSE NULL
    BY <1>7, <1>9, <2>1 DEF Chain
  <2>4. tail' = d[L + 1] /\ prev'[d[L + 1]] = NULL
    BY <1>0, <1>3, <1>8
  <2>5. ASSUME NEW j \in lo .. L - 1, NEW u \in Threads, LinksAt(u, c, j)
        PROVE  LinksAt(u, d, j)'
    <3>1. d[j] = c[j] /\ d[j + 1] = c[j + 1] /\ u # t
      BY <1>7, <1>9, <2>5 DEF LinksAt
    <3> QED
      BY <1>5, <2>5, <3>1 DEF LinksAt
  <2>6. LinksAt(t, d, L)'
    <3>1. d[L] = c[L] /\ d[L + 1] = node[t] /\ old[t] = c[L] /\ prev[c[L]] = NULL
      BY <1>0, <1>7, <1>8, <1>9, <2>1 DEF Chain
    <3> QED
      BY <1>5, <3>1 DEF LinksAt
  <2>7. ASSUME NEW j \in lo .. L
        PROVE  prev'[d[j]] = d[j + 1] \/ \E u \in Threads : LinksAt(u, d, j)'
    <3>1. CASE j = L
      BY <2>6, <3>1
    <3>2. CASE j \in lo .. L - 1
      <4>1. d[j] = c[j] /\ d[j + 1] = c[j + 1]
        BY <1>7, <1>9, <3>2
      <4>2. CASE prev[c[j]] = c[j + 1]
        BY <4>1, <4>2
      <4>3. CASE prev[c[j]] # c[j + 1]
        BY <1>0, <2>1, <2>5, <3>2, <4>3 DEF Chain
      <4> QED
        BY <4>2, <4>3
    <3> QED
      BY <1>7, <3>1, <3>2
  <2>8. ASSUME NEW u \in Threads, pc'[u] = "push_link"
        PROVE  \E j \in lo .. L : LinksAt(u, d, j)'
    <3>1. CASE u = t
      BY <1>7, <2>6, <3>1
    <3>2. CASE u # t
      <4>1. PICK j \in lo .. L - 1 : LinksAt(u, c, j)
        BY <1>0, <1>5, <2>1, <2>8, <3>2 DEF Chain
      <4> QED
        BY <1>7, <2>5, <4>1
    <3> QED
      BY <3>1, <3>2
  <2>9. (L + 1) - 1 = L
    BY <1>7
  <2> QED
    BY <1>7, <2>2, <2>3, <2>4, <2>7, <2>8, <2>9 DEF Chain
<1>11. Partition(ChainNodes(d, lo))'
  <2>1. PICK S : S = ChainNodes(c, lo)
    OBVIOUS
  <2>2. ChainNodes(d, lo)' = S \cup {x}
    <3>1. ChainNodes(d, lo)' = {d[j] : j \in lo .. L + 1}
      BY <1>7 DEF ChainNodes
    <3>2. \A j \in lo .. L + 1 : j \in lo .. L \/ j = L + 1
      BY <1>7
    <3>3. \A j \in lo .. L : j \in lo .. L + 1
      BY <1>7
    <3>4. L + 1 \in lo .. L + 1
      BY <1>7
    <3>5. S = {c[j] : j \in lo .. L}
      BY <1>0, <2>1 DEF ChainNodes
    <3>6. ASSUME NEW m \in ChainNodes(d, lo)' PROVE m \in S \cup {x}
      BY <1>8, <1>9, <3>1, <3>2, <3>5
    <3>7. ASSUME NEW m \in S PROVE m \in ChainNodes(d, lo)'
      BY <1>9, <3>1, <3>3, <3>5
    <3>8. x \in ChainNodes(d, lo)'
      BY <1>8, <3>1, <3>4
    <3> QED
      BY <3>6, <3>7, <3>8
  <2>3. Partition(S)
    BY <1>6, <2>1 DEF Queue
  <2>4. /\ Private(t) = {x} /\ Private(t)' = {} /\ Held(t)' = retired[t]
        /\ Held(t) = retired[t] \cup {x}
        /\ \A u \in Threads \ {t} : Private(u)' = Private(u) /\ Held(u)' = Held(u)
        /\ retired' = retired /\ free' = free
    BY <1>0, <1>1, <1>5 DEF Private, PrivateLabels, Held
  <2>5. Partition(S \cup {x})'
    <3>1. x \notin retired[t] /\ x \notin free /\ \A u \in Threads \ {t} : x \notin Held(u)
      BY <2>3, <2>4 DEF Partition
    <3>2. \A u \in Threads : (Private(u) \cap retired[u] = {})'
      BY <2>3, <2>4 DEF Partition
    <3>3. \A u \in Threads : (Held(u) \cap (S \cup {x} \cup free) = {})'
      BY <2>3, <2>4, <3>1 DEF Partition
    <3>4. \A u, w \in Threads : u # w => (Held(u) \cap Held(w) = {})'
      BY <2>3, <2>4 DEF Partition
    <3>5. \A m \in Nodes : m \in S \cup {x} \cup free' \/ \E u \in Threads : m \in Held(u)'
      BY <2>3, <2>4 DEF Partition
    <3>6. (S \cup {x}) \cap free' = {}
      BY <2>3, <2>4, <3>1 DEF Partition
    <3> QED
      BY <3>2, <3>3, <3>4, <3>5, <3>6 DEF Partition
  <2> QED
    BY <2>2, <2>5
<1>12. InService /\ InService' /\ DestroyInv'
  BY <1>2, <1>5 DEF InService, DestroyInv
<1>13. Queue(d, lo)'
  <2>1. lo = Len(popped) /\ \A j \in lo + 1 .. L : value[c[j]] = pushed[j]
    BY <1>0, <1>2, <1>6 DEF Queue
  <2>2. \A j \in lo + 1 .. L + 1 : value[d[j]] = pushed'[j]
    <3> TAKE j \in lo + 1 .. L + 1
    <3>1. CASE j = L + 1
      BY <1>7, <1>8, <3>1
    <3>2. CASE j \in lo + 1 .. L
      <4>1. j \in lo .. L /\ j \in 1 .. L
        BY <1>7, <3>2
      <4> QED
        BY <1>7, <1>9, <2>1, <3>2, <4>1
    <3>3. L \in Nat /\ lo \in Nat
      BY <1>7
    <3>4. j = L + 1 \/ j \in lo + 1 .. L
      BY <3>3
    <3> QED
      BY <3>1, <3>2, <3>4
  <2> QED
    BY <1>7, <1>10, <1>11, <1>12, <2>1, <2>2 DEF Queue
<1>14. FifoOrder'
  <2>1. FifoOrder /\ Len(popped) \in Nat
    BY <1>2, LastType DEF IInv
  <2>2. Len(popped) <= L /\ \A i \in 1 .. Len(popped) : popped[i] = pushed[i]
    BY <1>0, <2>1 DEF FifoOrder, Last
  <2>3. \A i \in 1 .. Len(popped) : i \in 1 .. L
    BY <1>7, <2>1, <2>2
  <2>4. \A i \in 1 .. Len(popped) : popped[i] = pushed'[i]
    BY <1>7, <2>2, <2>3
  <2>5. Len(popped) <= L + 1 /\ Len(pushed') = L + 1
    <3>1. L \in Nat /\ Len(pushed') = L + 1
      BY <1>7 DEF Last
    <3> QED
      BY <2>1, <2>2, <3>1
  <2> QED
    BY <2>4, <2>5 DEF FifoOrder
<1>15. ASSUME NEW u \in Threads PROVE ThreadInv(u)'
  <2>1. SecurityKept(u)
    BY <1>1, SecuritySame
  <2>2. CASE u = t
    <3>1. Protects(t, 0, old[t])'
      BY <1>1, <1>2, <2>1, <2>2 DEF PushInv, Protects, SecurityKept
    <3> QED
      BY <1>1, <1>2, <1>5, <2>2, <3>1 DEF ThreadInv, PushInv, PopInv, PrivateLabels
  <2>3. CASE u # t
    BY <1>1, <1>2, <1>5, <2>1, <2>3, ThreadKept DEF IInv, NodesKept
  <2> QED
    BY <2>2, <2>3
<1>16. ScanInv'
  BY <1>1, <1>5, ScanInvKept DEF IInv
<1>17. records' = Records /\ OwnNodes'
  BY <1>1 DEF IInv, OwnNodes
<1> QED
  BY <1>4, <1>12, <1>13, <1>14, <1>15, <1>16, <1>17 DEF IInv

LEMMA PushCASInv ==
    ASSUME IInv, NEW t \in Threads, PushCAS(t)
    PROVE  IInv'
<1>1. CASE tail = old[t]
  BY <1>1, PushSucceeds DEF PushCAS, Goto
<1>2. CASE tail # old[t]
  BY <1>2, PushCASFailsInv DEF PushCAS, Goto, nodeVars, history
<1> QED
  BY <1>1, <1>2

\* The missing link of the chain.
LEMMA PushLinkInv ==
    ASSUME IInv, NEW t \in Threads, PushLink(t)
    PROVE  IInv'
<1>1. /\ pc[t] = "push_link" /\ pc' = [pc EXCEPT ![t] = "idle"]
      /\ prev' = [prev EXCEPT ![old[t]] = node[t]] /\ Announce(t, <<<<0, NULL>>>>)
      /\ node' = [node EXCEPT ![t] = NULL] /\ old' = [old EXCEPT ![t] = NULL]
      /\ prv' = [prv EXCEPT ![t] = NULL] /\ ret' = [ret EXCEPT ![t] = NULL]
      /\ UNCHANGED <<records, threshold, hp, retired, scanVars, free, head, tail, value, pushed, popped>>
  BY DEF PushLink, ReturnTo, Goto, recordVars, history
<1>2. TypeOK /\ PushInv(t) /\ OwnNodes
  BY DEF IInv, ThreadInv
<1>3. InService
  BY <1>1 DEF IInv, DestroyInv, Destroying
<1>4. /\ node[t] \in Nodes /\ old[t] \in Nodes
      /\ \A m \in Nodes : prev'[m] = IF m = old[t] THEN node[t] ELSE prev[m]
  <2>1. node[t] \in Nodes /\ old[t] \in Nodes
    BY <1>1, <1>2 DEF PushInv, TypeOK, Protects
  <2> QED
    BY <1>1, <1>2, <2>1 DEF TypeOK
<1>5. /\ hsb' \in [Threads -> Seq((0 .. K - 1) \X (Nodes \cup {NULL}))]
      /\ \A u \in Threads \ {t} : hsb'[u] = hsb[u]
  BY <1>1, <1>2, AnnounceType
<1>6. /\ pc'[t] = "idle" /\ node'[t] = NULL
      /\ \A u \in Threads \ {t} : UNCHANGED <<pc[u], node[u], old[u], prv[u], ret[u]>>
  BY <1>1, <1>2 DEF TypeOK
<1>7. TypeOK'
  <2>1. HazardTypeOK'
    BY <1>1, <1>2, <1>5 DEF TypeOK, HazardTypeOK, scanVars
  <2>2. prev' \in [Nodes -> Nodes \cup {NULL}]
    BY <1>1, <1>2, <1>4 DEF TypeOK
  <2>3. /\ pc' \in [Threads -> Labels] /\ node' \in [Threads -> Nodes \cup {NULL}]
        /\ old' \in [Threads -> Nodes \cup {NULL}]
        /\ prv' \in [Threads -> Nodes \cup {NULL}]
        /\ ret' \in [Threads -> Items \cup {NULL}]
    BY <1>1, <1>2 DEF TypeOK, Labels
  <2>4. \A u \in Threads : pc'[u] \in {"pop_check2", "pop_value", "pop_cas"} => prv'[u] \in Nodes
    BY <1>2, <1>6 DEF TypeOK
  <2> QED
    BY <1>1, <1>2, <2>1, <2>2, <2>3, <2>4 DEF TypeOK
<1>8. PICK c \in [Nat -> Nodes], lo \in Nat : Queue(c, lo)
  BY DEF IInv
<1>9. Last' = Last /\ Last \in Nat
  BY <1>1, <1>2, LastType DEF Last
<1>10. PICK k \in lo .. Last - 1 : LinksAt(t, c, k)
  BY <1>1, <1>8 DEF Queue, Chain
<1>11. /\ old[t] = c[k] /\ node[t] = c[k + 1] /\ prev[c[k]] = NULL /\ k \in lo .. Last
       /\ c[k] \in ChainNodes(c, lo)
  BY <1>9, <1>10 DEF LinksAt, ChainNodes
<1>12. ASSUME NEW j \in lo .. Last, j # k PROVE c[j] \in Nodes /\ prev'[c[j]] = prev[c[j]]
  <2>1. c[j] # c[k]
    BY <1>8, <1>11, <1>12 DEF Queue, Chain
  <2> QED
    BY <1>4, <1>9, <1>11, <2>1
<1>13. Chain(c, lo)'
  <2>1. Chain(c, lo)
    BY <1>8 DEF Queue
  <2>2. ASSUME NEW j \in lo .. Last - 1, NEW u \in Threads, u # t, LinksAt(u, c, j)
        PROVE  LinksAt(u, c, j)'
    <3>1. node[u] # node[t]
      BY <1>2, <1>4, <2>2, Constants DEF OwnNodes
    <3>2. j # k
      BY <1>11, <2>2, <3>1 DEF LinksAt
    <3>3. j \in lo .. Last
      BY <1>9
    <3> QED
      BY <1>6, <1>12, <2>2, <3>2, <3>3 DEF LinksAt
  <2>3. ASSUME NEW j \in lo .. Last - 1
        PROVE  prev'[c[j]] = c[j + 1] \/ \E u \in Threads : LinksAt(u, c, j)'
    <3>1. CASE j = k
      BY <1>4, <1>11, <3>1
    <3>2. CASE j # k
      <4>1. prev'[c[j]] = prev[c[j]]
        BY <1>9, <1>12, <3>2
      <4>2. CASE prev[c[j]] = c[j + 1]
        BY <4>1, <4>2
      <4>3. CASE prev[c[j]] # c[j + 1]
        <5>1. PICK u \in Threads : LinksAt(u, c, j)
          BY <2>1, <4>3 DEF Chain
        <5>2. u # t
          <6>1. node[u] = c[j + 1] /\ j + 1 \in lo .. Last /\ k + 1 \in lo .. Last
            BY <1>9, <5>1 DEF LinksAt
          <6> QED
            BY <1>9, <1>11, <2>1, <3>2, <6>1 DEF Chain
        <5> QED
          BY <2>2, <5>1, <5>2
      <4> QED
        BY <4>2, <4>3
    <3> QED
      BY <3>1, <3>2
  <2>4. ASSUME NEW u \in Threads, pc'[u] = "push_link"
        PROVE  \E j \in lo .. Last - 1 : LinksAt(u, c, j)'
    <3>1. u # t /\ pc[u] = "push_link"
      BY <1>6, <2>4
    <3>2. PICK j \in lo .. Last - 1 : LinksAt(u, c, j)
      BY <2>1, <3>1 DEF Chain
    <3> QED
      BY <2>2, <3>1, <3>2
  <2>5. lo <= Last => prev'[c[Last]] = NULL
    <3>1. Last # k /\ (lo <= Last => Last \in lo .. Last)
      BY <1>9
    <3> QED
      BY <1>12, <2>1, <3>1 DEF Chain
  <2> QED
    BY <1>1, <1>9, <2>1, <2>3, <2>4, <2>5 DEF Chain
<1>14. Partition(ChainNodes(c, lo))'
  <2>1. PICK S : S = ChainNodes(c, lo)
    OBVIOUS
  <2>2. ChainNodes(c, lo)' = S
    BY <1>1, <2>1, ChainNodesKept
  <2>3. Partition(S)'
    BY <1>1, <1>6, <1>8, <2>1, PartitionKept DEF Queue, PrivateLabels
  <2> QED
    BY <2>2, <2>3
<1>15. InService /\ InService' /\ DestroyInv'
  BY <1>1, <1>3, <1>6 DEF InService, DestroyInv
<1>16. Queue(c, lo)'
  BY <1>1, <1>8, <1>9, <1>13, <1>14, <1>15 DEF Queue
<1>17. ASSUME NEW u \in Threads PROVE ThreadInv(u)'
  <2>1. CASE u = t
    BY <1>6, <2>1 DEF ThreadInv, PushInv, PopInv, PrivateLabels
  <2>2. CASE u # t
    <3>1. SecurityKept(u) /\ NodesKept
      BY <1>1, <1>4, <1>11, SecuritySame DEF NodesKept
    <3>2. pc[u] \in PrivateLabels => node[u] # old[t] /\ node[u] \in Nodes
      <4>1. pc[u] \in PrivateLabels => node[u] \in Nodes
        BY <1>2 DEF IInv, ThreadInv, PushInv, TypeOK
      <4>2. pc[u] \in PrivateLabels => node[u] \notin ChainNodes(c, lo)
        BY <1>8 DEF Queue, Partition, Held, Private
      <4> QED
        BY <1>11, <4>1, <4>2
    <3>3. UNCHANGED <<pc[u], node[u], old[u], prv[u], ret[u], hsb[u], hp[u]>>
      BY <1>1, <1>5, <1>6, <2>2
    <3> QED
      BY <1>1, <1>2, <1>4, <3>1, <3>2, <3>3, ThreadKept DEF IInv
  <2> QED
    BY <2>1, <2>2
<1>18. ScanInv'
  BY <1>1, <1>6, ScanInvKept DEF IInv
<1>19. records' = Records /\ FifoOrder' /\ OwnNodes'
  BY <1>1, <1>6 DEF IInv, FifoOrder, OwnNodes
<1> QED
  BY <1>7, <1>15, <1>16, <1>17, <1>18, <1>19 DEF IInv

\* The head leaves the fifo for the retired list of a thread.
LEMMA HeadLeaves ==
    ASSUME TypeOK, NEW c \in [Nat -> Nodes], NEW lo \in Nat, Queue(c, lo),
           head # NULL, head' = prev[head],
           prev[head] # NULL \/ \A u \in Threads : pc[u] # "push_link",
           NEW t \in Threads, NEW label \in Labels \ (PrivateLabels \cup {"push_link"}),
           pc[t] \notin PrivateLabels \cup {"push_link"}, pc' = [pc EXCEPT ![t] = label],
           retired' = [retired EXCEPT ![t] = retired[t] \cup {head}],
           UNCHANGED <<tail, prev, pushed, free>>,
           \A u \in Threads \ {t} : UNCHANGED <<node[u], old[u]>>
    PROVE  Chain(c, lo + 1)' /\ Partition(ChainNodes(c, lo + 1))'
<1>1. Last' = Last /\ Last \in Nat
  BY LastType DEF Last
<1>2. Chain(c, lo) /\ head = c[lo] /\ lo \in lo .. Last /\ lo <= Last
  BY <1>1 DEF Queue, Chain
<1>3. \A u \in Threads : ~LinksAt(u, c, lo)
  BY <1>2 DEF LinksAt
<1>4. prev[head] = IF lo + 1 <= Last THEN c[lo + 1] ELSE NULL
  <2>1. CASE lo = Last
    BY <1>1, <1>2, <2>1 DEF Chain
  <2>2. CASE lo < Last
    <3>1. lo \in lo .. Last - 1
      BY <1>1, <2>2
    <3> QED
      BY <1>1, <1>2, <1>3, <2>2, <3>1 DEF Chain
  <2> QED
    BY <1>1, <1>2, <2>1, <2>2
<1>5. pc'[t] = label /\ \A u \in Threads \ {t} : pc'[u] = pc[u]
  BY DEF TypeOK
<1>6. Chain(c, lo + 1)'
  <2>1. \A j, u : u \in Threads /\ LinksAt(u, c, j) => LinksAt(u, c, j)'
    BY <1>5 DEF LinksAt
  <2>2. \A j \in lo + 1 .. Last : j \in lo .. Last
    BY <1>1
  <2>3. \A i, j \in lo + 1 .. Last : c[i] = c[j] => i = j
    BY <1>2, <2>2 DEF Chain
  <2>4. ASSUME NEW j \in lo + 1 .. Last - 1
        PROVE  prev'[c[j]] = c[j + 1] \/ \E u \in Threads : LinksAt(u, c, j)'
    <3>1. j \in lo .. Last - 1
      BY <1>1
    <3> QED
      BY <1>2, <2>1, <3>1 DEF Chain
  <2>5. ASSUME NEW u \in Threads, pc'[u] = "push_link"
        PROVE  \E j \in lo + 1 .. Last - 1 : LinksAt(u, c, j)'
    <3>1. u # t /\ pc[u] = "push_link"
      BY <1>5, <2>5
    <3>2. PICK j \in lo .. Last - 1 : LinksAt(u, c, j)
      BY <1>2, <3>1 DEF Chain
    <3>3. j # lo
      BY <1>3, <3>2
    <3>4. j \in lo + 1 .. Last - 1
      BY <1>1, <3>3
    <3> QED
      BY <2>1, <3>2, <3>4
  <2>6. lo + 1 <= Last => prev'[c[Last]] = NULL
    BY <1>2 DEF Chain
  <2> QED
    BY <1>1, <1>2, <1>4, <2>3, <2>4, <2>5, <2>6 DEF Chain
<1>7. Partition(ChainNodes(c, lo + 1))'
  <2>1. PICK S, x : S = ChainNodes(c, lo) /\ x = head
    OBVIOUS
  <2>2. ChainNodes(c, lo + 1)' = S \ {x} /\ x \in S
    <3>1. ChainNodes(c, lo + 1)' = {c[j] : j \in lo + 1 .. Last} /\ S = {c[j] : j \in lo .. Last}
      BY <1>1, <2>1 DEF ChainNodes
    <3>2. \A j \in lo .. Last : j = lo \/ j \in lo + 1 .. Last
      BY <1>1
    <3>3. \A j \in lo + 1 .. Last : j \in lo .. Last /\ j # lo
      BY <1>1
    <3>4. \A j \in lo + 1 .. Last : c[j] # c[lo]
      BY <1>2, <3>3 DEF Chain
    <3>5. ASSUME NEW m \in S \ {x} PROVE m \in ChainNodes(c, lo + 1)'
      BY <1>2, <2>1, <3>1, <3>2
    <3>6. ASSUME NEW m \in ChainNodes(c, lo + 1)' PROVE m \in S \ {x}
      BY <1>2, <2>1, <3>1, <3>3, <3>4
    <3> QED
      BY <1>2, <2>1, <3>1, <3>5, <3>6
  <2>3. Partition(S)
    BY <2>1 DEF Queue
  <2>4. /\ Private(t) = {} /\ Private(t)' = {}
        /\ Held(t) = retired[t] /\ Held(t)' = retired[t] \cup {x}
        /\ \A u \in Threads \ {t} :
              /\ Private(u)' = Private(u) /\ Held(u)' = Held(u) /\ retired'[u] = retired[u]
        /\ free' = free
    <3>1. /\ retired'[t] = retired[t] \cup {x}
          /\ \A u \in Threads \ {t} : retired'[u] = retired[u]
      BY <2>1 DEF TypeOK, HazardTypeOK
    <3> QED
      BY <1>5, <3>1 DEF Private, Held
  <2>5. Partition(S \ {x})'
    <3>1. x \notin free /\ \A u \in Threads : x \notin Held(u)
      BY <2>2, <2>3 DEF Partition
    <3>2. \A u \in Threads : (Private(u) \cap retired[u] = {})'
      BY <2>3, <2>4 DEF Partition
    <3>3. \A u \in Threads : (Held(u) \cap ((S \ {x}) \cup free) = {})'
      BY <2>3, <2>4, <3>1 DEF Partition
    <3>4. \A u, w \in Threads : u # w => (Held(u) \cap Held(w) = {})'
      BY <2>3, <2>4, <3>1 DEF Partition
    <3>5. \A m \in Nodes : m \in (S \ {x}) \cup free' \/ \E u \in Threads : m \in Held(u)'
      BY <2>3, <2>4 DEF Partition
    <3>6. (S \ {x}) \cap free' = {}
      BY <2>3, <2>4 DEF Partition
    <3> QED
      BY <3>2, <3>3, <3>4, <3>5, <3>6 DEF Partition
  <2> QED
    BY <2>2, <2>5
<1> QED
  BY <1>6, <1>7

\* What a thread retires while it does not scan is as safe as before.
LEMMA RetireSecurity ==
    ASSUME ScanInv, NEW t \in Threads, pc[t] \notin {"scan", "destroy_scan"},
           \A u \in Threads \ {t} : retired'[u] = retired[u],
           UNCHANGED <<free, scanVars>>, NEW u \in Threads
    PROVE  SecurityKept(u)
<1>1. UNCHANGED <<walk, max_pointers, plist>> /\ walk[t] = <<>> /\ max_pointers[t] = 0
  BY DEF ScanInv, scanVars
<1>2. \A k, n : Covered(t, u, k, n)'
  BY <1>1 DEF Covered
<1>3. \A w, k, n : Covered(w, u, k, n) => Covered(w, u, k, n)'
  BY <1>1 DEF Covered, In
<1> QED
  BY <1>2, <1>3 DEF SecurityKept, Secure

\* The value that is popped is the one that is due.
LEMMA PopSucceeds ==
    ASSUME IInv, NEW t \in Threads, pc[t] = "pop_cas", head = old[t], head' = prv[t],
           popped' = Append(popped, ret[t]), Announce(t, <<<<0, NULL>>, <<1, NULL>>>>),
           RetireNode(t, old[t]), NEW label \in {"scan", "idle"}, ReturnTo(t, label),
           UNCHANGED <<recordVars, hp, scanVars, free, tail, prev, value, pushed>>
    PROVE  IInv'
<1>1. /\ pc' = [pc EXCEPT ![t] = label]
      /\ node' = [node EXCEPT ![t] = NULL] /\ old' = [old EXCEPT ![t] = NULL]
      /\ prv' = [prv EXCEPT ![t] = NULL] /\ ret' = [ret EXCEPT ![t] = NULL]
      /\ retired' = [retired EXCEPT ![t] = retired[t] \cup {head}]
      /\ UNCHANGED <<records, threshold>>
  BY DEF ReturnTo, Goto, RetireNode, recordVars
<1>2. TypeOK /\ PushInv(t) /\ PopInv(t) /\ OwnNodes /\ ScanInv
  BY DEF IInv, ThreadInv
<1>3. InService
  BY DEF IInv, DestroyInv, Destroying
<1>4. prev[head] = prv[t] /\ prv[t] \in Nodes /\ prv[t] # NULL /\ ret[t] = value[prv[t]]
  BY <1>2, NodesAssumption DEF PopInv, TypeOK
<1>5. head \in Nodes
  BY <1>2, <1>3 DEF TypeOK, InService
<1>6. PICK c \in [Nat -> Nodes], lo \in Nat : Queue(c, lo)
  BY DEF IInv
<1>7. /\ lo = Len(popped) /\ lo < Last /\ ret[t] = pushed[lo + 1] /\ lo + 1 \in lo .. Last
      /\ head = c[lo]
  BY <1>2, <1>3, <1>4, <1>6, Successor
<1>8. Last' = Last /\ Last \in Nat /\ Last = Len(pushed)
  BY <1>2, LastType DEF Last
<1>9. ret[t] \in Items
  BY <1>2, <1>7, <1>8 DEF TypeOK
<1>10. /\ hsb' \in [Threads -> Seq((0 .. K - 1) \X (Nodes \cup {NULL}))]
       /\ \A u \in Threads \ {t} : hsb'[u] = hsb[u]
  <2>1. <<0, NULL>> \in Stores /\ <<1, NULL>> \in Stores
    BY DEF Stores
  <2>2. PICK e, f \in Stores : e = <<0, NULL>> /\ f = <<1, NULL>>
    BY <2>1
  <2>3. hsb \in [Threads -> Seq(Stores)]
    BY <1>2, BufferType
  <2>4. <<e, f>> \in Seq(Stores)
    OBVIOUS
  <2>5. PICK r \in Seq(Stores) : r = hsb[t] \o <<e, f>>
    <3>1. PICK s, a \in Seq(Stores) : s = hsb[t] /\ a = <<e, f>>
      BY <2>3, <2>4
    <3>2. s \o a \in Seq(Stores)
      OBVIOUS
    <3> QED
      BY <3>1, <3>2
  <2>6. hsb' = [hsb EXCEPT ![t] = r]
    BY <2>2, <2>5 DEF Announce
  <2>7. Seq(Stores) = Seq((0 .. K - 1) \X (Nodes \cup {NULL}))
    BY Constants DEF Stores
  <2> QED
    BY <2>3, <2>6, <2>7
<1>11. /\ pc'[t] = label /\ node'[t] = NULL
       /\ \A u \in Threads \ {t} :
             UNCHANGED <<pc[u], node[u], old[u], prv[u], ret[u], retired[u]>>
  BY <1>1, <1>2 DEF TypeOK, HazardTypeOK
<1>12. TypeOK'
  <2>1. HazardTypeOK'
    BY <1>1, <1>2, <1>5, <1>10 DEF TypeOK, HazardTypeOK, scanVars
  <2>2. /\ pc' \in [Threads -> Labels] /\ node' \in [Threads -> Nodes \cup {NULL}]
        /\ old' \in [Threads -> Nodes \cup {NULL}]
        /\ prv' \in [Threads -> Nodes \cup {NULL}]
        /\ ret' \in [Threads -> Items \cup {NULL}]
    BY <1>1, <1>2 DEF TypeOK, Labels
  <2>3. \A u \in Threads : pc'[u] \in {"pop_check2", "pop_value", "pop_cas"} => prv'[u] \in Nodes
    BY <1>2, <1>11 DEF TypeOK
  <2>4. popped' \in Seq(Items)
    BY <1>2, <1>9 DEF TypeOK
  <2> QED
    BY <1>2, <1>4, <2>1, <2>2, <2>3, <2>4 DEF TypeOK
<1>13. Chain(c, lo + 1)' /\ Partition(ChainNodes(c, lo + 1))'
  <2>1. label \in Labels \ (PrivateLabels \cup {"push_link"})
        /\ pc[t] \notin PrivateLabels \cup {"push_link"}
    BY DEF Labels, PrivateLabels
  <2>2. \A u \in Threads \ {t} : UNCHANGED <<node[u], old[u]>>
    BY <1>11
  <2> QED
    BY <1>1, <1>2, <1>3, <1>4, <1>6, <2>1, <2>2, HeadLeaves DEF InService
<1>14. InService /\ InService' /\ DestroyInv'
  BY <1>3, <1>4, <1>11 DEF InService, DestroyInv
<1>15. Len(popped') = lo + 1 /\ popped'[lo + 1] = ret[t]
       /\ \A j \in 1 .. lo : popped'[j] = popped[j]
  <2>1. popped \in Seq(Items)
    BY <1>2 DEF TypeOK
  <2> QED
    BY <1>7, <1>9, <2>1
<1>16. Queue(c, lo + 1)'
  <2>1. \A j \in lo + 1 .. Last : value[c[j]] = pushed[j]
    BY <1>3, <1>6 DEF Queue
  <2>2. \A j \in (lo + 1) + 1 .. Last : j \in lo + 1 .. Last
    BY <1>8
  <2> QED
    BY <1>8, <1>13, <1>15, <2>1, <2>2 DEF Queue
<1>17. FifoOrder'
  <2>1. \A i \in 1 .. lo : popped[i] = pushed[i]
    BY <1>2, <1>7 DEF IInv, FifoOrder
  <2>2. \A i \in 1 .. lo + 1 : i = lo + 1 \/ i \in 1 .. lo
    OBVIOUS
  <2>3. \A i \in 1 .. lo + 1 : popped'[i] = pushed[i]
    BY <1>7, <1>15, <2>1, <2>2
  <2>4. lo + 1 <= Len(pushed)
    BY <1>7, <1>8
  <2> QED
    BY <1>15, <2>3, <2>4 DEF FifoOrder
<1>18. ASSUME NEW u \in Threads PROVE ThreadInv(u)'
  <2>1. CASE u = t
    BY <1>11, <2>1 DEF ThreadInv, PushInv, PopInv, PrivateLabels
  <2>2. CASE u # t
    <3>1. SecurityKept(u)
      BY <1>2, <1>11, RetireSecurity
    <3>2. UNCHANGED <<pc[u], node[u], old[u], prv[u], ret[u], hsb[u], hp[u]>>
      BY <1>10, <1>11, <2>2
    <3> QED
      BY <1>2, <3>1, <3>2, ThreadKept DEF IInv, NodesKept
  <2> QED
    BY <2>1, <2>2
<1>19. ScanInv'
  BY <1>2, <1>11, ScanInvKept
<1>20. records' = Records /\ OwnNodes'
  BY <1>1, <1>2, <1>11 DEF IInv, OwnNodes
<1>21. (\E d \in [Nat -> Nodes], l \in Nat : Queue(d, l))'
  <2>1. lo + 1 \in Nat
    OBVIOUS
  <2> QED
    BY <1>16, <2>1
<1> QED
  BY <1>12, <1>14, <1>17, <1>18, <1>19, <1>20, <1>21 DEF IInv

LEMMA PopCASInv ==
    ASSUME IInv, NEW t \in Threads, PopCAS(t)
    PROVE  IInv'
<1>1. CASE head = old[t]
  <2>1. /\ pc[t] = "pop_cas" /\ head' = prv[t] /\ popped' = Append(popped, ret[t])
        /\ Announce(t, <<<<0, NULL>>, <<1, NULL>>>>) /\ RetireNode(t, old[t])
        /\ UNCHANGED <<recordVars, hp, scanVars, free, tail, prev, value, pushed>>
        /\ ReturnTo(t, IF MustScan(t) THEN "scan" ELSE "idle")
    BY <1>1 DEF PopCAS
  <2>2. PICK label \in {"scan", "idle"} : label = IF MustScan(t) THEN "scan" ELSE "idle"
    OBVIOUS
  <2>3. ReturnTo(t, label)
    BY <2>1, <2>2
  <2> QED
    BY <1>1, <2>1, <2>3, PopSucceeds
<1>2. CASE head # old[t]
  <2>1. /\ pc[t] = "pop_cas" /\ pc' = [pc EXCEPT ![t] = "pop_head"]
        /\ UNCHANGED <<hazardVars, nodeVars, node, old, prv, ret, history>>
    BY <1>2 DEF PopCAS, Goto, hazardVars, nodeVars, history
  <2> QED
    BY <2>1, PopAgainInv
<1> QED
  BY <1>1, <1>2

-----------------------------------------------------------------------------
(* Scans.                                                                  *)

\* A step of a thread that is not in a call of the fifo, which leaves the fifo and the
\* announcements alone.
LEMMA BackgroundStep ==
    ASSUME IInv, NEW t \in Threads, pc[t] \in Destroying, NEW label \in Destroying,
           pc' = [pc EXCEPT ![t] = label], TypeOK', DestroyInv', ScanInv',
           UNCHANGED <<records, hp, hsb, nodeVars, node, old, prv, ret, history>>,
           InService' => InService,
           \A Q : Partition(Q) => Partition(Q)',
           \A u \in Threads \ {t} : SecurityKept(u)
    PROVE  IInv'
<1>1. TypeOK /\ UNCHANGED <<head, tail, prev, value, pushed, popped>>
  BY DEF IInv, nodeVars, history
<1>2. pc'[t] = label /\ \A u \in Threads \ {t} : pc'[u] = pc[u]
  BY <1>1 DEF TypeOK
<1>3. PICK c \in [Nat -> Nodes], lo \in Nat : Queue(c, lo)
  BY DEF IInv
<1>4. Partition(ChainNodes(c, lo))'
  <2>1. PICK S : S = ChainNodes(c, lo)
    OBVIOUS
  <2>2. ChainNodes(c, lo)' = S
    BY <1>1, <2>1, ChainNodesKept
  <2>3. Partition(S)
    BY <1>3, <2>1 DEF Queue
  <2>4. Partition(S)'
    BY <2>3
  <2> QED
    BY <2>2, <2>4
<1>5. Queue(c, lo)'
  <2>1. \A u \in Threads : pc'[u] = "push_link" <=> pc[u] = "push_link"
    BY <1>2 DEF Destroying
  <2> QED
    BY <1>1, <1>3, <1>4, <2>1, QueueKept
<1>6. ASSUME NEW u \in Threads PROVE ThreadInv(u)'
  <2>1. CASE u = t
    BY <1>1, <1>2, <2>1 DEF IInv, ThreadInv, PushInv, PopInv, PrivateLabels, Destroying
  <2>2. CASE u # t
    BY <1>1, <1>2, <2>2, ThreadKept DEF IInv, NodesKept
  <2> QED
    BY <2>1, <2>2
<1>7. records' = Records /\ FifoOrder' /\ OwnNodes'
  BY <1>1 DEF IInv, FifoOrder, OwnNodes
<1> QED
  BY <1>5, <1>6, <1>7 DEF IInv

\* A scan starts with all the hazard pointers there are before it.
LEMMA PointersOfRecords ==
    ASSUME TypeOK, records = Records
    PROVE  /\ PointersOf(records) \in Seq(Threads \X (0 .. 1))
           /\ \A u \in Threads, k \in 0 .. 1 : In(<<u, k>>, PointersOf(records))
<1> DEFINE M == Len(records)
           w == PointersOf(records)
<1>1. records \in Seq(Threads) /\ M \in Nat /\ K = 2
  BY Constants DEF TypeOK, HazardTypeOK
<1>2. w = [i \in 1 .. M * 2 |-> <<records[((i - 1) \div 2) + 1], (i - 1) % 2>>]
  BY <1>1 DEF PointersOf
<1>3. \A i \in 1 .. M * 2 : ((i - 1) \div 2) + 1 \in 1 .. M /\ (i - 1) % 2 \in 0 .. 1
  <2> HIDE DEF w
  <2> QED
    BY <1>1
<1>4. M * 2 \in Nat
  BY <1>1
<1> HIDE DEF w
<1>5. w \in Seq(Threads \X (0 .. 1)) /\ Len(w) = M * 2
  <2>1. \A i \in 1 .. M * 2 : w[i] \in Threads \X (0 .. 1)
    BY <1>1, <1>2, <1>3
  <2>2. w \in [1 .. M * 2 -> Threads \X (0 .. 1)]
    BY <1>2, <2>1
  <2> QED
    BY <1>4, <2>2
<1>6. ASSUME NEW u \in Threads, NEW k \in 0 .. 1 PROVE In(<<u, k>>, w)
  <2>1. PICK d \in 1 .. Len(Records) : Records[d] = u
    BY RecordsAssumption
  <2>2. d \in 1 .. M /\ records[d] = u
    BY <2>1
  <2>3. PICK i \in 1 .. M * 2 : i = 2 * (d - 1) + k + 1
    BY <1>1, <2>2
  <2>4. ((i - 1) \div 2) + 1 = d /\ (i - 1) % 2 = k
    BY <1>1, <2>2, <2>3
  <2>5. w[i] = <<u, k>>
    BY <1>2, <2>2, <2>4
  <2> QED
    BY <1>5, <2>5 DEF In
<1> QED
  BY <1>5, <1>6 DEF w

\* What a scan does to its own variables keeps the announced nodes covered.
LEMMA ScanSecurity ==
    ASSUME NEW t \in Threads, UNCHANGED <<free, retired>>,
           \A u \in Threads \ {t} :
              walk'[u] = walk[u] /\ max_pointers'[u] = max_pointers[u] /\ plist'[u] = plist[u],
           NEW u \in Threads,
           \A k \in 0 .. 1, n \in Nodes :
              hp[u][k] = n /\ Covered(t, u, k, n) => Covered(t, u, k, n)'
    PROVE  SecurityKept(u)
<1>1. \A w \in Threads \ {t} : \A k, n : Covered(w, u, k, n) => Covered(w, u, k, n)'
  BY DEF Covered, In
<1> QED
  BY <1>1 DEF SecurityKept, Secure

\* One step of a scan between its beginning and its end.
LEMMA ScanStep ==
    ASSUME IInv, NEW t \in Threads, pc[t] \in {"idle", "scan", "destroy_scan"},
           NEW label \in {"scan", "destroy_scan"}, pc' = [pc EXCEPT ![t] = label],
           pc[t] = "idle" => label = "scan", pc[t] # "idle" => label = pc[t],
           NEW w \in Seq(Threads \X (0 .. 1)), NEW m \in Nat, NEW found \in Seq(Nodes),
           walk' = [walk EXCEPT ![t] = w], max_pointers' = [max_pointers EXCEPT ![t] = m],
           plist' = [plist EXCEPT ![t] = found],
           UNCHANGED <<records, threshold, hp, hsb, retired, free>>,
           UNCHANGED <<nodeVars, node, old, prv, ret, history>>,
           \A u \in Threads \ {t}, k \in 0 .. 1, n \in Nodes :
              hp[u][k] = n /\ Covered(t, u, k, n) => Covered(t, u, k, n)'
    PROVE  IInv'
<1>1. TypeOK /\ walk \in [Threads -> Seq(Threads \X (0 .. 1))]
  BY BufferType DEF IInv
<1>2. \A u \in Threads \ {t} :
        walk'[u] = walk[u] /\ max_pointers'[u] = max_pointers[u] /\ plist'[u] = plist[u]
  BY <1>1 DEF TypeOK, HazardTypeOK
<1>3. pc'[t] = label /\ \A u \in Threads \ {t} : pc'[u] = pc[u]
  BY <1>1 DEF TypeOK
<1>4. TypeOK'
  <2>1. walk' \in [Threads -> Seq(Threads \X (0 .. K - 1))]
    BY <1>1, Constants
  <2>2. max_pointers' \in [Threads -> Nat] /\ plist' \in [Threads -> Seq(Nodes)]
    BY <1>1 DEF TypeOK, HazardTypeOK
  <2>3. HazardTypeOK'
    BY <1>1, <2>1, <2>2 DEF TypeOK, HazardTypeOK
  <2>4. pc' \in [Threads -> Labels]
    BY <1>1 DEF TypeOK, Labels
  <2>5. \A u \in Threads : pc'[u] \in {"pop_check2", "pop_value", "pop_cas"} => prv'[u] \in Nodes
    BY <1>1, <1>3 DEF TypeOK
  <2> QED
    BY <1>1, <2>3, <2>4, <2>5 DEF TypeOK, nodeVars, history
<1>5. InService' <=> InService
  BY <1>3 DEF InService, nodeVars
<1>6. DestroyInv'
  BY <1>3, <1>5 DEF IInv, DestroyInv, Destroying
<1>7. ScanInv'
  BY <1>2, <1>3 DEF IInv, ScanInv
<1>8. \A Q : Partition(Q) => Partition(Q)'
  <2>1. \A u \in Threads : pc'[u] \in PrivateLabels <=> pc[u] \in PrivateLabels
    BY <1>3 DEF PrivateLabels
  <2> QED
    BY <2>1, PartitionKept
<1>9. \A u \in Threads \ {t} : SecurityKept(u)
  BY <1>2, ScanSecurity
<1> QED
  BY <1>4, <1>5, <1>6, <1>7, <1>8, <1>9, BackgroundStep DEF Destroying

LEMMA SeenType ==
    ASSUME TypeOK, NEW t \in Threads, NEW owner \in Threads, NEW k \in 0 .. 1
    PROVE  /\ HazardSeen(t, owner, k) \in Nodes \cup {NULL}
           /\ owner # t => HazardSeen(t, owner, k) = hp[owner][k]
<1>1. HazardSeen(t, owner, k) = Registry!HazardSeen(t, owner, k)
  BY DEF HazardSeen, Registry!HazardSeen
<1>2. Registry!HazardTypeOK
  BY DEF TypeOK, HazardTypeOK, Registry!HazardTypeOK
<1>3. k \in 0 .. K - 1
  BY Constants
<1> QED
  BY <1>1, <1>2, <1>3, Registry!SeenType, KAssumption, NodesAssumption, FencedAssumption

LEMMA ScanHeadInv ==
    ASSUME IInv, NEW t \in Threads, pc[t] \in {"idle", "scan", "destroy_scan"}, ScanHead(t),
           NEW label \in {"scan", "destroy_scan"}, pc' = [pc EXCEPT ![t] = label],
           pc[t] = "idle" => label = "scan", pc[t] # "idle" => label = pc[t],
           UNCHANGED <<nodeVars, node, old, prv, ret, history>>
    PROVE  IInv'
<1>1. /\ walk' = [walk EXCEPT ![t] = PointersOf(records)]
      /\ UNCHANGED <<records, threshold, hp, hsb, retired, max_pointers, plist, free>>
  BY DEF ScanHead, recordVars
<1>2. TypeOK /\ records = Records
  BY DEF IInv
<1>3. PICK w \in Seq(Threads \X (0 .. 1)) :
          w = PointersOf(records) /\ \A u \in Threads, k \in 0 .. 1 : In(<<u, k>>, w)
  BY <1>2, PointersOfRecords
<1>4. walk' = [walk EXCEPT ![t] = w] /\ walk'[t] = w
  BY <1>1, <1>2, <1>3, BufferType
<1>5. /\ max_pointers' = [max_pointers EXCEPT ![t] = max_pointers[t]] /\ max_pointers[t] \in Nat
      /\ plist' = [plist EXCEPT ![t] = plist[t]] /\ plist[t] \in Seq(Nodes)
  BY <1>1, <1>2 DEF TypeOK, HazardTypeOK
<1>6. \A u \in Threads, k \in 0 .. 1 : \A n : Covered(t, u, k, n)'
  <2>1. \A u \in Threads, k \in 0 .. 1 : In(<<u, k>>, walk'[t])
    BY <1>3, <1>4
  <2>2. \A u, k : In(<<u, k>>, walk[t])' <=> In(<<u, k>>, walk'[t])
    BY DEF In
  <2> QED
    BY <2>1, <2>2 DEF Covered
<1> QED
  BY <1>1, <1>4, <1>5, <1>6, ScanStep

LEMMA ScanCallInv ==
    ASSUME IInv, NEW t \in Threads, ScanCall(t)
    PROVE  IInv'
<1>1. /\ pc[t] = "idle" /\ ScanHead(t) /\ pc' = [pc EXCEPT ![t] = "scan"]
      /\ UNCHANGED <<nodeVars, node, old, prv, ret, history>>
  BY DEF ScanCall, Goto
<1> QED
  BY <1>1, ScanHeadInv

LEMMA ScanAllocInv ==
    ASSUME IInv, NEW t \in Threads, pc[t] \in {"scan", "destroy_scan"}, ScanAlloc(t),
           UNCHANGED <<pc, nodeVars, node, old, prv, ret, history>>
    PROVE  IInv'
<1>1. /\ walk[t] # <<>> /\ UNCHANGED <<records, threshold, hp, hsb, retired, walk, plist, free>>
      /\ max_pointers' = [max_pointers EXCEPT ![t] = threshold[walk[t][1][1]] \div 2]
  BY DEF ScanAlloc, recordVars
<1>2. TypeOK /\ walk[t] \in Seq(Threads \X (0 .. 1))
  BY BufferType DEF IInv
<1>3. walk[t][1][1] \in Threads
  BY <1>1, <1>2, EmptySeq
<1>4. threshold[walk[t][1][1]] \in Nat
  BY <1>2, <1>3 DEF TypeOK, HazardTypeOK
<1>5. PICK m \in Nat : m = threshold[walk[t][1][1]] \div 2
  BY <1>4
<1>6. /\ walk' = [walk EXCEPT ![t] = walk[t]] /\ plist[t] \in Seq(Nodes)
      /\ plist' = [plist EXCEPT ![t] = plist[t]] /\ pc' = [pc EXCEPT ![t] = pc[t]]
  BY <1>1, <1>2 DEF TypeOK, HazardTypeOK
<1>7. \A u, k, n : Covered(t, u, k, n) => Covered(t, u, k, n)'
  BY <1>1 DEF Covered, In
<1>8. max_pointers' = [max_pointers EXCEPT ![t] = m]
  BY <1>1, <1>5
<1> QED
  BY <1>1, <1>2, <1>6, <1>7, <1>8, ScanStep

LEMMA ScanReadInv ==
    ASSUME IInv, NEW t \in Threads, pc[t] \in {"scan", "destroy_scan"}, ScanRead(t),
           UNCHANGED <<pc, nodeVars, node, old, prv, ret, history>>
    PROVE  IInv'
<1> DEFINE p == walk[t][1]
           h == HazardSeen(t, p[1], p[2])
           found == IF h = NULL THEN plist[t] ELSE Append(plist[t], h)
           Pointers == Threads \X (0 .. 1)
<1>1. /\ walk[t] # <<>> /\ max_pointers[t] # 0
      /\ plist' = [plist EXCEPT ![t] = found]
      /\ walk' = [walk EXCEPT ![t] = Tail(walk[t])]
      /\ UNCHANGED <<records, threshold, hp, hsb, retired, max_pointers, free>>
  BY DEF ScanRead, recordVars
<1>2. /\ TypeOK /\ walk \in [Threads -> Seq(Pointers)] /\ walk[t] \in Seq(Pointers)
      /\ plist[t] \in Seq(Nodes) /\ max_pointers[t] \in Nat
  BY BufferType DEF IInv, TypeOK, HazardTypeOK
<1>3. /\ Tail(walk[t]) \in Seq(Pointers) /\ Len(walk[t]) \in Nat
      /\ Len(Tail(walk[t])) = Len(walk[t]) - 1
      /\ \A i \in 1 .. Len(walk[t]) - 1 : Tail(walk[t])[i] = walk[t][i + 1]
      /\ p \in Pointers
  <2>1. Head(walk[t]) = walk[t][1] /\ Head(walk[t]) \in Pointers
    BY <1>1, <1>2
  <2> QED
    BY <1>1, <1>2, <2>1, HeadTailProperties
<1>4. /\ h \in Nodes \cup {NULL}
      /\ p[1] # t => h = hp[p[1]][p[2]]
  <2>1. p[1] \in Threads /\ p[2] \in 0 .. 1
    BY <1>3
  <2> HIDE DEF p
  <2> QED
    BY <1>2, <2>1, SeenType
<1> HIDE DEF h
<1>5. /\ found \in Seq(Nodes) /\ Len(found) \in Nat /\ Len(plist[t]) \in Nat
      /\ \A i \in 1 .. Len(plist[t]) : found[i] = plist[t][i] /\ i \in 1 .. Len(found)
      /\ h # NULL => \E i \in 1 .. Len(found) : found[i] = h
  <2>1. CASE h = NULL
    BY <2>1, <1>2
  <2>2. CASE h # NULL
    <3>1. h \in Nodes
      BY <2>2, <1>4
    <3>2. /\ Append(plist[t], h) \in Seq(Nodes) /\ Len(Append(plist[t], h)) = Len(plist[t]) + 1
          /\ \A i \in 1 .. Len(plist[t]) : Append(plist[t], h)[i] = plist[t][i]
          /\ Append(plist[t], h)[Len(plist[t]) + 1] = h
      BY <3>1, <1>2, AppendProperties
    <3>3. found = Append(plist[t], h)
      BY <2>2
    <3>4. Len(plist[t]) \in Nat
      BY <1>2
    <3> HIDE DEF found
    <3> QED
      BY <3>2, <3>3, <3>4
  <2> QED
    BY <2>1, <2>2
<1> HIDE DEF found
<1>6. PICK w \in Seq(Pointers), f \in Seq(Nodes) : w = Tail(walk[t]) /\ f = found
  BY <1>3, <1>5
<1>7. walk' = [walk EXCEPT ![t] = w] /\ plist' = [plist EXCEPT ![t] = f]
  BY <1>1, <1>6
<1>8. walk'[t] = w /\ plist'[t] = f
  BY <1>2, <1>7 DEF TypeOK, HazardTypeOK
<1>9. ASSUME NEW u \in Threads \ {t}, NEW k \in 0 .. 1, NEW n \in Nodes,
             hp[u][k] = n, Covered(t, u, k, n)
      PROVE  Covered(t, u, k, n)'
  <2>1. CASE In(n, plist[t])
    <3>1. \E i \in 1 .. Len(f) : f[i] = n
      BY <1>5, <1>6, <2>1 DEF In
    <3> QED
      BY <1>8, <3>1 DEF Covered, In
  <2>2. CASE In(<<u, k>>, walk[t])
    <3>1. PICK i \in 1 .. Len(walk[t]) : walk[t][i] = <<u, k>>
      BY <2>2 DEF In
    <3>2. CASE i = 1
      <4>1. p = <<u, k>>
        BY <3>1, <3>2
      <4>2. h = n /\ n # NULL
        BY <1>4, <1>9, <4>1, Constants
      <4>3. \E j \in 1 .. Len(f) : f[j] = n
        BY <1>5, <1>6, <4>2
      <4> QED
        BY <1>8, <4>3 DEF Covered, In
    <3>3. CASE i # 1
      <4>1. i - 1 \in 1 .. Len(walk[t]) - 1 /\ (i - 1) + 1 = i /\ i - 1 \in 1 .. Len(w)
        BY <1>3, <1>6, <3>3
      <4>2. w[i - 1] = <<u, k>>
        BY <1>3, <1>6, <3>1, <4>1
      <4>3. \E j \in 1 .. Len(w) : w[j] = <<u, k>>
        BY <4>1, <4>2
      <4> QED
        BY <1>8, <4>3 DEF Covered, In
    <3> QED
      BY <3>2, <3>3
  <2> QED
    BY <1>1, <1>9, <2>1, <2>2 DEF Covered
<1>10. /\ max_pointers' = [max_pointers EXCEPT ![t] = max_pointers[t]]
       /\ pc' = [pc EXCEPT ![t] = pc[t]]
  BY <1>1, <1>2 DEF TypeOK, HazardTypeOK
<1> QED
  BY <1>1, <1>2, <1>7, <1>9, <1>10, ScanStep

\* What a scan gives back was in nobody's announcements.
LEMMA ScanReclaimInv ==
    ASSUME IInv, NEW t \in Threads, pc[t] \in {"scan", "destroy_scan"}, ScanReclaim(t),
           Goto(t, IF pc[t] = "scan" THEN "idle" ELSE "destroy"),
           UNCHANGED <<nodeVars, node, old, prv, ret, history>>
    PROVE  IInv'
<1>1. PICK label \in {"idle", "destroy"} : label = IF pc[t] = "scan" THEN "idle" ELSE "destroy"
  OBVIOUS
<1>2. PICK given, kept : /\ given = {n \in retired[t] : ~Hazardous(plist[t], n)}
                         /\ kept = {n \in retired[t] : Hazardous(plist[t], n)}
  OBVIOUS
<1>3. /\ walk[t] = <<>> /\ max_pointers[t] # 0 /\ pc' = [pc EXCEPT ![t] = label]
      /\ free' = free \cup given /\ retired' = [retired EXCEPT ![t] = kept]
      /\ max_pointers' = [max_pointers EXCEPT ![t] = 0]
      /\ plist' = [plist EXCEPT ![t] = <<>>]
      /\ UNCHANGED <<records, threshold, hp, hsb, walk>>
  BY <1>1, <1>2 DEF ScanReclaim, Goto, recordVars
<1>4. TypeOK
  BY DEF IInv
<1>5. retired[t] \in SUBSET Nodes /\ plist[t] \in Seq(Nodes)
  BY <1>4 DEF TypeOK, HazardTypeOK
<1>6. /\ given \cup kept = retired[t] /\ given \cap kept = {}
      /\ \A n \in given : ~In(n, plist[t])
  BY <1>2, <1>5, HazardousIsMembership
<1>7. /\ pc'[t] = label /\ retired'[t] = kept /\ walk'[t] = <<>> /\ max_pointers'[t] = 0
      /\ \A u \in Threads \ {t} :
            UNCHANGED <<pc[u], retired[u], walk[u], max_pointers[u], plist[u]>>
  BY <1>3, <1>4 DEF TypeOK, HazardTypeOK
<1>8. TypeOK'
  <2>1. retired' \in [Threads -> SUBSET Nodes] /\ free' \subseteq Nodes
    BY <1>3, <1>4, <1>5, <1>6 DEF TypeOK, HazardTypeOK
  <2>2. plist' \in [Threads -> Seq(Nodes)]
    BY <1>3, <1>4 DEF TypeOK, HazardTypeOK
  <2>3. HazardTypeOK'
    BY <1>3, <1>4, <2>1, <2>2 DEF TypeOK, HazardTypeOK
  <2>4. pc' \in [Threads -> Labels]
    BY <1>3, <1>4 DEF TypeOK, Labels
  <2>5. \A u \in Threads : pc'[u] \in {"pop_check2", "pop_value", "pop_cas"} => prv'[u] \in Nodes
    BY <1>4, <1>7 DEF TypeOK
  <2> QED
    BY <1>4, <2>3, <2>4, <2>5 DEF TypeOK, nodeVars, history
<1>9. InService' <=> InService
  BY <1>1, <1>7 DEF InService, nodeVars
<1>10. DestroyInv' /\ ScanInv'
  BY <1>7, <1>9 DEF IInv, DestroyInv, Destroying, ScanInv
<1>11. ASSUME NEW Q, Partition(Q) PROVE Partition(Q)'
  <2>1. /\ Private(t) = {} /\ Private(t)' = {} /\ Held(t) = given \cup kept /\ Held(t)' = kept
        /\ \A u \in Threads \ {t} :
              /\ Private(u)' = Private(u) /\ Held(u)' = Held(u) /\ retired'[u] = retired[u]
    BY <1>6, <1>7 DEF Private, Held, PrivateLabels
  <2>2. given \cap (Q \cup free) = {} /\ \A u \in Threads \ {t} : given \cap Held(u) = {}
    BY <1>11, <2>1 DEF Partition
  <2>3. \A u \in Threads : (Private(u) \cap retired[u] = {})'
    BY <1>11, <2>1 DEF Partition
  <2>4. \A u \in Threads : (Held(u) \cap (Q \cup free) = {})'
    <3>1. ASSUME NEW u \in Threads PROVE Held(u)' \cap (Q \cup (free \cup given)) = {}
      <4>1. CASE u = t
        BY <1>6, <1>11, <2>1, <4>1 DEF Partition
      <4>2. CASE u # t
        BY <1>11, <2>1, <2>2, <4>2 DEF Partition
      <4> QED
        BY <4>1, <4>2
    <3> QED
      BY <1>3, <3>1
  <2>5. \A u, w \in Threads : u # w => (Held(u) \cap Held(w) = {})'
    BY <1>11, <2>1 DEF Partition
  <2>6. \A n \in Nodes : n \in Q \cup free' \/ \E u \in Threads : n \in Held(u)'
    BY <1>3, <1>11, <2>1 DEF Partition
  <2>7. Q \cap free' = {}
    BY <1>3, <1>11, <2>2 DEF Partition
  <2> QED
    BY <2>3, <2>4, <2>5, <2>6, <2>7 DEF Partition
<1>12. ASSUME NEW u \in Threads \ {t} PROVE SecurityKept(u)
  <2> SUFFICES ASSUME NEW k \in 0 .. 1, NEW n \in Nodes, Secure(u, k, n)
               PROVE  Secure(u, k, n)'
    BY DEF SecurityKept
  <2>1. n \notin free'
    <3>1. n \in retired[t] => In(n, plist[t])
      BY <1>3 DEF Secure, Covered, In
    <3>2. n \notin given
      BY <1>6, <3>1
    <3> QED
      BY <1>3, <3>2 DEF Secure
  <2>2. Covered(t, u, k, n)'
    BY <1>7 DEF Covered
  <2>3. ASSUME NEW w \in Threads, w # t, n \in retired'[w] PROVE Covered(w, u, k, n)'
    <3>1. Covered(w, u, k, n)
      BY <1>7, <2>3 DEF Secure
    <3> QED
      BY <1>7, <2>3, <3>1 DEF Covered, In
  <2> QED
    BY <2>1, <2>2, <2>3 DEF Secure
<1>13. pc[t] \in Destroying /\ label \in Destroying
  BY DEF Destroying
<1> QED
  BY <1>3, <1>8, <1>9, <1>10, <1>11, <1>12, <1>13, BackgroundStep

LEMMA ScanActionInv ==
    ASSUME IInv, NEW t \in Threads, Scan(t)
    PROVE  IInv'
<1>1. pc[t] \in {"scan", "destroy_scan"} /\ UNCHANGED <<nodeVars, node, old, prv, ret, history>>
  BY DEF Scan
<1>2. CASE ScanHead(t) /\ UNCHANGED pc
  <2>1. pc' = [pc EXCEPT ![t] = pc[t]]
    BY <1>2 DEF IInv, TypeOK
  <2> QED
    BY <1>1, <1>2, <2>1, ScanHeadInv
<1>3. CASE ScanAlloc(t) /\ UNCHANGED pc
  BY <1>1, <1>3, ScanAllocInv
<1>4. CASE ScanRead(t) /\ UNCHANGED pc
  BY <1>1, <1>4, ScanReadInv
<1>5. CASE ScanReclaim(t) /\ Goto(t, IF pc[t] = "scan" THEN "idle" ELSE "destroy")
  BY <1>1, <1>5, ScanReclaimInv
<1> QED
  BY <1>2, <1>3, <1>4, <1>5 DEF Scan

-----------------------------------------------------------------------------
(* The end of the fifo, and the store buffers.                             *)

LEMMA DestroyCallInv ==
    ASSUME IInv, NEW t \in Threads, DestroyCall(t)
    PROVE  IInv'
<1>1. /\ \A u \in Threads : pc[u] = "idle"
      /\ pc' = [pc EXCEPT ![t] = "destroy"] /\ InService
      /\ UNCHANGED <<hazardVars, nodeVars, node, old, prv, ret, history>>
  BY DEF DestroyCall, Goto
<1>2. TypeOK /\ UNCHANGED <<records, threshold, hp, hsb, retired, scanVars, free>>
  BY <1>1 DEF IInv, hazardVars, recordVars
<1>3. pc'[t] = "destroy" /\ \A u \in Threads \ {t} : pc'[u] = "idle"
  BY <1>1, <1>2 DEF TypeOK
<1>4. TypeOK'
  <2>1. HazardTypeOK'
    BY <1>2 DEF TypeOK, HazardTypeOK, scanVars
  <2>2. pc' \in [Threads -> Labels]
    BY <1>1, <1>2 DEF TypeOK, Labels
  <2>3. \A u \in Threads : pc'[u] \in {"pop_check2", "pop_value", "pop_cas"} => prv'[u] \in Nodes
    BY <1>3
  <2> QED
    BY <1>1, <1>2, <2>1, <2>2, <2>3 DEF TypeOK, nodeVars, history
<1>5. DestroyInv' /\ ~InService'
  BY <1>3 DEF DestroyInv, Destroying, InService
<1>6. ScanInv'
  BY <1>1, <1>2, ScanInvKept DEF IInv
<1>7. \A Q : Partition(Q) => Partition(Q)'
  <2>1. \A u \in Threads : pc'[u] \in PrivateLabels <=> pc[u] \in PrivateLabels
    BY <1>1, <1>3 DEF PrivateLabels
  <2> QED
    BY <1>1, <1>2, <2>1, PartitionKept
<1>8. \A u \in Threads : SecurityKept(u)
  BY <1>2, SecuritySame
<1>9. pc[t] \in Destroying /\ "destroy" \in Destroying
  BY <1>1 DEF Destroying
<1> QED
  BY <1>1, <1>2, <1>4, <1>5, <1>6, <1>7, <1>8, <1>9, BackgroundStep

LEMMA DestroyNodeInv ==
    ASSUME IInv, NEW t \in Threads, DestroyNode(t)
    PROVE  IInv'
<1>1. /\ pc[t] = "destroy"
      /\ UNCHANGED <<records, threshold, hp, hsb, scanVars, free, tail, prev, value>>
      /\ UNCHANGED <<node, old, prv, ret, pushed, popped>>
  BY DEF DestroyNode, recordVars, history
<1>2. TypeOK /\ ~InService /\ \A u \in Threads : pc[u] \in Destroying
  BY <1>1 DEF IInv, DestroyInv, InService
<1>3. CASE head = NULL
  <2>1. pc' = [pc EXCEPT ![t] = "idle"] /\ UNCHANGED <<head, retired>>
    BY <1>3 DEF DestroyNode, Goto
  <2>2. pc'[t] = "idle" /\ \A u \in Threads \ {t} : pc'[u] = pc[u]
    BY <1>2, <2>1 DEF TypeOK
  <2>3. TypeOK'
    <3>1. HazardTypeOK'
      BY <1>1, <1>2, <2>1 DEF TypeOK, HazardTypeOK, scanVars
    <3>2. pc' \in [Threads -> Labels]
      BY <1>2, <2>1 DEF TypeOK, Labels
    <3>3. \A u \in Threads : pc'[u] \in {"pop_check2", "pop_value", "pop_cas"} => prv'[u] \in Nodes
      BY <1>1, <1>2, <2>2 DEF TypeOK
    <3> QED
      BY <1>1, <1>2, <2>1, <3>1, <3>2, <3>3 DEF TypeOK
  <2>4. ~InService' /\ DestroyInv'
    BY <1>2, <1>3, <2>1, <2>2 DEF DestroyInv, Destroying, InService
  <2>5. ScanInv'
    BY <1>1, <2>2, ScanInvKept DEF IInv
  <2>6. \A Q : Partition(Q) => Partition(Q)'
    <3>1. \A u \in Threads : pc'[u] \in PrivateLabels <=> pc[u] \in PrivateLabels
      BY <1>1, <2>2 DEF PrivateLabels
    <3> QED
      BY <1>1, <2>1, <3>1, PartitionKept
  <2>7. \A u \in Threads : SecurityKept(u)
    BY <1>1, <2>1, SecuritySame
  <2>8. "idle" \in Destroying
    BY DEF Destroying
  <2> QED
    BY <1>1, <1>2, <2>1, <2>3, <2>4, <2>5, <2>6, <2>7, <2>8, BackgroundStep
       DEF nodeVars, history
<1>4. CASE head # NULL
  <2>1. PICK label \in {"destroy", "destroy_scan"} :
            label = IF MustScan(t) THEN "destroy_scan" ELSE "destroy"
    OBVIOUS
  <2>2. /\ head' = prev[head] /\ pc' = [pc EXCEPT ![t] = label]
        /\ retired' = [retired EXCEPT ![t] = retired[t] \cup {head}]
    BY <1>4, <2>1 DEF DestroyNode, Goto, RetireNode
  <2>3. head \in Nodes /\ head' \in Nodes \cup {NULL}
    BY <1>2, <1>4, <2>2 DEF TypeOK
  <2>4. /\ pc'[t] = label
        /\ \A u \in Threads \ {t} : pc'[u] = pc[u] /\ retired'[u] = retired[u]
    BY <1>2, <2>2 DEF TypeOK, HazardTypeOK
  <2>5. TypeOK'
    <3>1. HazardTypeOK'
      BY <1>1, <1>2, <2>2, <2>3 DEF TypeOK, HazardTypeOK, scanVars
    <3>2. pc' \in [Threads -> Labels]
      BY <1>2, <2>2 DEF TypeOK, Labels
    <3>3. \A u \in Threads : pc'[u] \in {"pop_check2", "pop_value", "pop_cas"} => prv'[u] \in Nodes
      BY <1>1, <1>2, <2>4 DEF TypeOK
    <3> QED
      BY <1>1, <1>2, <2>3, <3>1, <3>2, <3>3 DEF TypeOK
  <2>6. PICK c \in [Nat -> Nodes], lo \in Nat : Queue(c, lo)
    BY DEF IInv
  <2>7. Chain(c, lo + 1)' /\ Partition(ChainNodes(c, lo + 1))'
    <3>1. \A u \in Threads : pc[u] # "push_link"
      BY <1>2 DEF Destroying
    <3>2. label \in Labels \ (PrivateLabels \cup {"push_link"})
          /\ pc[t] \notin PrivateLabels \cup {"push_link"}
      BY <1>1 DEF Labels, PrivateLabels
    <3> QED
      BY <1>1, <1>2, <1>4, <2>2, <2>6, <3>1, <3>2, HeadLeaves
  <2>8. ~InService' /\ DestroyInv'
    BY <1>2, <2>4 DEF DestroyInv, Destroying, InService
  <2>9. (\E d \in [Nat -> Nodes], l \in Nat : Queue(d, l))'
    <3>1. Queue(c, lo + 1)'
      BY <2>7, <2>8 DEF Queue
    <3>2. lo + 1 \in Nat
      OBVIOUS
    <3> QED
      BY <3>1, <3>2
  <2>10. ASSUME NEW u \in Threads PROVE ThreadInv(u)'
    <3>1. pc'[u] \in Destroying /\ pc[u] \in Destroying
      BY <1>2, <2>4 DEF Destroying
    <3>2. node[u] = NULL
      BY <3>1 DEF IInv, ThreadInv, PushInv, PrivateLabels, Destroying
    <3> QED
      BY <1>1, <3>1, <3>2 DEF ThreadInv, PushInv, PopInv, PrivateLabels, Destroying
  <2>11. ScanInv'
    BY <1>1, <2>4 DEF IInv, ScanInv, scanVars
  <2>12. records' = Records /\ FifoOrder' /\ OwnNodes'
    BY <1>1 DEF IInv, FifoOrder, OwnNodes
  <2> QED
    BY <2>5, <2>8, <2>9, <2>10, <2>11, <2>12 DEF IInv
<1> QED
  BY <1>3, <1>4

\* A store that becomes visible is still the last one, or another one is.
LEMMA FlushInv ==
    ASSUME IInv, NEW t \in Threads, Flush(t)
    PROVE  IInv'
<1> DEFINE key == Head(hsb[t])[1]
           n == Head(hsb[t])[2]
<1>1. /\ hsb[t] # <<>>
      /\ hp' = [hp EXCEPT ![t] = [hp[t] EXCEPT ![key] = n]]
      /\ hsb' = [hsb EXCEPT ![t] = Tail(hsb[t])]
      /\ UNCHANGED <<records, threshold, retired, scanVars, free>>
      /\ UNCHANGED <<nodeVars, locals, history>>
  BY DEF Flush, FlushHazard, recordVars
<1>2. /\ TypeOK /\ hsb \in [Threads -> Seq(Stores)] /\ hsb[t] \in Seq(Stores)
      /\ hp \in [Threads -> [0 .. 1 -> Nodes \cup {NULL}]]
      /\ hp[t] \in [0 .. 1 -> Nodes \cup {NULL}]
  BY BufferType DEF IInv
<1>3. Head(hsb[t]) = hsb[t][1] /\ hsb[t][1] \in Stores /\ Len(hsb[t]) \in Nat /\ Len(hsb[t]) # 0
  <2> HIDE DEF Stores
  <2> QED
    BY <1>1, <1>2, EmptySeq
<1>4. key \in 0 .. 1 /\ n \in Nodes \cup {NULL} /\ hsb[t][1] = <<key, n>>
  BY <1>3 DEF Stores
<1> HIDE DEF key, n
<1>5. /\ Tail(hsb[t]) \in Seq(Stores) /\ Len(Tail(hsb[t])) = Len(hsb[t]) - 1
      /\ \A i \in 1 .. Len(hsb[t]) - 1 : Tail(hsb[t])[i] = hsb[t][i + 1]
  BY <1>1, <1>2, HeadTailProperties
<1>6. PICK r \in Seq(Stores) : r = Tail(hsb[t])
  BY <1>5
<1>7. PICK a \in [0 .. 1 -> Nodes \cup {NULL}] : a = [hp[t] EXCEPT ![key] = n]
  BY <1>2, <1>4
<1>8. /\ hsb' = [hsb EXCEPT ![t] = r] /\ hp' = [hp EXCEPT ![t] = a]
  BY <1>1, <1>6, <1>7
<1>9. /\ hsb'[t] = r /\ hp'[t] = a
      /\ \A u \in Threads \ {t} : hsb'[u] = hsb[u] /\ hp'[u] = hp[u]
  BY <1>2, <1>8
<1>10. a[key] = n /\ \A k \in 0 .. 1 : k # key => a[k] = hp[t][k]
  BY <1>2, <1>4, <1>7
<1>11. UNCHANGED <<head, tail, prev, value, pc, node, old, prv, ret, pushed, popped>>
  BY <1>1 DEF nodeVars, locals, history
<1>12. TypeOK'
  <2>1. hsb' \in [Threads -> Seq(Stores)] /\ hp' \in [Threads -> [0 .. 1 -> Nodes \cup {NULL}]]
    BY <1>2, <1>8
  <2>2. /\ hsb' \in [Threads -> Seq((0 .. K - 1) \X (Nodes \cup {NULL}))]
        /\ hp' \in [Threads -> [0 .. K - 1 -> Nodes \cup {NULL}]]
    BY <2>1, Constants DEF Stores
  <2>3. HazardTypeOK'
    BY <1>1, <1>2, <2>2 DEF TypeOK, HazardTypeOK, scanVars
  <2> QED
    BY <1>2, <1>11, <2>3 DEF TypeOK
<1>13. InService' <=> InService
  BY <1>11 DEF InService
<1>14. PICK c \in [Nat -> Nodes], lo \in Nat : Queue(c, lo)
  BY DEF IInv
<1>15. Queue(c, lo)'
  <2>1. PICK S : S = ChainNodes(c, lo)
    OBVIOUS
  <2>2. ChainNodes(c, lo)' = S
    BY <1>11, <2>1, ChainNodesKept
  <2>3. Partition(S)'
    BY <1>1, <1>11, <1>14, <2>1, PartitionKept DEF Queue
  <2>4. Partition(ChainNodes(c, lo))'
    BY <2>2, <2>3
  <2> QED
    BY <1>11, <1>13, <1>14, <2>4, QueueKept
<1>16. ASSUME NEW k \in 0 .. 1, NEW m, LastStore(t, k, m) PROVE LastStore(t, k, m)'
  <2>1. hsb[t][Len(hsb[t])] = <<k, m>>
    BY <1>1, <1>16 DEF LastStore
  <2>2. CASE Len(hsb[t]) = 1
    <3>1. r = <<>>
      BY <1>5, <1>6, <2>2, EmptySeq
    <3>2. key = k /\ n = m
      BY <1>4, <2>1, <2>2
    <3> QED
      BY <1>9, <1>10, <3>1, <3>2 DEF LastStore
  <2>3. CASE Len(hsb[t]) # 1
    <3>1. Len(r) = Len(hsb[t]) - 1 /\ Len(r) \in 1 .. Len(hsb[t]) - 1 /\ Len(r) + 1 = Len(hsb[t])
      <4>1. PICK L \in Nat : L = Len(hsb[t]) /\ L # 0 /\ L # 1
        BY <1>3, <2>3
      <4>2. Len(r) = L - 1
        BY <1>5, <1>6, <4>1
      <4>3. \A x \in Nat : x # 0 /\ x # 1 => x - 1 \in 1 .. x - 1 /\ (x - 1) + 1 = x
        OBVIOUS
      <4> QED
        BY <4>1, <4>2, <4>3
    <3>2. r[Len(r)] = <<k, m>>
      BY <1>5, <1>6, <2>1, <3>1
    <3>3. r # <<>>
      BY <3>1
    <3> QED
      BY <1>9, <3>2, <3>3 DEF LastStore
  <2> QED
    BY <2>2, <2>3
<1>17. \A u \in Threads : SecurityKept(u) /\ NodesKept
  BY <1>1, <1>11, SecuritySame DEF NodesKept
<1>18. ASSUME NEW u \in Threads PROVE ThreadInv(u)'
  <2>1. CASE u = t
    <3>1. PushInv(t) /\ PopInv(t)
      BY DEF IInv, ThreadInv
    <3>2. PushInv(t)'
      BY <1>1, <1>11, <1>16, <3>1 DEF PushInv
    <3>3. pc[t] = "pop_check2" =>
            r = <<>> /\ a[1] = prv[t] /\ Protects(t, 0, old[t])'
      <4> SUFFICES ASSUME pc[t] = "pop_check2"
                   PROVE  r = <<>> /\ a[1] = prv[t] /\ Protects(t, 0, old[t])'
        OBVIOUS
      <4>1. hsb[t] = <<<<1, prv[t]>>>>
        BY <1>1, <3>1 DEF PopInv
      <4>2. Len(hsb[t]) = 1 /\ hsb[t][1] = <<1, prv[t]>>
        BY <4>1
      <4>3. r = <<>>
        BY <1>5, <1>6, <4>2, EmptySeq
      <4>4. key = 1 /\ n = prv[t]
        BY <1>4, <4>2
      <4>5. a[1] = prv[t] /\ a[0] = hp[t][0]
        BY <1>10, <4>4
      <4>6. Protects(t, 0, old[t])
        BY <3>1 DEF PopInv
      <4>7. Protects(t, 0, old[t])'
        BY <1>9, <1>11, <1>17, <4>5, <4>6 DEF Protects, SecurityKept
      <4> QED
        BY <4>3, <4>5, <4>7
    <3>4. PopInv(t)'
      BY <1>1, <1>9, <1>11, <1>16, <3>1, <3>3 DEF PopInv
    <3> QED
      BY <2>1, <3>2, <3>4 DEF ThreadInv
  <2>2. CASE u # t
    BY <1>2, <1>9, <1>11, <1>17, <2>2, ThreadKept DEF IInv
  <2> QED
    BY <2>1, <2>2
<1>19. ScanInv' /\ DestroyInv'
  BY <1>1, <1>11, <1>13 DEF IInv, ScanInv, scanVars, DestroyInv
<1>20. records' = Records /\ FifoOrder' /\ OwnNodes'
  BY <1>1, <1>11 DEF IInv, FifoOrder, OwnNodes
<1> QED
  BY <1>12, <1>15, <1>18, <1>19, <1>20 DEF IInv

-----------------------------------------------------------------------------
(* The theorems.                                                           *)

LEMMA InitInv == Init => IInv
<1> SUFFICES ASSUME Init PROVE IInv
  OBVIOUS
<1>1. /\ records = Records /\ threshold = [t \in Threads |-> 2 * Len(Records) * K]
      /\ hp = [t \in Threads |-> [k \in 0 .. K - 1 |-> NULL]]
      /\ hsb = [t \in Threads |-> <<>>] /\ retired = [t \in Threads |-> {}]
      /\ walk = [t \in Threads |-> <<>>] /\ max_pointers = [t \in Threads |-> 0]
      /\ plist = [t \in Threads |-> <<>>] /\ free = Nodes \ {InitialNode}
  BY DEF Init, HazardInit
<1>2. /\ head = InitialNode /\ tail = InitialNode
      /\ prev = [n \in Nodes |-> NULL] /\ value = [n \in Nodes |-> NULL]
      /\ pc = [t \in Threads |-> "idle"] /\ node = [t \in Threads |-> NULL]
      /\ old = [t \in Threads |-> NULL] /\ prv = [t \in Threads |-> NULL]
      /\ ret = [t \in Threads |-> NULL] /\ pushed = <<>> /\ popped = <<>>
  BY DEF Init
<1>3. InitialNode \in Nodes /\ InitialNode # NULL
  BY Constants
<1>4. TypeOK
  <2>1. Records \in Seq(Threads)
    BY RecordsAssumption
  <2>2. 2 * Len(Records) * K \in Nat
    BY <2>1, Constants
  <2>3. HazardTypeOK
    <3>1. \A S : <<>> \in Seq(S)
      OBVIOUS
    <3>2. /\ hsb \in [Threads -> Seq((0 .. K - 1) \X (Nodes \cup {NULL}))]
          /\ walk \in [Threads -> Seq(Threads \X (0 .. K - 1))]
          /\ plist \in [Threads -> Seq(Nodes)]
      BY <1>1, <3>1
    <3>3. hp \in [Threads -> [0 .. K - 1 -> Nodes \cup {NULL}]]
      BY <1>1
    <3>4. threshold \in [Threads -> Nat]
      BY <1>1, <2>2
    <3> QED
      BY <1>1, <2>1, <3>2, <3>3, <3>4 DEF HazardTypeOK
  <2> QED
    BY <1>2, <1>3, <2>3 DEF TypeOK, Labels
<1>5. InService
  BY <1>2, <1>3 DEF InService
<1>6. FifoOrder /\ DestroyInv /\ ScanInv /\ OwnNodes /\ Last = 0
  BY <1>1, <1>2, <1>5 DEF FifoOrder, DestroyInv, ScanInv, OwnNodes, Last
<1>7. \A t \in Threads : ThreadInv(t)
  BY <1>2 DEF ThreadInv, PushInv, PopInv, PrivateLabels
<1>8. PICK c \in [Nat -> Nodes] : c[0] = InitialNode
  <2>1. [j \in Nat |-> InitialNode] \in [Nat -> Nodes]
    BY <1>3
  <2> QED
    BY <2>1
<1>9. Queue(c, 0)
  <2>1. 0 .. Last = {0} /\ 0 .. Last - 1 = {} /\ 0 + 1 .. Last = {}
    BY <1>6
  <2>2. Chain(c, 0)
    BY <1>2, <1>3, <1>6, <1>8, <2>1 DEF Chain
  <2>3. ChainNodes(c, 0) = {InitialNode}
    BY <1>8, <2>1 DEF ChainNodes
  <2>4. \A t \in Threads : Private(t) = {} /\ Held(t) = {}
    BY <1>1, <1>2 DEF Private, Held, PrivateLabels
  <2>5. Partition(ChainNodes(c, 0))
    BY <1>1, <2>3, <2>4 DEF Partition
  <2>6. Len(popped) = 0
    BY <1>2
  <2> QED
    BY <2>1, <2>2, <2>5, <2>6 DEF Queue
<1>10. \E d \in [Nat -> Nodes], l \in Nat : Queue(d, l)
  BY <1>9
<1> QED
  BY <1>1, <1>4, <1>6, <1>7, <1>10 DEF IInv

LEMMA NextInv == ASSUME Fenced, IInv, [Next]_vars PROVE IInv'
<1>1. CASE Next
  <2>1. PICK t \in Threads :
            \/ \E n \in Nodes, v \in Items : PushCall(t, n, v)
            \/ PopCall(t) \/ ScanCall(t) \/ DestroyCall(t) \/ Runs(t) \/ Flush(t)
    BY <1>1 DEF Next
  <2>2. CASE \E n \in Nodes, v \in Items : PushCall(t, n, v)
    BY <2>2, PushCallInv
  <2>3. CASE PopCall(t) \/ ScanCall(t) \/ DestroyCall(t) \/ Flush(t)
    BY <2>3, PopCallInv, ScanCallInv, DestroyCallInv, FlushInv
  <2>4. CASE PushReadTail(t) \/ PushCheckTail(t) \/ PushCAS(t) \/ PushLink(t)
    BY <2>4, PushReadTailInv, PushCheckTailInv, PushCASInv, PushLinkInv
  <2>5. CASE PopRetry(t) \/ PopCheckHead(t) \/ PopReadPrev(t)
    BY <2>5, PopRetryInv, PopCheckHeadInv, PopReadPrevInv
  <2>6. CASE PopCheckAgain(t) \/ PopReadValue(t) \/ PopCAS(t)
    BY <2>6, PopCheckAgainInv, PopReadValueInv, PopCASInv
  <2>7. CASE Scan(t) \/ DestroyNode(t)
    BY <2>7, ScanActionInv, DestroyNodeInv
  <2> QED
    BY <2>1, <2>2, <2>3, <2>4, <2>5, <2>6, <2>7 DEF Runs
<1>2. CASE UNCHANGED vars
  <2>1. /\ UNCHANGED <<records, threshold, hp, hsb, retired, walk, max_pointers, plist, free>>
        /\ UNCHANGED <<head, tail, prev, value, pc, node, old, prv, ret, pushed, popped>>
    BY <1>2 DEF vars, hazardVars, recordVars, scanVars, nodeVars, locals, history
  <2>2. TypeOK' /\ FifoOrder' /\ ScanInv' /\ OwnNodes' /\ records' = Records
    BY <2>1 DEF IInv, TypeOK, HazardTypeOK, FifoOrder, ScanInv, OwnNodes
  <2>3. (InService' <=> InService) /\ DestroyInv'
    BY <2>1 DEF IInv, InService, DestroyInv
  <2>4. PICK c \in [Nat -> Nodes], lo \in Nat : Queue(c, lo)
    BY DEF IInv
  <2>5. Queue(c, lo)'
    <3>1. PICK S : S = ChainNodes(c, lo)
      OBVIOUS
    <3>2. ChainNodes(c, lo)' = S /\ Partition(S)'
      BY <2>1, <2>4, <3>1, ChainNodesKept, PartitionKept DEF Queue
    <3>3. Partition(ChainNodes(c, lo))'
      BY <3>2
    <3> QED
      BY <2>1, <2>3, <2>4, <3>3, QueueKept
  <2>6. \A u \in Threads : ThreadInv(u)'
    <3> SUFFICES ASSUME NEW u \in Threads PROVE ThreadInv(u)'
      OBVIOUS
    <3>1. SecurityKept(u) /\ NodesKept
      BY <2>1, SecuritySame DEF scanVars, NodesKept
    <3> QED
      BY <2>1, <3>1, ThreadKept DEF IInv
  <2> QED
    BY <2>2, <2>3, <2>5, <2>6 DEF IInv
<1> QED
  BY <1>1, <1>2

\* Where the fence is real, every node of the fifo is the caller's, in the queue from
\* head to tail or waiting in one retired list, and each thread has announced what it
\* goes on to use before it looked again whether that was still in place.
THEOREM Invariant == ASSUME Fenced PROVE Spec => []IInv
<1>1. IInv /\ [Next]_vars => IInv'
  BY NextInv
<1> QED
  BY <1>1, InitInv, PTL DEF Spec

LEMMA ReliedSafe == ASSUME IInv PROVE NoUseAfterFree
<1> SUFFICES ASSUME NEW t \in Threads, NEW n \in Relied(t) PROVE n \notin free
  BY DEF NoUseAfterFree
<1>1. PushInv(t) /\ PopInv(t)
  BY DEF IInv, ThreadInv
<1>2. CASE pc[t] \in {"push_cas", "push_link"}
  <2>1. n = old[t]
    BY <1>2 DEF Relied
  <2> QED
    BY <1>1, <1>2, <2>1 DEF PushInv, Protects, Secure
<1>3. CASE pc[t] \in {"pop_prev", "pop_check2"}
  <2>1. n = old[t]
    BY <1>3 DEF Relied
  <2> QED
    BY <1>1, <1>3, <2>1 DEF PopInv, Protects, Secure
<1>4. CASE pc[t] \in {"pop_value", "pop_cas"}
  <2>1. n \in {old[t], prv[t]}
    BY <1>4 DEF Relied
  <2> QED
    BY <1>1, <1>4, <2>1 DEF PopInv, Protects, Secure
<1> QED
  BY <1>2, <1>3, <1>4 DEF Relied

\* A scan gives back no node that a push or a pop has announced and found in place: the
\* nodes that hazard_pointer_using protects in mpmc_fifo_push and mpmc_fifo_trypop are
\* nobody else's as long as they are used.
THEOREM NoUseAfterFreeCorrect == ASSUME Fenced PROVE Spec => []NoUseAfterFree
<1>1. IInv => NoUseAfterFree
  BY ReliedSafe
<1> QED
  BY <1>1, Invariant, PTL

\* The n-th successful CAS of mpmc_fifo_trypop on head pops the value of the n-th
\* successful CAS of mpmc_fifo_push on tail, whatever was recycled in between.
THEOREM FifoCorrect == ASSUME Fenced PROVE Spec => []FifoOrder
<1>1. IInv => FifoOrder
  BY DEF IInv
<1> QED
  BY <1>1, Invariant, PTL

\* The nodes in the fifo are those of the chain.
LEMMA InFifoNodes ==
    ASSUME TypeOK, NEW c \in [Nat -> Nodes], NEW lo \in Nat, Queue(c, lo),
           \A t \in Threads : node[t] # NULL <=> pc[t] \in PrivateLabels \cup {"push_link"}
    PROVE  InFifo = ChainNodes(c, lo)
<1> DEFINE Q == ChainNodes(c, lo)
<1>1. Partition(Q) /\ Q \subseteq Nodes
  BY LastType DEF Queue, ChainNodes
<1>2. ASSUME NEW n \in Q PROVE n \in InFifo
  <2>1. n \in Nodes \ free /\ \A t \in Threads : n \notin Held(t)
    BY <1>1 DEF Partition
  <2>2. \A t \in Threads : pc[t] # "push_link" => node[t] # n
    <3> SUFFICES ASSUME NEW t \in Threads, pc[t] # "push_link", node[t] = n PROVE FALSE
      OBVIOUS
    <3>1. pc[t] \in PrivateLabels
      BY <2>1, Constants
    <3> QED
      BY <2>1, <3>1 DEF Held, Private
  <2> QED
    BY <2>1, <2>2 DEF InFifo, Held
<1>3. ASSUME NEW n \in InFifo PROVE n \in Q
  <2>1. /\ n \in Nodes \ free /\ \A t \in Threads : n \notin retired[t]
        /\ \A t \in Threads : pc[t] # "push_link" => node[t] # n
    BY DEF InFifo
  <2>2. \A t \in Threads : n \notin Held(t)
    BY <2>1 DEF Held, Private, PrivateLabels
  <2> QED
    BY <1>1, <2>1, <2>2 DEF Partition
<1> QED
  BY <1>2, <1>3

LEMMA NodesAccounted == ASSUME IInv PROVE NodesIntact
<1>1. PICK c \in [Nat -> Nodes], lo \in Nat : Queue(c, lo)
  BY DEF IInv
<1>2. TypeOK /\ Last \in Nat /\ Len(popped) \in Nat
  BY LastType DEF IInv
<1>3. InFifo = ChainNodes(c, lo)
  BY <1>1, <1>2, InFifoNodes DEF IInv, ThreadInv, PushInv
<1>4. InService => Cardinality(InFifo) = Len(pushed) - Len(popped) + 1
  <2> SUFFICES ASSUME InService
               PROVE  Cardinality(InFifo) = Len(pushed) - Len(popped) + 1
    OBVIOUS
  <2>1. lo = Len(popped) /\ lo <= Last
    BY <1>1 DEF Queue, Chain, InService
  <2>2. IsFiniteSet(lo .. Last) /\ Cardinality(lo .. Last) = Last - lo + 1
    BY <1>2, <2>1, FS_Interval
  <2>3. PICK f : f = [j \in lo .. Last |-> c[j]]
    OBVIOUS
  <2>4. f \in Bijection(lo .. Last, ChainNodes(c, lo))
    <3>1. f \in [lo .. Last -> ChainNodes(c, lo)]
      BY <2>3 DEF ChainNodes
    <3>2. \A i, j \in lo .. Last : f[i] = f[j] => i = j
      BY <1>1, <2>3 DEF Queue, Chain
    <3>3. \A n \in ChainNodes(c, lo) : \E j \in lo .. Last : f[j] = n
      BY <2>3 DEF ChainNodes
    <3> QED
      BY <3>1, <3>2, <3>3 DEF Bijection, Injection, Surjection, IsInjective
  <2>5. Cardinality(ChainNodes(c, lo)) = Last - lo + 1
    BY <2>2, <2>4, FS_Bijection DEF ExistsBijection
  <2> QED
    BY <1>3, <2>1, <2>5 DEF Last
<1>5. head = NULL => InFifo = {}
  <2>1. head = NULL => ~(lo <= Last)
    BY <1>1, <1>2, Constants DEF Queue, Chain
  <2>2. head = NULL => lo .. Last = {}
    BY <1>2, <2>1
  <2> QED
    BY <1>3, <2>2 DEF ChainNodes
<1>6. /\ \A t, u \in Threads : t # u => retired[t] \cap retired[u] = {}
      /\ \A t \in Threads : retired[t] \cap free = {}
  BY <1>1 DEF Queue, Partition, Held
<1> QED
  BY <1>2, <1>4, <1>5, <1>6 DEF NodesIntact, NodesConserved

\* While the fifo is in service it has one node more than it has values, a destroyed one
\* has none, and a node is in at most one retired list and never given back from there
\* twice: pushes, pops, scans and mpmc_fifo_destroy lose no node.
THEOREM NodesCorrect == ASSUME Fenced PROVE Spec => []NodesIntact
<1>1. IInv => NodesIntact
  BY NodesAccounted
<1> QED
  BY <1>1, Invariant, PTL

=============================================================================
