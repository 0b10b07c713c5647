--------------------------- MODULE DistFifoProofs ---------------------------
(***************************************************************************)
(* Proofs about dist_fifo.h and the mpmc_lifo.h that shares its nodes, for *)
(* every number of threads and every set of nodes and of items.            *)
(***************************************************************************)
EXTENDS DistFifo, FiniteSetTheorems, NaturalsInduction, WellFoundedInduction, TLAPS

-----------------------------------------------------------------------------
(* The inductive invariant.                                                *)

NodesOf(s) == {s[i] : i \in 1 .. Len(s)}

Injective(s) == \A i, j \in 1 .. Len(s) : s[i] = s[j] => i = j

\* The i-th node of the sequence s, and NULL beyond its ends.
At(s, i) == IF i \in 1 .. Len(s) THEN s[i] ELSE NULL

\* Each node of s is linked to the one after it, and the last one to none.
Links(s) == \A i \in 1 .. Len(s) : next[s[i]] = At(s, i + 1)

\* The chain at `first` is the sequence s, and ends there.
IsList(first, s) == first = At(s, 1) /\ Links(s)

\* The nodes a thread holds: its own, and the one it is pushing.
Held(t) == mine[t] \cup ({arg[t]} \ {NULL})

\* Every node is in exactly one place, where F is what the fifo and S what the lifo has.
Partition(F, S) ==
    /\ F \cap S = {} /\ (F \cup S) \cap freed = {}
    /\ \A t \in Threads : Held(t) \cap (F \cup S \cup freed) = {}
    /\ \A t, u \in Threads : t # u => Held(t) \cap Held(u) = {}
    /\ \A t \in Threads : arg[t] \notin mine[t]
    /\ \A x \in Nodes : x \in F \cup S \cup freed \/ \E t \in Threads : x \in Held(t)

DestroyLabels == {"dist_destroy", "lifo_destroy", "destroyed"}

\* Nobody has begun to destroy the two.
Serving == \A t \in Threads : pc[t] \notin DestroyLabels

\* The fifo from its dummy node on: one more node than items, the items in order.
FifoHolds(f) ==
    /\ Len(popped) <= Len(pushed) /\ Len(f) = Len(pushed) - Len(popped) + 1
    /\ tail = f[Len(f)]
    /\ \A i \in 2 .. Len(f) : data[f[i]] = pushed[Len(popped) + i - 1]

\* f is the fifo and s the lifo.
Chains(f, s) ==
    /\ f \in Seq(Nodes) /\ s \in Seq(Nodes) /\ Injective(f) /\ Injective(s)
    /\ IsList(head.node, f) /\ IsList(lifo.node, s)
    /\ Partition(NodesOf(f), NodesOf(s))
    /\ Serving => FifoHolds(f)
    /\ Serving \/ f = <<>> \/ \E t \in Threads : pc[t] = "dist_destroy"

\* One thread destroys, when all calls have ended.
DestroyInv ==
    /\ \/ Serving
       \/ \A t \in Threads : pc[t] \in DestroyLabels
    /\ \A t, u \in Threads :
          pc[t] \in {"dist_destroy", "lifo_destroy"} /\ pc[u] \in {"dist_destroy", "lifo_destroy"}
              => t = u

\* A pushing thread has a node; it is linked to what the thread saw at the head of the
\* lifo, or ends the chain that the fifo is going to have.
PushInv(t) ==
    /\ arg[t] # NULL <=> pc[t] \in {"push_counter", "push_head", "push_cas", "dist_link"}
    /\ pc[t] = "push_cas" => next[arg[t]] = snapshot[t].node
    /\ pc[t] = "dist_link" => t = Pusher /\ next[arg[t]] = NULL /\ data[arg[t]] \in Items

\* As long as the counter is the one a thread has read, the head of the lifo and its
\* successor are what the thread has read after it.
LifoPopInv(t) ==
    /\ pc[t] \in {"pop_head", "pop_next", "pop_cas"} => snapshot[t].counter <= lifo.counter
    /\ pc[t] \in {"pop_next", "pop_cas"} =>
          /\ snapshot[t].node \in Nodes
          /\ snapshot[t].counter = lifo.counter => snapshot[t].node = lifo.node
    /\ pc[t] = "pop_cas" /\ snapshot[t].counter = lifo.counter =>
          following[t] = next[lifo.node]

\* And so for the head of the fifo, its successor and that one's data.
FifoPopInv(t) ==
    /\ pc[t] \in {"dist_head", "dist_next", "dist_data", "dist_cas"} =>
          snapshot[t].counter <= head.counter
    /\ pc[t] \in {"dist_next", "dist_data", "dist_cas"} =>
          /\ snapshot[t].node \in Nodes
          /\ snapshot[t].counter = head.counter => snapshot[t].node = head.node
    /\ pc[t] \in {"dist_data", "dist_cas"} =>
          /\ following[t] # NULL
          /\ snapshot[t].counter = head.counter => following[t] = next[head.node]
    /\ pc[t] = "dist_cas" /\ snapshot[t].counter = head.counter =>
          taken[t] = data[following[t]]

ThreadInv(t) == PushInv(t) /\ LifoPopInv(t) /\ FifoPopInv(t)

Labels ==
    {"idle", "push_counter", "push_head", "push_cas", "pop_counter", "pop_head", "pop_next",
     "pop_cas", "dist_link", "dist_head", "dist_next", "dist_data", "dist_cas"}
        \cup DestroyLabels

IInv ==
    /\ TypeOK /\ pc \in [Threads -> Labels] /\ FifoOrder /\ DestroyInv
    /\ \E f, s \in Seq(Nodes) : Chains(f, s)
    /\ \A t \in Threads : ThreadInv(t)

-----------------------------------------------------------------------------
(* Sequences of nodes and the chains they stand for.                       *)

\* Elements, and what is beyond the ends.
LEMMA AtType ==
    ASSUME NEW s \in Seq(Nodes), NEW i \in Int
    PROVE  /\ At(s, i) \in Nodes \cup {NULL}
           /\ At(s, i) = NULL <=> i \notin 1 .. Len(s)
           /\ At(s, i) # NULL => At(s, i) = s[i] /\ s[i] \in NodesOf(s)
BY NodesAssumption DEF At, NodesOf

LEMMA NodesOfType ==
    ASSUME NEW s \in Seq(Nodes)
    PROVE  /\ NodesOf(s) \subseteq Nodes /\ Len(s) \in Nat
           /\ \A i \in 1 .. Len(s) : s[i] \in NodesOf(s)
BY DEF NodesOf

\* A chain stays what it is as long as nobody writes to its nodes.
LEMMA LinksKept ==
    ASSUME NEW s, Links(s), \A x \in NodesOf(s) : next'[x] = next[x]
    PROVE  Links(s)'
<1>1. \A i \in 1 .. Len(s) : next'[s[i]] = next[s[i]]
  BY DEF NodesOf
<1>2. QED
  BY <1>1 DEF Links, At

\* A node in front.
LEMMA Front ==
    ASSUME NEW s \in Seq(Nodes), NEW x \in Nodes
    PROVE  LET r == <<x>> \o s IN
           /\ r \in Seq(Nodes) /\ Len(r) = Len(s) + 1
           /\ r[1] = x /\ \A i \in 1 .. Len(s) : r[i + 1] = s[i]
           /\ \A i \in 2 .. Len(r) : i - 1 \in 1 .. Len(s) /\ r[i] = s[i - 1]
<1> DEFINE r == <<x>> \o s
<1>1. r \in Seq(Nodes) /\ Len(r) = Len(s) + 1 /\ Len(s) \in Nat
  OBVIOUS
<1>2. \A i \in 1 .. Len(r) : r[i] = IF i = 1 THEN x ELSE s[i - 1]
  OBVIOUS
<1> HIDE DEF r
<1>3. r[1] = x /\ \A i \in 1 .. Len(s) : r[i + 1] = s[i]
  BY <1>1, <1>2
<1>4. \A i \in 2 .. Len(r) : i - 1 \in 1 .. Len(s) /\ r[i] = s[i - 1]
  BY <1>1, <1>2
<1>5. QED
  BY <1>1, <1>3, <1>4 DEF r

LEMMA FrontNodes ==
    ASSUME NEW s \in Seq(Nodes), NEW x \in Nodes, x \notin NodesOf(s), Injective(s)
    PROVE  /\ NodesOf(<<x>> \o s) = NodesOf(s) \cup {x}
           /\ Injective(<<x>> \o s)
<1> DEFINE r == <<x>> \o s
<1>1. /\ r \in Seq(Nodes) /\ Len(r) = Len(s) + 1 /\ Len(s) \in Nat
      /\ r[1] = x /\ \A i \in 1 .. Len(s) : r[i + 1] = s[i]
      /\ \A i \in 2 .. Len(r) : i - 1 \in 1 .. Len(s) /\ r[i] = s[i - 1]
  BY Front
<1> HIDE DEF r
<1>2. \A i \in 1 .. Len(r) : i = 1 \/ i \in 2 .. Len(r)
  BY <1>1
<1>3. ASSUME NEW i \in 1 .. Len(r) PROVE r[i] \in NodesOf(s) \cup {x}
  BY <1>1, <1>2 DEF NodesOf
<1>4. x \in NodesOf(r)
  <2>1. 1 \in 1 .. Len(r)
    BY <1>1
  <2>2. QED
    BY <1>1, <2>1 DEF NodesOf
<1>5. ASSUME NEW i \in 1 .. Len(s) PROVE s[i] \in NodesOf(r)
  <2>1. s[i] = r[i + 1] /\ i + 1 \in 1 .. Len(r)
    BY <1>1
  <2>2. QED
    BY <2>1 DEF NodesOf
<1>6. NodesOf(r) = NodesOf(s) \cup {x}
  <2>1. NodesOf(r) \subseteq NodesOf(s) \cup {x}
    BY <1>3 DEF NodesOf
  <2>2. NodesOf(s) \subseteq NodesOf(r)
    BY <1>5 DEF NodesOf
  <2>3. QED
    BY <1>4, <2>1, <2>2
<1>7. \A i, j \in 1 .. Len(r) : r[i] = r[j] => i = j
  <2> TAKE i, j \in 1 .. Len(r)
  <2>1. CASE i = 1 /\ j = 1
    BY <2>1
  <2>2. CASE i = 1 /\ j \in 2 .. Len(r)
    BY <2>2, <1>1 DEF NodesOf
  <2>3. CASE i \in 2 .. Len(r) /\ j = 1
    BY <2>3, <1>1 DEF NodesOf
  <2>4. CASE i \in 2 .. Len(r) /\ j \in 2 .. Len(r)
    <3>1. s[i - 1] = s[j - 1] => i - 1 = j - 1
      BY <2>4, <1>1 DEF Injective
    <3>2. QED
      BY <3>1, <2>4, <1>1
  <2>5. QED
    BY <1>2, <2>1, <2>2, <2>3, <2>4
<1>8. QED
  BY <1>6, <1>7 DEF r, Injective

\* A node linked to the chain is the front of a longer one.
LEMMA FrontLinks ==
    ASSUME NEW s \in Seq(Nodes), NEW x \in Nodes, Links(s), next[x] = At(s, 1)
    PROVE  IsList(x, <<x>> \o s)
<1> DEFINE r == <<x>> \o s
<1>1. /\ r \in Seq(Nodes) /\ Len(r) = Len(s) + 1 /\ Len(s) \in Nat
      /\ r[1] = x /\ \A i \in 1 .. Len(s) : r[i + 1] = s[i]
      /\ \A i \in 2 .. Len(r) : i - 1 \in 1 .. Len(s) /\ r[i] = s[i - 1]
  BY Front
<1> HIDE DEF r
<1>2. \A i \in 1 .. Len(s) + 1 : At(r, i + 1) = At(s, i)
  BY <1>1 DEF At
<1>3. x = At(r, 1)
  BY <1>1 DEF At
<1>4. ASSUME NEW i \in 1 .. Len(r) PROVE next[r[i]] = At(r, i + 1)
  <2>1. CASE i = 1
    BY <2>1, <1>1, <1>2
  <2>2. CASE i \in 2 .. Len(r)
    <3>1. next[s[i - 1]] = At(s, (i - 1) + 1)
      BY <2>2, <1>1 DEF Links
    <3>2. (i - 1) + 1 = i /\ i \in 1 .. Len(s) + 1
      BY <2>2, <1>1
    <3>3. QED
      BY <3>1, <3>2, <2>2, <1>1, <1>2
  <2>3. QED
    BY <2>1, <2>2, <1>1
<1>5. QED
  BY <1>3, <1>4 DEF r, IsList, Links

\* The chain without its first node.
LEMMA Rest ==
    ASSUME NEW s \in Seq(Nodes), s # <<>>
    PROVE  /\ Tail(s) \in Seq(Nodes) /\ Len(Tail(s)) = Len(s) - 1 /\ Len(s) \in Nat \ {0}
           /\ \A i \in 1 .. Len(s) - 1 : Tail(s)[i] = s[i + 1]
           /\ \A i \in Nat \ {0} : At(Tail(s), i) = At(s, i + 1)
<1>1. Len(s) \in Nat \ {0} /\ Tail(s) \in Seq(Nodes)
  OBVIOUS
<1>2. Len(Tail(s)) = Len(s) - 1 /\ \A i \in 1 .. Len(s) - 1 : Tail(s)[i] = s[i + 1]
  OBVIOUS
<1>3. \A i \in Nat \ {0} : At(Tail(s), i) = At(s, i + 1)
  BY <1>1, <1>2 DEF At
<1>4. QED
  BY <1>1, <1>2, <1>3

LEMMA RestNodes ==
    ASSUME NEW s \in Seq(Nodes), s # <<>>, Injective(s)
    PROVE  NodesOf(Tail(s)) = NodesOf(s) \ {s[1]} /\ s[1] \in NodesOf(s) /\ Injective(Tail(s))
<1> DEFINE r == Tail(s)
<1>1. /\ r \in Seq(Nodes) /\ Len(r) = Len(s) - 1 /\ Len(s) \in Nat \ {0}
      /\ \A i \in 1 .. Len(s) - 1 : r[i] = s[i + 1]
  BY Rest
<1> HIDE DEF r
<1>2. s[1] \in NodesOf(s)
  BY <1>1 DEF NodesOf
<1>3. ASSUME NEW i \in 1 .. Len(r) PROVE r[i] \in NodesOf(s) \ {s[1]}
  <2>1. i + 1 \in 1 .. Len(s) /\ r[i] = s[i + 1] /\ 1 \in 1 .. Len(s) /\ i + 1 # 1
    BY <1>1
  <2>2. QED
    BY <2>1 DEF NodesOf, Injective
<1>4. ASSUME NEW i \in 1 .. Len(s), s[i] # s[1] PROVE s[i] \in NodesOf(r)
  <2>1. i - 1 \in 1 .. Len(r) /\ r[i - 1] = s[i]
    <3>1. i # 1
      BY <1>4
    <3>2. i - 1 \in 1 .. Len(s) - 1 /\ (i - 1) + 1 = i
      BY <1>1, <3>1
    <3>3. r[i - 1] = s[(i - 1) + 1]
      BY <1>1, <3>2
    <3>4. QED
      BY <1>1, <3>2, <3>3
  <2>2. QED
    BY <2>1 DEF NodesOf
<1>5. NodesOf(r) = NodesOf(s) \ {s[1]}
  <2>1. NodesOf(r) \subseteq NodesOf(s) \ {s[1]}
    BY <1>3 DEF NodesOf
  <2>2. NodesOf(s) \ {s[1]} \subseteq NodesOf(r)
    BY <1>4 DEF NodesOf
  <2>3. QED
    BY <2>1, <2>2
<1>6. \A i, j \in 1 .. Len(r) : r[i] = r[j] => i = j
  <2> TAKE i, j \in 1 .. Len(r)
  <2>1. i + 1 \in 1 .. Len(s) /\ j + 1 \in 1 .. Len(s) /\ r[i] = s[i + 1] /\ r[j] = s[j + 1]
    BY <1>1
  <2>2. s[i + 1] = s[j + 1] => i + 1 = j + 1
    BY <2>1 DEF Injective
  <2>3. QED
    BY <1>1, <2>1, <2>2
<1>7. QED
  BY <1>2, <1>5, <1>6 DEF r, Injective

LEMMA RestLinks ==
    ASSUME NEW s \in Seq(Nodes), s # <<>>, Links(s)
    PROVE  IsList(next[s[1]], Tail(s))
<1> DEFINE r == Tail(s)
<1>1. /\ r \in Seq(Nodes) /\ Len(r) = Len(s) - 1 /\ Len(s) \in Nat \ {0}
      /\ \A i \in 1 .. Len(s) - 1 : r[i] = s[i + 1]
      /\ \A i \in Nat \ {0} : At(r, i) = At(s, i + 1)
  BY Rest
<1> HIDE DEF r
<1>2. next[s[1]] = At(r, 1)
  <2>1. 1 \in 1 .. Len(s) /\ At(r, 1) = At(s, 1 + 1)
    BY <1>1
  <2>2. QED
    BY <2>1 DEF Links
<1>3. ASSUME NEW i \in 1 .. Len(r) PROVE next[r[i]] = At(r, i + 1)
  <2>1. i + 1 \in 1 .. Len(s) /\ i \in 1 .. Len(s) - 1 /\ i + 1 \in Nat \ {0}
    BY <1>1
  <2>2. r[i] = s[i + 1]
    BY <1>1, <2>1
  <2>3. At(r, i + 1) = At(s, (i + 1) + 1)
    BY <1>1, <2>1
  <2>4. QED
    BY <2>1, <2>2, <2>3 DEF Links
<1>4. QED
  BY <1>2, <1>3 DEF r, IsList, Links

\* A node at the end.
LEMMA Back ==
    ASSUME NEW s \in Seq(Nodes), NEW x \in Nodes, x \notin NodesOf(s), Injective(s)
    PROVE  LET r == Append(s, x) IN
           /\ r \in Seq(Nodes) /\ Len(r) = Len(s) + 1 /\ r[Len(s) + 1] = x
           /\ \A i \in 1 .. Len(s) : r[i] = s[i]
           /\ NodesOf(r) = NodesOf(s) \cup {x} /\ Injective(r)
<1> DEFINE r == Append(s, x)
<1>1. /\ r \in Seq(Nodes) /\ Len(r) = Len(s) + 1 /\ r[Len(s) + 1] = x /\ Len(s) \in Nat
      /\ \A i \in 1 .. Len(s) : r[i] = s[i]
  OBVIOUS
<1> HIDE DEF r
<1>2. \A i \in 1 .. Len(r) : i \in 1 .. Len(s) \/ i = Len(s) + 1
  BY <1>1
<1>3. NodesOf(r) = NodesOf(s) \cup {x}
  <2>1. ASSUME NEW i \in 1 .. Len(r) PROVE r[i] \in NodesOf(s) \cup {x}
    BY <1>1, <1>2 DEF NodesOf
  <2>2. NodesOf(r) \subseteq NodesOf(s) \cup {x}
    BY <2>1 DEF NodesOf
  <2>3. ASSUME NEW i \in 1 .. Len(s) PROVE s[i] \in NodesOf(r)
    <3>1. i \in 1 .. Len(r) /\ s[i] = r[i]
      BY <1>1
    <3>2. QED
      BY <3>1 DEF NodesOf
  <2>4. x \in NodesOf(r)
    <3>1. Len(s) + 1 \in 1 .. Len(r)
      BY <1>1
    <3>2. QED
      BY <1>1, <3>1 DEF NodesOf
  <2>5. NodesOf(s) \subseteq NodesOf(r)
    BY <2>3 DEF NodesOf
  <2>6. QED
    BY <2>2, <2>4, <2>5
<1>4. \A i, j \in 1 .. Len(r) : r[i] = r[j] => i = j
  <2> TAKE i, j \in 1 .. Len(r)
  <2>1. CASE i \in 1 .. Len(s) /\ j \in 1 .. Len(s)
    BY <2>1, <1>1 DEF Injective
  <2>2. CASE i \in 1 .. Len(s) /\ j = Len(s) + 1
    BY <2>2, <1>1 DEF NodesOf
  <2>3. CASE i = Len(s) + 1 /\ j \in 1 .. Len(s)
    BY <2>3, <1>1 DEF NodesOf
  <2>4. CASE i = Len(s) + 1 /\ j = Len(s) + 1
    BY <2>4
  <2>5. QED
    BY <1>2, <2>1, <2>2, <2>3, <2>4
<1>5. QED
  BY <1>1, <1>3, <1>4 DEF r, Injective

-----------------------------------------------------------------------------
(* Facts that follow from the invariant.                                   *)

LEMMA Types ==
    ASSUME IInv, NEW t \in Threads
    PROVE  /\ next \in [Nodes -> Nodes \cup {NULL}] /\ data \in [Nodes -> Items \cup {NULL}]
           /\ head \in [counter : Nat, node : Nodes \cup {NULL}]
           /\ lifo \in [counter : Nat, node : Nodes \cup {NULL}]
           /\ snapshot[t] \in [counter : Nat, node : Nodes \cup {NULL}]
           /\ mine[t] \subseteq Nodes /\ arg[t] \in Nodes \cup {NULL}
           /\ following[t] \in Nodes \cup {NULL} /\ taken[t] \in Items \cup {NULL}
           /\ tail \in Nodes /\ freed \subseteq Nodes /\ pc[t] \in Labels
           /\ pushed \in Seq(Items) /\ popped \in Seq(Items)
BY DEF IInv, TypeOK, LifoTypeOK

\* The types of what is updated.
LEMMA Domains ==
    ASSUME IInv
    PROVE  /\ next \in [Nodes -> Nodes \cup {NULL}] /\ data \in [Nodes -> Items \cup {NULL}]
           /\ snapshot \in [Threads -> [counter : Nat, node : Nodes \cup {NULL}]]
           /\ mine \in [Threads -> SUBSET Nodes] /\ arg \in [Threads -> Nodes \cup {NULL}]
           /\ following \in [Threads -> Nodes \cup {NULL}]
           /\ taken \in [Threads -> Items \cup {NULL}] /\ pc \in [Threads -> Labels]
BY DEF IInv, TypeOK, LifoTypeOK

\* A thread in a call is not one that destroys, and nobody else does.
LEMMA InCall ==
    ASSUME IInv, NEW t \in Threads, pc[t] \notin DestroyLabels
    PROVE  Serving
BY DEF IInv, DestroyInv, Serving

LEMMA HeldNodes ==
    ASSUME IInv, NEW t \in Threads
    PROVE  /\ Held(t) \subseteq Nodes
           /\ arg[t] # NULL => arg[t] \in Held(t) /\ arg[t] \in Nodes
           /\ mine[t] \subseteq Held(t)
BY Types DEF Held

\* While the fifo is in service it has a dummy node.
LEMMA Dummy ==
    ASSUME IInv, Serving, NEW f \in Seq(Nodes), NEW s \in Seq(Nodes), Chains(f, s)
    PROVE  /\ f # <<>> /\ Len(f) \in Nat \ {0} /\ head.node = f[1] /\ head.node \in NodesOf(f)
           /\ head.node \in Nodes
           /\ Len(pushed) \in Nat /\ Len(popped) \in Nat /\ Len(popped) <= Len(pushed)
<1>1. Len(pushed) \in Nat /\ Len(popped) \in Nat /\ Len(f) \in Nat
  BY DEF IInv, TypeOK
<1>2. Len(f) \in Nat \ {0} /\ Len(popped) <= Len(pushed)
  BY <1>1 DEF Chains, FifoHolds
<1>3. head.node = f[1]
  BY <1>2 DEF Chains, IsList, At
<1>4. 1 \in 1 .. Len(f)
  BY <1>2
<1>5. head.node \in NodesOf(f)
  BY <1>3, <1>4 DEF NodesOf
<1>6. QED
  BY <1>1, <1>2, <1>3, <1>5, NodesOfType

-----------------------------------------------------------------------------
(* What a step leaves alone.                                               *)

\* Thread t steps: the others keep their variables.
Others(t) ==
    \A u \in Threads \ {t} :
        /\ pc'[u] = pc[u] /\ arg'[u] = arg[u] /\ mine'[u] = mine[u]
        /\ snapshot'[u] = snapshot[u] /\ following'[u] = following[u] /\ taken'[u] = taken[u]

\* It writes to no node that another one pushes, and either changes a head and with it
\* its counter, or leaves the head and what follows it alone.
Harmless(t) ==
    /\ \A u \in Threads \ {t} :
          arg[u] # NULL => next'[arg[u]] = next[arg[u]] /\ data'[arg[u]] = data[arg[u]]
    /\ \/ lifo'.counter = lifo.counter + 1
       \/ /\ lifo' = lifo
          /\ lifo.node \in Nodes => next'[lifo.node] = next[lifo.node]
    /\ \/ head'.counter = head.counter + 1
       \/ /\ head' = head
          /\ head.node \in Nodes /\ next[head.node] # NULL =>
                /\ next'[head.node] = next[head.node]
                /\ data'[next[head.node]] = data[next[head.node]]

\* What another thread knows stays true.
LEMMA OthersKept ==
    ASSUME IInv, NEW t \in Threads, Others(t), Harmless(t), NEW u \in Threads, u # t
    PROVE  ThreadInv(u)' /\ Held(u)' = Held(u)
<1>0. /\ pc'[u] = pc[u] /\ arg'[u] = arg[u] /\ mine'[u] = mine[u]
      /\ snapshot'[u] = snapshot[u] /\ following'[u] = following[u] /\ taken'[u] = taken[u]
  BY DEF Others
<1>1. PushInv(u) /\ LifoPopInv(u) /\ FifoPopInv(u)
  BY DEF IInv, ThreadInv
<1>2. /\ snapshot[u].counter \in Nat /\ lifo.counter \in Nat /\ head.counter \in Nat
      /\ following[u] \in Nodes \cup {NULL}
  BY Types
<1>3. arg[u] # NULL => next'[arg[u]] = next[arg[u]] /\ data'[arg[u]] = data[arg[u]]
  BY DEF Harmless
<1>4. PushInv(u)'
  BY <1>0, <1>1, <1>3 DEF PushInv
<1>5. LifoPopInv(u)'
  <2>1. CASE lifo'.counter = lifo.counter + 1
    <3>1. snapshot[u].counter <= lifo.counter =>
             snapshot[u].counter <= lifo'.counter /\ snapshot[u].counter # lifo'.counter
      BY <2>1, <1>2
    <3>2. QED
      BY <3>1, <1>0, <1>1 DEF LifoPopInv
  <2>2. CASE lifo' = lifo /\ (lifo.node \in Nodes => next'[lifo.node] = next[lifo.node])
    BY <2>2, <1>0, <1>1 DEF LifoPopInv
  <2>3. QED
    BY <2>1, <2>2 DEF Harmless
<1>6. FifoPopInv(u)'
  <2>1. CASE head'.counter = head.counter + 1
    <3>1. snapshot[u].counter <= head.counter =>
             snapshot[u].counter <= head'.counter /\ snapshot[u].counter # head'.counter
      BY <2>1, <1>2
    <3>2. QED
      BY <3>1, <1>0, <1>1 DEF FifoPopInv
  <2>2. CASE /\ head' = head
             /\ head.node \in Nodes /\ next[head.node] # NULL =>
                   /\ next'[head.node] = next[head.node]
                   /\ data'[next[head.node]] = data[next[head.node]]
    BY <2>2, <1>0, <1>1 DEF FifoPopInv
  <2>3. QED
    BY <2>1, <2>2 DEF Harmless
<1>7. QED
  BY <1>0, <1>4, <1>5, <1>6 DEF ThreadInv, Held

\* Nodes move between thread t, the fifo, the lifo and free().
LEMMA PlacesMoved ==
    ASSUME IInv, NEW t \in Threads, Others(t), NEW F, NEW S, Partition(F, S), NEW G, NEW R,
           G \cap R = {}, (G \cup R) \cap freed' = {}, Held(t)' \cap (G \cup R \cup freed') = {},
           arg'[t] \notin mine'[t],
           G \cup R \cup freed' \cup Held(t)' = F \cup S \cup freed \cup Held(t)
    PROVE  Partition(G, R)'
<1> DEFINE O == F \cup S \cup freed \cup Held(t)
<1>1. \A u \in Threads \ {t} : Held(u)' = Held(u) /\ arg'[u] = arg[u] /\ mine'[u] = mine[u]
  BY DEF Others, Held
<1>2. \A u \in Threads \ {t} : Held(u) \cap O = {}
  BY DEF Partition
<1>3. ASSUME NEW u \in Threads
      PROVE  Held(u)' \cap (G \cup R \cup freed') = {} /\ arg'[u] \notin mine'[u]
  <2>1. CASE u = t
    BY <2>1
  <2>2. CASE u # t
    BY <2>2, <1>1, <1>2 DEF Partition
  <2>3. QED
    BY <2>1, <2>2
<1>4. ASSUME NEW u \in Threads, NEW v \in Threads, u # v
      PROVE  Held(u)' \cap Held(v)' = {}
  <2>1. CASE u = t
    BY <2>1, <1>1, <1>2, <1>4
  <2>2. CASE v = t
    BY <2>2, <1>1, <1>2, <1>4
  <2>3. CASE u # t /\ v # t
    BY <2>3, <1>1, <1>4 DEF Partition
  <2>4. QED
    BY <2>1, <2>2, <2>3
<1>5. ASSUME NEW x \in Nodes
      PROVE  x \in G \cup R \cup freed' \/ \E u \in Threads : x \in Held(u)'
  <2>1. CASE x \in O
    BY <2>1
  <2>2. CASE x \notin O
    <3>1. PICK u \in Threads : x \in Held(u)
      BY <2>2 DEF Partition
    <3>2. u # t
      BY <3>1, <2>2
    <3>3. QED
      BY <3>1, <3>2, <1>1
  <2>3. QED
    BY <2>1, <2>2
<1>6. QED
  BY <1>3, <1>4, <1>5 DEF Partition

-----------------------------------------------------------------------------
(* Types.                                                                  *)

\* A pop whose CAS is going to succeed returns the oldest item.
LEMMA PopFacts ==
    ASSUME IInv, NEW t \in Threads, pc[t] = "dist_cas", CAS2Succeeds(head, snapshot[t]),
           NEW f \in Seq(Nodes), NEW s \in Seq(Nodes), Chains(f, s)
    PROVE  /\ Serving /\ snapshot[t].node = f[1] /\ snapshot[t].counter = head.counter
           /\ Len(f) >= 2 /\ following[t] = f[2] /\ next[f[1]] = f[2]
           /\ Len(popped) < Len(pushed)
           /\ taken[t] = pushed[Len(popped) + 1] /\ taken[t] \in Items
<1>1. Serving
  BY InCall DEF DestroyLabels
<1>2. snapshot[t] = head
  BY DEF CAS2Succeeds
<1>3. /\ f # <<>> /\ Len(f) \in Nat \ {0} /\ head.node = f[1] /\ Len(pushed) \in Nat
      /\ Len(popped) \in Nat
  BY <1>1, Dummy
<1>4. following[t] # NULL /\ following[t] = next[head.node] /\ taken[t] = data[following[t]]
  BY <1>2 DEF IInv, ThreadInv, FifoPopInv
<1>5. next[f[1]] = At(f, 2)
  <2>1. 1 \in 1 .. Len(f) /\ 1 + 1 = 2
    BY <1>3
  <2>2. QED
    BY <2>1 DEF Chains, IsList, Links
<1>6. 2 \in 1 .. Len(f) /\ At(f, 2) = f[2]
  BY <1>3, <1>4, <1>5, AtType
<1>7. /\ Len(f) = Len(pushed) - Len(popped) + 1
      /\ data[f[2]] = pushed[Len(popped) + 2 - 1]
  BY <1>1, <1>6 DEF Chains, FifoHolds
<1>8. Len(popped) + 1 \in 1 .. Len(pushed)
  BY <1>3, <1>6, <1>7
<1>9. pushed[Len(popped) + 1] \in Items
  BY <1>8 DEF IInv, TypeOK
<1>10. QED
  BY <1>1, <1>2, <1>3, <1>4, <1>5, <1>6, <1>7, <1>8, <1>9

\* The types without what they say of a pop under way.
Typed ==
    /\ LifoTypeOK /\ pc \in [Threads -> Labels]
    /\ head \in [counter : Nat, node : Nodes \cup {NULL}]
    /\ tail \in Nodes
    /\ data \in [Nodes -> Items \cup {NULL}]
    /\ taken \in [Threads -> Items \cup {NULL}]
    /\ pushed \in Seq(Items) /\ popped \in Seq(Items)

\* A call that returns leaves its locals empty.
LEMMA ReturnTypes ==
    ASSUME Typed, NEW t \in Threads, Return(t)
    PROVE  /\ pc' \in [Threads -> Labels] /\ pc'[t] = "idle"
           /\ arg' \in [Threads -> Nodes \cup {NULL}] /\ arg'[t] = NULL
           /\ snapshot' \in [Threads -> [counter : Nat, node : Nodes \cup {NULL}]]
           /\ following' \in [Threads -> Nodes \cup {NULL}]
           /\ \A u \in Threads \ {t} :
                 /\ pc'[u] = pc[u] /\ arg'[u] = arg[u]
                 /\ snapshot'[u] = snapshot[u] /\ following'[u] = following[u]
<1>1. [counter |-> 0, node |-> NULL] \in [counter : Nat, node : Nodes \cup {NULL}]
  OBVIOUS
<1>2. /\ pc \in [Threads -> Labels] /\ arg \in [Threads -> Nodes \cup {NULL}]
      /\ snapshot \in [Threads -> [counter : Nat, node : Nodes \cup {NULL}]]
      /\ following \in [Threads -> Nodes \cup {NULL}]
  BY DEF Typed, LifoTypeOK
<1>3. snapshot' \in [Threads -> [counter : Nat, node : Nodes \cup {NULL}]]
  BY <1>1, <1>2 DEF Return
<1>4. pc' \in [Threads -> Labels] /\ pc'[t] = "idle"
  BY <1>2 DEF Return, Goto, Labels
<1>5. arg' \in [Threads -> Nodes \cup {NULL}] /\ following' \in [Threads -> Nodes \cup {NULL}]
  BY <1>2 DEF Return
<1>6. QED
  BY <1>2, <1>3, <1>4, <1>5 DEF Return, Goto

\* The words of the lifo's calls, which touch nothing of the fifo.
LEMMA LifoTypes ==
    ASSUME IInv, NEW t \in Threads, LifoRuns(t), UNCHANGED distVars
    PROVE  Typed'
<1>0. Typed
  BY DEF IInv, TypeOK, Typed
<1>1. UNCHANGED <<head, tail, data, taken, pushed, popped>>
  BY DEF distVars, history
<1> SUFFICES LifoTypeOK' /\ pc' \in [Threads -> Labels]
  BY <1>0, <1>1 DEF Typed
<1>3. CASE LifoPushCounter(t)
  BY <1>0, <1>3 DEF Typed, LifoTypeOK, LifoPushCounter, ReadCounter, Goto, Labels
<1>4. CASE LifoPushHead(t)
  BY <1>0, <1>4 DEF Typed, LifoTypeOK, LifoPushHead, Goto, Labels
<1>5. CASE LifoPushCAS(t)
  <2>1. CASE CAS2Succeeds(lifo, snapshot[t])
    <3>1. Return(t) /\ UNCHANGED <<next, mine, freed>>
          /\ lifo' = [counter |-> snapshot[t].counter + 1, node |-> arg[t]]
      BY <1>5, <2>1 DEF LifoPushCAS
    <3>2. snapshot[t].counter \in Nat /\ arg[t] \in Nodes \cup {NULL}
      BY Types
    <3>3. QED
      BY <1>0, <3>1, <3>2, ReturnTypes DEF Typed, LifoTypeOK
  <2>2. CASE ~CAS2Succeeds(lifo, snapshot[t])
    BY <1>0, <1>5, <2>2 DEF Typed, LifoTypeOK, LifoPushCAS, Goto, Labels
  <2>3. QED
    BY <2>1, <2>2
<1>6. CASE LifoPopRetry(t)
  BY <1>0, <1>6 DEF Typed, LifoTypeOK, LifoPopRetry, ReadCounter, Goto, Labels
<1>7. CASE LifoPopHead(t)
  <2>1. CASE lifo.node = NULL
    <3>1. Return(t) /\ UNCHANGED <<next, lifo, mine, freed>>
      BY <1>7, <2>1 DEF LifoPopHead
    <3>2. QED
      BY <1>0, <3>1, ReturnTypes DEF Typed, LifoTypeOK
  <2>2. CASE lifo.node # NULL
    <3>1. /\ snapshot' = [snapshot EXCEPT ![t].node = lifo.node]
          /\ pc' = [pc EXCEPT ![t] = "pop_next"]
          /\ UNCHANGED <<next, lifo, mine, arg, following, freed>>
      BY <1>7, <2>2 DEF LifoPopHead, Goto
    <3>2. snapshot' \in [Threads -> [counter : Nat, node : Nodes \cup {NULL}]]
      BY <1>0, <3>1 DEF Typed, LifoTypeOK
    <3>3. pc' \in [Threads -> Labels]
      BY <1>0, <3>1 DEF Typed, Labels
    <3>4. QED
      BY <1>0, <3>1, <3>2, <3>3 DEF Typed, LifoTypeOK
  <2>3. QED
    BY <2>1, <2>2
<1>8. CASE LifoPopNext(t)
  <2>1. next[snapshot[t].node] \in Nodes \cup {NULL}
    BY <1>0, <1>8 DEF IInv, ThreadInv, LifoPopInv, LifoPopNext, Typed, LifoTypeOK
  <2>2. QED
    BY <1>0, <1>8, <2>1 DEF Typed, LifoTypeOK, LifoPopNext, Goto, Labels
<1>9. CASE LifoPopCAS(t)
  <2>1. snapshot[t].node \in Nodes
    BY <1>9 DEF IInv, ThreadInv, LifoPopInv, LifoPopCAS
  <2>2. QED
    <3>1. CASE CAS2Succeeds(lifo, snapshot[t])
      <4>1. Return(t) /\ UNCHANGED <<next, freed>>
            /\ lifo' = [counter |-> snapshot[t].counter + 1, node |-> following[t]]
            /\ mine' = [mine EXCEPT ![t] = @ \cup {snapshot[t].node}]
        BY <1>9, <3>1 DEF LifoPopCAS
      <4>2. snapshot[t].counter \in Nat /\ following[t] \in Nodes \cup {NULL}
        BY Types
      <4>3. mine' \in [Threads -> SUBSET Nodes]
        BY <1>0, <2>1, <4>1 DEF Typed, LifoTypeOK
      <4>4. QED
        BY <1>0, <4>1, <4>2, <4>3, ReturnTypes DEF Typed, LifoTypeOK
    <3>2. CASE ~CAS2Succeeds(lifo, snapshot[t])
      BY <1>0, <1>9, <3>2 DEF Typed, LifoTypeOK, LifoPopCAS, Goto, Labels
    <3>3. QED
      BY <3>1, <3>2
<1>10. CASE LifoDestroy(t)
  BY <1>0, <1>10 DEF Typed, LifoTypeOK, LifoDestroy, Goto, Labels, DestroyLabels
<1>11. QED
  BY <1>3, <1>4, <1>5, <1>6, <1>7, <1>8, <1>9, <1>10 DEF LifoRuns

\* And the words of all other calls.
LEMMA TypeStep ==
    ASSUME IInv, Next
    PROVE  Typed'
<1>0. Typed
  BY DEF IInv, TypeOK, Typed
<1>1. ASSUME NEW n \in Nodes, NEW v \in Items, DistPushCall(n, v) PROVE Typed'
  BY <1>0, <1>1, PusherAssumption
  DEF Typed, LifoTypeOK, DistPushCall, Goto, Labels, history
<1>2. ASSUME DistPushLink PROVE Typed'
  <2>1. Return(Pusher) /\ tail' = arg[Pusher] /\ UNCHANGED <<lifo, mine, freed, head, data, taken, popped>>
        /\ next' = [next EXCEPT ![tail] = arg[Pusher]] /\ pushed' = Append(pushed, data[arg[Pusher]])
    BY <1>2 DEF DistPushLink
  <2>2. arg[Pusher] \in Nodes /\ data[arg[Pusher]] \in Items
    BY <1>2, PusherAssumption, Types DEF DistPushLink, IInv, ThreadInv, PushInv
  <2>3. next' \in [Nodes -> Nodes \cup {NULL}] /\ pushed' \in Seq(Items)
    BY <1>0, <2>1, <2>2 DEF Typed, LifoTypeOK
  <2>4. QED
    BY <1>0, <2>1, <2>2, <2>3, ReturnTypes, PusherAssumption DEF Typed, LifoTypeOK
<1>3. ASSUME NEW t \in Threads, TrypopCall(t) PROVE Typed'
  BY <1>0, <1>3 DEF Typed, LifoTypeOK, TrypopCall, ReadCounter, Goto, Labels, distVars, history
<1>4. ASSUME NEW t \in Threads, TrypopHead(t) PROVE Typed'
  BY <1>0, <1>4 DEF Typed, LifoTypeOK, TrypopHead, Goto, Labels, distVars, history
<1>5. ASSUME NEW t \in Threads, TrypopNext(t) PROVE Typed'
  <2>1. next[snapshot[t].node] \in Nodes \cup {NULL}
    BY <1>0, <1>5 DEF IInv, ThreadInv, FifoPopInv, TrypopNext, Typed, LifoTypeOK
  <2>2. CASE next[snapshot[t].node] = NULL
    <3>1. Return(t) /\ UNCHANGED <<next, lifo, mine, freed, distVars>>
      BY <1>5, <2>2 DEF TrypopNext
    <3>2. QED
      BY <1>0, <3>1, ReturnTypes DEF Typed, LifoTypeOK, distVars, history
  <2>3. CASE next[snapshot[t].node] # NULL
    <3>1. /\ following' = [following EXCEPT ![t] = next[snapshot[t].node]]
          /\ pc' = [pc EXCEPT ![t] = "dist_data"]
          /\ UNCHANGED <<next, lifo, mine, arg, snapshot, freed, distVars>>
      BY <1>5, <2>3 DEF TrypopNext, Goto
    <3>2. following' \in [Threads -> Nodes \cup {NULL}] /\ pc' \in [Threads -> Labels]
      BY <1>0, <2>1, <3>1 DEF Typed, LifoTypeOK, Labels
    <3>3. QED
      BY <1>0, <3>1, <3>2 DEF Typed, LifoTypeOK, distVars, history
  <2>4. QED
    BY <2>2, <2>3
<1>6. ASSUME NEW t \in Threads, TrypopData(t) PROVE Typed'
  <2>1. data[following[t]] \in Items \cup {NULL}
    BY <1>0, <1>6, Types DEF IInv, ThreadInv, FifoPopInv, TrypopData, Typed
  <2>2. QED
    BY <1>0, <1>6, <2>1 DEF Typed, LifoTypeOK, TrypopData, Goto, Labels, history
<1>7. ASSUME NEW t \in Threads, TrypopCAS(t) PROVE Typed'
  <2>1. Return(t) /\ UNCHANGED <<next, lifo, freed, tail, pushed>>
        /\ taken' = [taken EXCEPT ![t] = NULL]
    BY <1>7 DEF TrypopCAS
  <2>2. CASE CAS2Succeeds(head, snapshot[t])
    <3>1. PICK f \in Seq(Nodes), s \in Seq(Nodes) : Chains(f, s)
      BY DEF IInv
    <3>2. taken[t] \in Items /\ snapshot[t].node \in Nodes /\ snapshot[t].counter \in Nat
          /\ following[t] \in Nodes \cup {NULL}
      <4>1. pc[t] = "dist_cas"
        BY <1>7 DEF TrypopCAS
      <4>2. taken[t] \in Items
        BY <2>2, <3>1, <4>1, PopFacts
      <4>3. QED
        BY <4>1, <4>2, Types DEF IInv, ThreadInv, FifoPopInv
    <3>3. /\ head' = [counter |-> snapshot[t].counter + 1, node |-> following[t]]
          /\ data' = [data EXCEPT ![snapshot[t].node] = taken[t]]
          /\ mine' = [mine EXCEPT ![t] = @ \cup {snapshot[t].node}]
          /\ popped' = Append(popped, taken[t])
      BY <1>7, <2>2 DEF TrypopCAS
    <3>4. /\ data' \in [Nodes -> Items \cup {NULL}] /\ mine' \in [Threads -> SUBSET Nodes]
          /\ popped' \in Seq(Items) /\ taken' \in [Threads -> Items \cup {NULL}]
      BY <1>0, <2>1, <3>2, <3>3 DEF Typed, LifoTypeOK
    <3>5. head' \in [counter : Nat, node : Nodes \cup {NULL}]
      BY <3>2, <3>3
    <3>6. LifoTypeOK'
      BY <1>0, <2>1, <3>4, ReturnTypes DEF Typed, LifoTypeOK
    <3>7. pc' \in [Threads -> Labels]
      BY <1>0, <2>1, ReturnTypes
    <3>8. QED
      BY <1>0, <2>1, <3>4, <3>5, <3>6, <3>7 DEF Typed
  <2>3. CASE ~CAS2Succeeds(head, snapshot[t])
    <3>1. UNCHANGED <<head, data, mine, popped>>
      BY <1>7, <2>3 DEF TrypopCAS
    <3>2. QED
      BY <1>0, <2>1, <3>1, ReturnTypes DEF Typed, LifoTypeOK
  <2>4. QED
    BY <2>2, <2>3
<1>8. ASSUME NEW t \in Threads, DestroyCall(t) PROVE Typed'
  BY <1>0, <1>8 DEF Typed, LifoTypeOK, DestroyCall, Labels, DestroyLabels, distVars, history
<1>9. ASSUME NEW t \in Threads, DistDestroy(t) PROVE Typed'
  BY <1>0, <1>9 DEF Typed, LifoTypeOK, DistDestroy, Goto, Labels, DestroyLabels, history
<1>10. ASSUME NEW t \in Threads, LifoCalls(t) PROVE Typed'
  <2>1. CASE LifoPopCall(t)
    BY <1>0, <1>10, <2>1 DEF Typed, LifoTypeOK, LifoCalls, LifoPopCall, ReadCounter, Goto,
                             Labels, distVars, history
  <2>2. ASSUME NEW n \in Nodes, LifoPushCall(t, n) PROVE Typed'
    BY <1>0, <1>10, <2>2 DEF Typed, LifoTypeOK, LifoCalls, LifoPushCall, Goto,
                             Labels, distVars, history
  <2>3. QED
    BY <1>10, <2>1, <2>2 DEF LifoCalls
<1>11. QED
  BY <1>1, <1>2, <1>3, <1>4, <1>5, <1>6, <1>7, <1>8, <1>9, <1>10, LifoTypes DEF Next, Runs

-----------------------------------------------------------------------------
(* Steps of calls.                                                         *)

\* What is left to show of a step of thread t that neither begins nor belongs to the
\* destruction.
LEMMA StepPreserves ==
    ASSUME IInv, Typed', NEW t \in Threads, Others(t), Harmless(t),
           pc[t] \notin DestroyLabels, pc'[t] \notin DestroyLabels, ThreadInv(t)',
           FifoOrder', \E f, s \in Seq(Nodes) : Chains(f, s)'
    PROVE  IInv'
<1>1. Serving
  BY InCall
<1>2. DestroyInv'
  BY <1>1 DEF Others, Serving, DestroyInv, DestroyLabels
<1>3. ASSUME NEW u \in Threads PROVE ThreadInv(u)'
  BY OthersKept
<1>4. TypeOK'
  BY <1>3 DEF Typed, TypeOK, ThreadInv, FifoPopInv
<1>5. pc' \in [Threads -> Labels]
  BY DEF Typed, Labels, DestroyLabels
<1>6. (\E f, s \in Seq(Nodes) : Chains(f, s))'
  OBVIOUS
<1>7. QED
  BY <1>2, <1>3, <1>4, <1>5, <1>6 DEF IInv

\* In service, before and after it.
LEMMA StillServing ==
    ASSUME IInv, NEW t \in Threads, Others(t),
           pc[t] \notin DestroyLabels, pc'[t] \notin DestroyLabels
    PROVE  Serving /\ Serving'
<1>1. Serving
  BY InCall
<1>2. QED
  BY <1>1 DEF Others, Serving

\* A step that only reads.
Quiet(t) ==
    /\ Others(t) /\ pc[t] \notin DestroyLabels /\ pc'[t] \notin DestroyLabels
    /\ arg'[t] = arg[t]
    /\ UNCHANGED <<next, lifo, mine, freed, head, tail, data, pushed, popped>>

LEMMA QuietStep ==
    ASSUME IInv, Typed', NEW t \in Threads, Quiet(t), ThreadInv(t)'
    PROVE  IInv'
<1>1. Others(t) /\ pc[t] \notin DestroyLabels /\ pc'[t] \notin DestroyLabels
      /\ UNCHANGED <<next, lifo, mine, freed, head, tail, data, pushed, popped>>
      /\ arg'[t] = arg[t]
  BY DEF Quiet
<1>2. Harmless(t)
  BY <1>1 DEF Harmless
<1>3. Serving /\ Serving'
  BY <1>1, StillServing
<1>4. PICK f \in Seq(Nodes), s \in Seq(Nodes) : Chains(f, s)
  BY DEF IInv
<1>5. Links(f)' /\ Links(s)'
  BY <1>1, <1>4, LinksKept DEF Chains, IsList
<1>6. Partition(NodesOf(f), NodesOf(s))'
  <2>1. Held(t)' = Held(t)
    BY <1>1 DEF Held
  <2>2. Partition(NodesOf(f), NodesOf(s))
    BY <1>4 DEF Chains
  <2>3. ASSUME NEW u \in Threads PROVE Held(u)' = Held(u) /\ arg'[u] = arg[u] /\ mine'[u] = mine[u]
    BY <1>1, <2>1 DEF Others, Held
  <2>4. QED
    BY <2>2, <2>3, <1>1 DEF Partition
<1>7. FifoHolds(f)'
  BY <1>1, <1>3, <1>4 DEF Chains, FifoHolds
<1>8. Chains(f, s)'
  BY <1>1, <1>3, <1>4, <1>5, <1>6, <1>7 DEF Chains, IsList, At, Injective
<1>9. FifoOrder'
  BY <1>1 DEF IInv, FifoOrder
<1>10. QED
  BY <1>1, <1>2, <1>8, <1>9, StepPreserves

\* A call that changed nothing returns.
LEMMA QuietReturn ==
    ASSUME IInv, Typed', NEW t \in Threads, pc[t] \notin DestroyLabels, arg[t] = NULL,
           Return(t), \A u \in Threads \ {t} : taken'[u] = taken[u],
           UNCHANGED <<next, lifo, mine, freed, head, tail, data, pushed, popped>>
    PROVE  IInv'
<1>0. Typed
  BY DEF IInv, TypeOK, Typed
<1>1. /\ pc'[t] = "idle" /\ arg'[t] = NULL
      /\ \A u \in Threads \ {t} :
            /\ pc'[u] = pc[u] /\ arg'[u] = arg[u]
            /\ snapshot'[u] = snapshot[u] /\ following'[u] = following[u]
  BY <1>0, ReturnTypes
<1>2. Quiet(t)
  BY <1>1 DEF Quiet, Others, DestroyLabels
<1>3. ThreadInv(t)'
  BY <1>1 DEF ThreadInv, PushInv, LifoPopInv, FifoPopInv
<1>4. QED
  BY <1>2, <1>3, QuietStep

\* The counter is read first.
LEMMA CounterStep ==
    ASSUME IInv, Typed', NEW t \in Threads,
           \/ pc[t] = "idle" /\ ReadCounter(t, head, "dist_head")
           \/ pc[t] = "push_counter" /\ ReadCounter(t, lifo, "push_head")
           \/ pc[t] \in {"idle", "pop_counter"} /\ ReadCounter(t, lifo, "pop_head"),
           UNCHANGED distVars
    PROVE  IInv'
<1>0. PushInv(t) /\ head.counter \in Nat /\ lifo.counter \in Nat
  BY Types DEF IInv, ThreadInv
<1>1. UNCHANGED <<next, lifo, mine, arg, following, freed, head, tail, data, taken, pushed, popped>>
  BY DEF ReadCounter, distVars, history
<1>2. PICK location \in {head, lifo}, label \in {"dist_head", "push_head", "pop_head"} :
         /\ ReadCounter(t, location, label)
         /\ label = "dist_head" => pc[t] = "idle" /\ location = head
         /\ label = "push_head" => pc[t] = "push_counter" /\ location = lifo
         /\ label = "pop_head" => pc[t] \in {"idle", "pop_counter"} /\ location = lifo
  OBVIOUS
<1>3. pc' = [pc EXCEPT ![t] = label]
      /\ snapshot' = [snapshot EXCEPT ![t].counter = location.counter]
  BY <1>2 DEF ReadCounter, Goto
<1>4. pc'[t] = label /\ snapshot'[t].counter = location.counter
      /\ \A u \in Threads \ {t} : pc'[u] = pc[u] /\ snapshot'[u] = snapshot[u]
  BY <1>3, Domains
<1>5. Quiet(t)
  BY <1>1, <1>2, <1>4 DEF Quiet, Others, DestroyLabels
<1>6. ThreadInv(t)'
  BY <1>0, <1>1, <1>2, <1>4 DEF ThreadInv, PushInv, LifoPopInv, FifoPopInv
<1>7. QED
  BY <1>5, <1>6, QuietStep

\* Then the head; if the counter still is what was read, no pop came in between.
LEMMA TrypopHeadStep ==
    ASSUME IInv, Typed', NEW t \in Threads, TrypopHead(t)
    PROVE  IInv'
<1>0. PushInv(t) /\ FifoPopInv(t) /\ pc[t] = "dist_head"
  BY DEF IInv, ThreadInv, TrypopHead
<1>1. UNCHANGED <<next, lifo, mine, arg, following, freed, head, tail, data, taken, pushed, popped>>
  BY DEF TrypopHead, distVars, history
<1>2. pc'[t] = "dist_next" /\ snapshot'[t].counter = snapshot[t].counter
      /\ snapshot'[t].node = head.node
      /\ \A u \in Threads \ {t} : pc'[u] = pc[u] /\ snapshot'[u] = snapshot[u]
  BY Domains DEF TrypopHead, Goto
<1>3. head.node \in Nodes
  <2>1. Serving
    BY <1>0, InCall DEF DestroyLabels
  <2>2. QED
    BY <2>1, Dummy DEF IInv
<1>4. Quiet(t)
  BY <1>0, <1>1, <1>2 DEF Quiet, Others, DestroyLabels
<1>5. ThreadInv(t)'
  BY <1>0, <1>1, <1>2, <1>3 DEF ThreadInv, PushInv, LifoPopInv, FifoPopInv
<1>6. QED
  BY <1>4, <1>5, QuietStep

\* Then its successor, of a node that may have been popped meanwhile.
LEMMA TrypopNextStep ==
    ASSUME IInv, Typed', NEW t \in Threads, TrypopNext(t)
    PROVE  IInv'
<1>0. PushInv(t) /\ FifoPopInv(t) /\ pc[t] = "dist_next" /\ arg[t] = NULL
  BY DEF IInv, ThreadInv, TrypopNext, PushInv
<1>1. UNCHANGED <<next, lifo, mine, freed, head, tail, data, taken, pushed, popped>>
  BY DEF TrypopNext, distVars, history
<1>2. CASE next[snapshot[t].node] = NULL
  <2>1. Return(t)
    BY <1>2 DEF TrypopNext
  <2>2. QED
    BY <1>0, <1>1, <2>1, QuietReturn DEF DestroyLabels
<1>3. CASE next[snapshot[t].node] # NULL
  <2>1. /\ following' = [following EXCEPT ![t] = next[snapshot[t].node]]
        /\ pc' = [pc EXCEPT ![t] = "dist_data"] /\ UNCHANGED <<arg, snapshot>>
    BY <1>3 DEF TrypopNext, Goto
  <2>2. pc'[t] = "dist_data" /\ following'[t] = next[snapshot[t].node]
        /\ \A u \in Threads \ {t} : pc'[u] = pc[u] /\ following'[u] = following[u]
    BY <2>1, Domains
  <2>3. Quiet(t)
    BY <1>0, <1>1, <2>1, <2>2 DEF Quiet, Others, DestroyLabels
  <2>4. ThreadInv(t)'
    BY <1>0, <1>1, <1>3, <2>1, <2>2 DEF ThreadInv, PushInv, LifoPopInv, FifoPopInv
  <2>5. QED
    BY <2>3, <2>4, QuietStep
<1>4. QED
  BY <1>2, <1>3

\* Then the data.
LEMMA TrypopDataStep ==
    ASSUME IInv, Typed', NEW t \in Threads, TrypopData(t)
    PROVE  IInv'
<1>0. PushInv(t) /\ FifoPopInv(t) /\ pc[t] = "dist_data"
  BY DEF IInv, ThreadInv, TrypopData
<1>1. UNCHANGED <<next, lifo, mine, arg, snapshot, following, freed, head, tail, data, pushed, popped>>
  BY DEF TrypopData, history
<1>2. pc'[t] = "dist_cas" /\ taken'[t] = data[following[t]]
      /\ \A u \in Threads \ {t} : pc'[u] = pc[u] /\ taken'[u] = taken[u]
  BY Domains DEF TrypopData, Goto
<1>3. Quiet(t)
  BY <1>0, <1>1, <1>2 DEF Quiet, Others, DestroyLabels
<1>4. ThreadInv(t)'
  BY <1>0, <1>1, <1>2 DEF ThreadInv, PushInv, LifoPopInv, FifoPopInv
<1>5. QED
  BY <1>3, <1>4, QuietStep

\* mpmc_lifo_pop: the head, or nothing.
LEMMA LifoPopHeadStep ==
    ASSUME IInv, Typed', NEW t \in Threads, LifoPopHead(t), UNCHANGED distVars
    PROVE  IInv'
<1>0. PushInv(t) /\ LifoPopInv(t) /\ pc[t] = "pop_head" /\ arg[t] = NULL
  BY DEF IInv, ThreadInv, LifoPopHead, PushInv
<1>1. UNCHANGED <<next, lifo, mine, freed, head, tail, data, taken, pushed, popped>>
  BY DEF LifoPopHead, distVars, history
<1>2. CASE lifo.node = NULL
  <2>1. Return(t)
    BY <1>2 DEF LifoPopHead
  <2>2. QED
    BY <1>0, <1>1, <2>1, QuietReturn DEF DestroyLabels
<1>3. CASE lifo.node # NULL
  <2>1. /\ snapshot' = [snapshot EXCEPT ![t].node = lifo.node]
        /\ pc' = [pc EXCEPT ![t] = "pop_next"] /\ UNCHANGED <<arg, following>>
    BY <1>3 DEF LifoPopHead, Goto
  <2>2. pc'[t] = "pop_next" /\ snapshot'[t].counter = snapshot[t].counter
        /\ snapshot'[t].node = lifo.node
        /\ \A u \in Threads \ {t} : pc'[u] = pc[u] /\ snapshot'[u] = snapshot[u]
    BY <2>1, Domains
  <2>3. lifo.node \in Nodes
    BY <1>3, Types
  <2>4. Quiet(t)
    BY <1>0, <1>1, <2>1, <2>2 DEF Quiet, Others, DestroyLabels
  <2>5. ThreadInv(t)'
    BY <1>0, <1>1, <2>1, <2>2, <2>3 DEF ThreadInv, PushInv, LifoPopInv, FifoPopInv
  <2>6. QED
    BY <2>4, <2>5, QuietStep
<1>4. QED
  BY <1>2, <1>3

\* The node below it, which may be anywhere if the counter has moved on.
LEMMA LifoPopNextStep ==
    ASSUME IInv, Typed', NEW t \in Threads, LifoPopNext(t), UNCHANGED distVars
    PROVE  IInv'
<1>0. PushInv(t) /\ LifoPopInv(t) /\ pc[t] = "pop_next"
  BY DEF IInv, ThreadInv, LifoPopNext
<1>1. UNCHANGED <<next, lifo, mine, arg, snapshot, freed, head, tail, data, taken, pushed, popped>>
  BY DEF LifoPopNext, distVars, history
<1>2. pc'[t] = "pop_cas" /\ following'[t] = next[snapshot[t].node]
      /\ \A u \in Threads \ {t} : pc'[u] = pc[u] /\ following'[u] = following[u]
  BY Domains DEF LifoPopNext, Goto
<1>3. Quiet(t)
  BY <1>0, <1>1, <1>2 DEF Quiet, Others, DestroyLabels
<1>4. ThreadInv(t)'
  BY <1>0, <1>1, <1>2 DEF ThreadInv, PushInv, LifoPopInv, FifoPopInv
<1>5. QED
  BY <1>3, <1>4, QuietStep

\* A compare_and_swap2 that fails starts over.
LEMMA LifoRetryStep ==
    ASSUME IInv, Typed', NEW t \in Threads, UNCHANGED distVars,
           \/ LifoPushCAS(t) /\ ~CAS2Succeeds(lifo, snapshot[t])
           \/ LifoPopCAS(t) /\ ~CAS2Succeeds(lifo, snapshot[t])
    PROVE  IInv'
<1>0. PushInv(t)
  BY DEF IInv, ThreadInv
<1>1. UNCHANGED <<next, lifo, mine, arg, snapshot, following, freed, head, tail, data, taken,
                  pushed, popped>>
  BY DEF LifoPushCAS, LifoPopCAS, distVars, history
<1>2. PICK label \in {"push_counter", "pop_counter"} :
         /\ pc' = [pc EXCEPT ![t] = label]
         /\ pc[t] = IF label = "push_counter" THEN "push_cas" ELSE "pop_cas"
  BY DEF LifoPushCAS, LifoPopCAS, Goto
<1>3. pc'[t] = label /\ \A u \in Threads \ {t} : pc'[u] = pc[u]
  BY <1>2, Domains
<1>4. Quiet(t)
  BY <1>1, <1>2, <1>3 DEF Quiet, Others, DestroyLabels
<1>5. ThreadInv(t)'
  BY <1>0, <1>1, <1>2, <1>3 DEF ThreadInv, PushInv, LifoPopInv, FifoPopInv
<1>6. QED
  BY <1>4, <1>5, QuietStep

\* A step that writes to no node but the thread's own.
OwnNodesOnly(t) ==
    /\ Others(t) /\ pc[t] \notin DestroyLabels /\ pc'[t] \notin DestroyLabels
    /\ UNCHANGED <<head, lifo, tail, freed, pushed, popped>>
    /\ \A x \in Nodes \ Held(t) : next'[x] = next[x] /\ data'[x] = data[x]
    /\ Held(t)' = Held(t) /\ arg'[t] \notin mine'[t]

\* The heads are on their chains, and so is what follows them.
LEMMA Heads ==
    ASSUME IInv, NEW f \in Seq(Nodes), NEW s \in Seq(Nodes), Chains(f, s)
    PROVE  /\ lifo.node \in Nodes => lifo.node \in NodesOf(s)
           /\ head.node \in Nodes => head.node \in NodesOf(f)
           /\ head.node \in Nodes /\ next[head.node] # NULL => next[head.node] \in NodesOf(f)
<1>1. /\ lifo.node = At(s, 1) /\ head.node = At(f, 1)
      /\ \A i \in 1 .. Len(f) : next[f[i]] = At(f, i + 1)
  BY DEF Chains, IsList, Links
<1>2. NULL \notin Nodes
  BY NodesAssumption
<1>3. head.node \in Nodes => head.node = f[1] /\ 1 \in 1 .. Len(f) /\ head.node \in NodesOf(f)
  BY <1>1, <1>2, AtType
<1>4. head.node \in Nodes => next[head.node] = At(f, 1 + 1)
  BY <1>1, <1>3
<1>5. QED
  BY <1>1, <1>2, <1>3, <1>4, AtType

LEMMA OwnNodesStep ==
    ASSUME IInv, Typed', NEW t \in Threads, OwnNodesOnly(t), ThreadInv(t)'
    PROVE  IInv'
<1>1. /\ Others(t) /\ pc[t] \notin DestroyLabels /\ pc'[t] \notin DestroyLabels
      /\ UNCHANGED <<head, lifo, tail, freed, pushed, popped>>
      /\ \A x \in Nodes \ Held(t) : next'[x] = next[x] /\ data'[x] = data[x]
      /\ Held(t)' = Held(t) /\ arg'[t] \notin mine'[t]
  BY DEF OwnNodesOnly
<1>2. PICK f \in Seq(Nodes), s \in Seq(Nodes) : Chains(f, s)
  BY DEF IInv
<1>3. /\ Partition(NodesOf(f), NodesOf(s))
      /\ NodesOf(f) \subseteq Nodes \ Held(t) /\ NodesOf(s) \subseteq Nodes \ Held(t)
  BY <1>2, NodesOfType DEF Chains, Partition
<1>4. Harmless(t)
  <2>1. ASSUME NEW u \in Threads \ {t}, arg[u] # NULL PROVE arg[u] \in Nodes \ Held(t)
    BY <2>1, <1>3, HeldNodes DEF Partition
  <2>2. QED
    BY <1>1, <1>2, <1>3, <2>1, Heads DEF Harmless
<1>5. Links(f)' /\ Links(s)'
  <2>1. \A x \in NodesOf(f) \cup NodesOf(s) : next'[x] = next[x]
    BY <1>1, <1>3
  <2>2. QED
    BY <1>2, <2>1, LinksKept DEF Chains, IsList
<1>6. Partition(NodesOf(f), NodesOf(s))'
  <2>1. /\ NodesOf(f) \cap NodesOf(s) = {} /\ (NodesOf(f) \cup NodesOf(s)) \cap freed = {}
        /\ Held(t) \cap (NodesOf(f) \cup NodesOf(s) \cup freed) = {}
    BY <1>3 DEF Partition
  <2>2. QED
    BY <1>1, <1>3, <2>1, PlacesMoved
<1>7. Serving /\ Serving'
  BY <1>1, StillServing
<1>8. FifoHolds(f)'
  <2>1. FifoHolds(f)
    BY <1>2, <1>7 DEF Chains
  <2>2. \A i \in 2 .. Len(f) : data'[f[i]] = data[f[i]]
    <3>1. \A i \in 2 .. Len(f) : f[i] \in NodesOf(f)
      BY DEF NodesOf
    <3>2. QED
      BY <3>1, <1>1, <1>3
  <2>3. QED
    BY <2>1, <2>2, <1>1 DEF FifoHolds
<1>9. Chains(f, s)'
  BY <1>1, <1>2, <1>5, <1>6, <1>7, <1>8 DEF Chains, IsList, At, Injective
<1>10. FifoOrder'
  BY <1>1 DEF IInv, FifoOrder
<1>11. QED
  BY <1>1, <1>4, <1>9, <1>10, StepPreserves

\* A caller gives its node away.
LEMMA GivenAway ==
    ASSUME IInv, NEW t \in Threads, NEW n \in mine[t], pc[t] = "idle",
           arg' = [arg EXCEPT ![t] = n], mine' = [mine EXCEPT ![t] = @ \ {n}]
    PROVE  /\ n \in Nodes /\ n # NULL /\ n \in Held(t) /\ arg'[t] = n
           /\ Held(t)' = Held(t) /\ arg'[t] \notin mine'[t]
           /\ \A u \in Threads \ {t} : arg'[u] = arg[u] /\ mine'[u] = mine[u]
<1>1. arg[t] = NULL
  BY DEF IInv, ThreadInv, PushInv
<1>2. n \in Nodes /\ n # NULL
  BY Types, NodesAssumption
<1>3. arg'[t] = n /\ mine'[t] = mine[t] \ {n}
      /\ \A u \in Threads \ {t} : arg'[u] = arg[u] /\ mine'[u] = mine[u]
  BY Domains
<1>4. Held(t)' = Held(t)
  BY <1>1, <1>2, <1>3, Types, NodesAssumption DEF Held
<1>5. QED
  BY <1>2, <1>3, <1>4 DEF Held

LEMMA LifoPushCallStep ==
    ASSUME IInv, Typed', NEW t \in Threads, NEW n \in Nodes, LifoPushCall(t, n),
           UNCHANGED distVars
    PROVE  IInv'
<1>1. /\ n \in mine[t] /\ pc[t] = "idle" /\ arg' = [arg EXCEPT ![t] = n]
      /\ mine' = [mine EXCEPT ![t] = @ \ {n}] /\ pc' = [pc EXCEPT ![t] = "push_counter"]
      /\ UNCHANGED <<next, lifo, snapshot, following, freed, head, tail, data, taken, pushed, popped>>
  BY DEF LifoPushCall, Goto, distVars, history
<1>2. /\ n \in Nodes /\ n # NULL /\ arg'[t] = n
      /\ Held(t)' = Held(t) /\ arg'[t] \notin mine'[t]
      /\ \A u \in Threads \ {t} : arg'[u] = arg[u] /\ mine'[u] = mine[u]
  BY <1>1, GivenAway
<1>3. pc'[t] = "push_counter" /\ \A u \in Threads \ {t} : pc'[u] = pc[u]
  BY <1>1, Domains
<1>4. OwnNodesOnly(t)
  BY <1>1, <1>2, <1>3 DEF OwnNodesOnly, Others, DestroyLabels
<1>5. ThreadInv(t)'
  BY <1>2, <1>3 DEF ThreadInv, PushInv, LifoPopInv, FifoPopInv
<1>6. QED
  BY <1>4, <1>5, OwnNodesStep

\* The node is linked to the head the thread sees.
LEMMA LifoPushHeadStep ==
    ASSUME IInv, Typed', NEW t \in Threads, LifoPushHead(t), UNCHANGED distVars
    PROVE  IInv'
<1>0. PushInv(t) /\ pc[t] = "push_head" /\ arg[t] # NULL
  BY DEF IInv, ThreadInv, LifoPushHead, PushInv
<1>1. /\ UNCHANGED <<lifo, mine, arg, following, freed, head, tail, data, taken, pushed, popped>>
      /\ snapshot' = [snapshot EXCEPT ![t].node = lifo.node]
      /\ next' = [next EXCEPT ![arg[t]] = lifo.node]
      /\ pc' = [pc EXCEPT ![t] = "push_cas"]
  BY DEF LifoPushHead, Goto, distVars, history
<1>2. arg[t] \in Nodes /\ arg[t] \in Held(t)
  BY <1>0, HeldNodes
<1>3. /\ pc'[t] = "push_cas" /\ snapshot'[t].node = lifo.node /\ next'[arg[t]] = lifo.node
      /\ \A u \in Threads \ {t} : pc'[u] = pc[u] /\ snapshot'[u] = snapshot[u]
      /\ \A x \in Nodes \ {arg[t]} : next'[x] = next[x]
  BY <1>1, <1>2, Domains
<1>4. arg[t] \notin mine[t]
  BY DEF IInv, Chains, Partition
<1>5. OwnNodesOnly(t)
  BY <1>0, <1>1, <1>2, <1>3, <1>4 DEF OwnNodesOnly, Others, DestroyLabels, Held
<1>6. ThreadInv(t)'
  BY <1>0, <1>1, <1>3 DEF ThreadInv, PushInv, LifoPopInv, FifoPopInv
<1>7. QED
  BY <1>5, <1>6, OwnNodesStep

\* dist_fifo_push prepares its node, which ends the chain.
LEMMA DistPushCallStep ==
    ASSUME IInv, Typed', NEW n \in Nodes, NEW v \in Items, DistPushCall(n, v)
    PROVE  IInv'
<1> DEFINE t == Pusher
<1>0. t \in Threads
  BY PusherAssumption
<1>1. /\ n \in mine[t] /\ pc[t] = "idle" /\ arg' = [arg EXCEPT ![t] = n]
      /\ mine' = [mine EXCEPT ![t] = @ \ {n}] /\ pc' = [pc EXCEPT ![t] = "dist_link"]
      /\ data' = [data EXCEPT ![n] = v] /\ next' = [next EXCEPT ![n] = NULL]
      /\ UNCHANGED <<lifo, snapshot, following, freed, head, tail, taken, pushed, popped>>
  BY DEF DistPushCall, Goto, history
<1> HIDE DEF t
<1>2. /\ n \in Held(t) /\ n # NULL /\ arg'[t] = n
      /\ Held(t)' = Held(t) /\ arg'[t] \notin mine'[t]
      /\ \A u \in Threads \ {t} : arg'[u] = arg[u] /\ mine'[u] = mine[u]
  BY <1>0, <1>1, GivenAway
<1>3. /\ pc'[t] = "dist_link" /\ next'[n] = NULL /\ data'[n] = v
      /\ \A u \in Threads \ {t} : pc'[u] = pc[u]
      /\ \A x \in Nodes \ {n} : next'[x] = next[x] /\ data'[x] = data[x]
  BY <1>0, <1>1, Domains
<1>4. OwnNodesOnly(t)
  BY <1>1, <1>2, <1>3 DEF OwnNodesOnly, Others, DestroyLabels
<1>5. ThreadInv(t)'
  BY <1>2, <1>3 DEF ThreadInv, PushInv, LifoPopInv, FifoPopInv, t
<1>6. QED
  BY <1>0, <1>4, <1>5, OwnNodesStep

-----------------------------------------------------------------------------
(* Steps that change a structure.                                          *)

\* The words of a fifo whose nodes and items are left alone.
LEMMA FifoHoldsKept ==
    ASSUME NEW f \in Seq(Nodes), FifoHolds(f), UNCHANGED <<tail, pushed, popped>>,
           \A x \in NodesOf(f) : data'[x] = data[x]
    PROVE  FifoHolds(f)'
<1>1. \A i \in 2 .. Len(f) : data'[f[i]] = data[f[i]]
  BY DEF NodesOf
<1>2. QED
  BY <1>1 DEF FifoHolds

\* The node goes on top of the lifo, linked to the node that was there.
LEMMA LifoPushStep ==
    ASSUME IInv, Typed', NEW t \in Threads, LifoPushCAS(t), CAS2Succeeds(lifo, snapshot[t]),
           UNCHANGED distVars
    PROVE  IInv'
<1>0. PushInv(t) /\ pc[t] = "push_cas" /\ arg[t] # NULL /\ Typed
  BY DEF IInv, ThreadInv, LifoPushCAS, PushInv, Typed, TypeOK
<1>1. /\ UNCHANGED <<next, mine, freed, head, tail, data, taken, pushed, popped>>
      /\ Return(t) /\ lifo' = [counter |-> snapshot[t].counter + 1, node |-> arg[t]]
  BY DEF LifoPushCAS, distVars, history
<1>2. snapshot[t] = lifo /\ next[arg[t]] = lifo.node
  BY <1>0 DEF CAS2Succeeds, PushInv
<1>3. arg[t] \in Nodes /\ arg[t] \in Held(t)
  BY <1>0, HeldNodes
<1>4. /\ pc'[t] = "idle" /\ arg'[t] = NULL
      /\ \A u \in Threads \ {t} :
            /\ pc'[u] = pc[u] /\ arg'[u] = arg[u]
            /\ snapshot'[u] = snapshot[u] /\ following'[u] = following[u]
  BY <1>0, <1>1, ReturnTypes
<1>5. Others(t)
  BY <1>1, <1>4 DEF Others
<1>6. Harmless(t)
  BY <1>1, <1>2 DEF Harmless
<1>7. ThreadInv(t)'
  BY <1>4 DEF ThreadInv, PushInv, LifoPopInv, FifoPopInv
<1>8. PICK f \in Seq(Nodes), s \in Seq(Nodes) : Chains(f, s)
  BY DEF IInv
<1> DEFINE F == NodesOf(f)
           S == NodesOf(s)
           r == <<arg[t]>> \o s
<1>9. Partition(F, S) /\ arg[t] \notin F \cup S \cup freed /\ arg[t] \notin mine[t]
  BY <1>3, <1>8 DEF Chains, Partition
<1>10. r \in Seq(Nodes) /\ NodesOf(r) = S \cup {arg[t]} /\ Injective(r) /\ IsList(arg[t], r)
  <2>1. next[arg[t]] = At(s, 1) /\ Links(s) /\ Injective(s)
    BY <1>2, <1>8 DEF Chains, IsList
  <2>2. QED
    BY <1>3, <1>9, <2>1, Front, FrontNodes, FrontLinks
<1>11. PICK q \in Seq(Nodes) :
          q = r /\ NodesOf(q) = S \cup {arg[t]} /\ Injective(q) /\ IsList(arg[t], q)
  BY <1>10
<1> HIDE DEF r
<1>12. IsList(lifo.node, q)' /\ IsList(head.node, f)'
  <2>1. Links(q)' /\ Links(f)'
    BY <1>1, <1>8, <1>11, LinksKept DEF Chains, IsList
  <2>2. lifo'.node = At(q, 1) /\ head'.node = At(f, 1)
    BY <1>1, <1>8, <1>11 DEF Chains, IsList
  <2>3. QED
    BY <2>1, <2>2 DEF IsList, At
<1>13. Partition(F, NodesOf(q))'
  <2>1. Held(t)' = Held(t) \ {arg[t]}
    BY <1>1, <1>4, <1>9 DEF Held
  <2>2. /\ F \cap S = {} /\ (F \cup S) \cap freed = {} /\ Held(t) \cap (F \cup S \cup freed) = {}
    BY <1>9 DEF Partition
  <2>3. arg'[t] \notin mine'[t]
    BY <1>1, <1>4, Types, NodesAssumption
  <2>4. NodesOf(q) = S \cup {arg[t]} /\ freed' = freed
    BY <1>1, <1>11
  <2>5. /\ F \cap NodesOf(q) = {} /\ (F \cup NodesOf(q)) \cap freed' = {}
        /\ Held(t)' \cap (F \cup NodesOf(q) \cup freed') = {}
        /\ F \cup NodesOf(q) \cup freed' \cup Held(t)' = F \cup S \cup freed \cup Held(t)
    BY <1>3, <1>9, <2>1, <2>2, <2>4
  <2>6. QED
    BY <1>5, <1>9, <2>3, <2>5, PlacesMoved
<1>14. Serving /\ Serving' /\ FifoHolds(f)
  BY <1>0, <1>4, <1>5, <1>8, StillServing DEF DestroyLabels, Chains
<1>15. FifoHolds(f)'
  BY <1>1, <1>14, FifoHoldsKept
<1>16. Chains(f, q)'
  BY <1>8, <1>11, <1>12, <1>13, <1>14, <1>15 DEF Chains, Injective, NodesOf
<1>17. FifoOrder'
  BY <1>1 DEF IInv, FifoOrder
<1>18. QED
  BY <1>0, <1>4, <1>5, <1>6, <1>7, <1>16, <1>17, StepPreserves DEF DestroyLabels

\* The top of the lifo goes to the caller; the counter proves that what was read below
\* it is still there.
LEMMA LifoPopStep ==
    ASSUME IInv, Typed', NEW t \in Threads, LifoPopCAS(t), CAS2Succeeds(lifo, snapshot[t]),
           UNCHANGED distVars
    PROVE  IInv'
<1>0. PushInv(t) /\ LifoPopInv(t) /\ pc[t] = "pop_cas" /\ arg[t] = NULL /\ Typed
  BY DEF IInv, ThreadInv, LifoPopCAS, PushInv, Typed, TypeOK
<1>1. /\ UNCHANGED <<next, freed, head, tail, data, taken, pushed, popped>>
      /\ mine' = [mine EXCEPT ![t] = @ \cup {snapshot[t].node}]
      /\ Return(t) /\ lifo' = [counter |-> snapshot[t].counter + 1, node |-> following[t]]
  BY DEF LifoPopCAS, distVars, history
<1>2. snapshot[t] = lifo /\ following[t] = next[lifo.node] /\ lifo.node \in Nodes
  BY <1>0 DEF CAS2Succeeds, LifoPopInv
<1>3. /\ mine'[t] = mine[t] \cup {lifo.node}
      /\ \A u \in Threads \ {t} : mine'[u] = mine[u]
  BY <1>1, <1>2, Domains
<1>4. /\ pc'[t] = "idle" /\ arg'[t] = NULL
      /\ \A u \in Threads \ {t} :
            /\ pc'[u] = pc[u] /\ arg'[u] = arg[u]
            /\ snapshot'[u] = snapshot[u] /\ following'[u] = following[u]
  BY <1>0, <1>1, ReturnTypes
<1>5. Others(t)
  BY <1>1, <1>3, <1>4 DEF Others
<1>6. Harmless(t)
  BY <1>1, <1>2 DEF Harmless
<1>7. ThreadInv(t)'
  BY <1>4 DEF ThreadInv, PushInv, LifoPopInv, FifoPopInv
<1>8. PICK f \in Seq(Nodes), s \in Seq(Nodes) : Chains(f, s)
  BY DEF IInv
<1> DEFINE F == NodesOf(f)
           S == NodesOf(s)
<1>9. Partition(F, S) /\ s # <<>> /\ lifo.node = s[1]
  <2>1. lifo.node = At(s, 1) /\ lifo.node # NULL
    BY <1>2, <1>8, NodesAssumption DEF Chains, IsList
  <2>2. 1 \in 1 .. Len(s) /\ lifo.node = s[1]
    BY <2>1 DEF At
  <2>3. QED
    BY <1>8, <2>2 DEF Chains
<1>10. PICK q \in Seq(Nodes) :
          q = Tail(s) /\ NodesOf(q) = S \ {lifo.node} /\ lifo.node \in S /\ Injective(q)
          /\ IsList(next[lifo.node], q)
  <2>1. Links(s) /\ Injective(s)
    BY <1>8 DEF Chains, IsList
  <2>2. QED
    BY <1>9, <2>1, Rest, RestNodes, RestLinks
<1>11. IsList(lifo.node, q)' /\ IsList(head.node, f)'
  <2>1. Links(q)' /\ Links(f)'
    BY <1>1, <1>8, <1>10, LinksKept DEF Chains, IsList
  <2>2. lifo'.node = At(q, 1) /\ head'.node = At(f, 1)
    BY <1>1, <1>2, <1>8, <1>10 DEF Chains, IsList
  <2>3. QED
    BY <2>1, <2>2 DEF IsList, At
<1>12. Partition(F, NodesOf(q))'
  <2>1. Held(t)' = Held(t) \cup {lifo.node}
    BY <1>0, <1>3, <1>4 DEF Held
  <2>2. /\ F \cap S = {} /\ (F \cup S) \cap freed = {} /\ Held(t) \cap (F \cup S \cup freed) = {}
    BY <1>9 DEF Partition
  <2>3. arg'[t] \notin mine'[t]
    BY <1>2, <1>3, <1>4, Types, NodesAssumption
  <2>4. NodesOf(q) = S \ {lifo.node} /\ freed' = freed /\ lifo.node \in S
    BY <1>1, <1>10
  <2>5. /\ F \cap NodesOf(q) = {} /\ (F \cup NodesOf(q)) \cap freed' = {}
        /\ Held(t)' \cap (F \cup NodesOf(q) \cup freed') = {}
        /\ F \cup NodesOf(q) \cup freed' \cup Held(t)' = F \cup S \cup freed \cup Held(t)
    BY <2>1, <2>2, <2>4
  <2>6. QED
    BY <1>5, <1>9, <2>3, <2>5, PlacesMoved
<1>13. Serving /\ Serving' /\ FifoHolds(f)
  BY <1>0, <1>4, <1>5, <1>8, StillServing DEF DestroyLabels, Chains
<1>14. FifoHolds(f)'
  BY <1>1, <1>13, FifoHoldsKept
<1>15. Chains(f, q)'
  BY <1>8, <1>10, <1>11, <1>12, <1>13, <1>14 DEF Chains, Injective, NodesOf
<1>16. FifoOrder'
  BY <1>1 DEF IInv, FifoOrder
<1>17. QED
  BY <1>0, <1>4, <1>5, <1>6, <1>7, <1>15, <1>16, StepPreserves DEF DestroyLabels

\* The chain after its last node was linked to one more, which ends it.
LEMMA BackLinks ==
    ASSUME NEW f \in Seq(Nodes), f # <<>>, NEW x \in Nodes, x \notin NodesOf(f), Injective(f),
           Links(f), next[x] = NULL, next \in [Nodes -> Nodes \cup {NULL}],
           next' = [next EXCEPT ![f[Len(f)]] = x]
    PROVE  Links(Append(f, x))' /\ At(Append(f, x), 1) = f[1]
<1> DEFINE g == Append(f, x)
           L == Len(f)
<1>1. /\ g \in Seq(Nodes) /\ Len(g) = L + 1 /\ g[L + 1] = x
      /\ \A i \in 1 .. L : g[i] = f[i]
  BY Back
<1>2. L \in Nat \ {0} /\ \A i \in 1 .. L : f[i] \in Nodes /\ f[i] # x
  BY NodesOfType
<1>3. \A i, j \in 1 .. L : f[i] = f[j] => i = j
  BY DEF Injective
<1>4. \A i \in 1 .. L : next[f[i]] = At(f, i + 1)
  BY DEF Links
<1>5. next' = [next EXCEPT ![f[L]] = x]
  OBVIOUS
<1>6. \A i \in 1 .. L : At(f, i) = f[i]
  BY DEF At
<1> HIDE DEF g, L
<1>7. ASSUME NEW i \in 1 .. L + 1 PROVE next'[g[i]] = At(g, i + 1)
  <2>1. CASE i \in 1 .. L - 1
    <3>1. i \in 1 .. L /\ L \in 1 .. L /\ i # L /\ i + 1 \in 1 .. L /\ i + 1 \in 1 .. L + 1
      BY <1>2, <2>1
    <3>2. f[i] # f[L]
      BY <1>3, <3>1
    <3>3. next'[f[i]] = f[i + 1]
      BY <1>2, <1>4, <1>5, <1>6, <3>1, <3>2
    <3>4. QED
      BY <1>1, <3>1, <3>3 DEF At
  <2>2. CASE i = L
    <3>1. L \in 1 .. L /\ L + 1 \in 1 .. L + 1
      BY <1>2
    <3>2. next'[f[L]] = x
      BY <1>2, <1>5, <3>1
    <3>3. QED
      BY <1>1, <2>2, <3>1, <3>2 DEF At
  <2>3. CASE i = L + 1
    <3>1. next'[x] = NULL
      BY <1>2, <1>5
    <3>2. L + 1 + 1 \notin 1 .. L + 1
      BY <1>2
    <3>3. QED
      BY <1>1, <2>3, <3>1, <3>2 DEF At
  <2>4. QED
    BY <1>2, <2>1, <2>2, <2>3
<1>8. At(g, 1) = f[1]
  <2>1. 1 \in 1 .. L /\ 1 \in 1 .. L + 1
    BY <1>2
  <2>2. QED
    BY <1>1, <2>1 DEF At
<1>9. Links(g)'
  BY <1>1, <1>7 DEF Links, At
<1>10. QED
  BY <1>8, <1>9 DEF g

\* tail->next = new_node: the item is in the fifo.
LEMMA DistPushLinkStep ==
    ASSUME IInv, Typed', DistPushLink
    PROVE  IInv'
<1> DEFINE t == Pusher
           x == arg[t]
<1>0. t \in Threads /\ PushInv(t) /\ pc[t] = "dist_link" /\ Typed
  BY PusherAssumption DEF IInv, ThreadInv, DistPushLink, Typed, TypeOK
<1>1. /\ UNCHANGED <<lifo, mine, freed, head, data, taken, popped>>
      /\ next' = [next EXCEPT ![tail] = x] /\ tail' = x
      /\ pushed' = Append(pushed, data[x]) /\ Return(t)
  BY DEF DistPushLink
<1> HIDE DEF t
<1>2. x \in Nodes /\ x # NULL /\ x \in Held(t) /\ next[x] = NULL /\ data[x] \in Items
  BY <1>0, HeldNodes DEF PushInv
<1> HIDE DEF x
<1>3. /\ pc'[t] = "idle" /\ arg'[t] = NULL
      /\ \A u \in Threads \ {t} :
            /\ pc'[u] = pc[u] /\ arg'[u] = arg[u]
            /\ snapshot'[u] = snapshot[u] /\ following'[u] = following[u]
  BY <1>0, <1>1, ReturnTypes
<1>4. Others(t)
  BY <1>1, <1>3 DEF Others
<1>5. ThreadInv(t)'
  BY <1>3 DEF ThreadInv, PushInv, LifoPopInv, FifoPopInv
<1>6. PICK f \in Seq(Nodes), s \in Seq(Nodes) : Chains(f, s)
  BY DEF IInv
<1>7. Serving /\ Serving'
  BY <1>0, <1>3, <1>4, StillServing DEF DestroyLabels
<1> DEFINE F == NodesOf(f)
           S == NodesOf(s)
<1>8. /\ Partition(F, S) /\ Injective(f) /\ Links(f) /\ FifoHolds(f)
      /\ f # <<>> /\ Len(f) \in Nat \ {0} /\ head.node = f[1] /\ head.node \in F
      /\ Len(pushed) \in Nat /\ Len(popped) \in Nat /\ Len(popped) <= Len(pushed)
  BY <1>6, <1>7, Dummy DEF Chains, IsList
<1>9. x \notin F \cup S \cup freed
  BY <1>0, <1>2, <1>8 DEF Partition
<1>10. tail = f[Len(f)] /\ tail \in F /\ next[tail] = NULL
  <2>1. tail = f[Len(f)] /\ Len(f) \in 1 .. Len(f)
    BY <1>8 DEF FifoHolds
  <2>2. next[f[Len(f)]] = At(f, Len(f) + 1) /\ Len(f) + 1 \notin 1 .. Len(f)
    BY <1>8, <2>1 DEF Links
  <2>3. QED
    BY <2>1, <2>2 DEF At, NodesOf
<1>11. \A y \in Nodes \ {tail} : next'[y] = next[y]
  BY <1>1, Domains
<1>12. Harmless(t)
  <2>1. ASSUME NEW u \in Threads \ {t}, arg[u] # NULL PROVE arg[u] \in Nodes \ {tail}
    BY <2>1, <1>8, <1>10, HeldNodes DEF Partition
  <2>2. lifo.node \in Nodes => lifo.node \in Nodes \ {tail}
    BY <1>6, <1>8, <1>10, Heads DEF Partition
  <2>3. next[head.node] # NULL => head.node # tail
    BY <1>10
  <2>4. QED
    BY <1>1, <1>11, <2>1, <2>2, <2>3 DEF Harmless
<1>13. PICK g \in Seq(Nodes) :
          /\ g = Append(f, x) /\ Len(g) = Len(f) + 1 /\ g[Len(f) + 1] = x
          /\ \A i \in 1 .. Len(f) : g[i] = f[i]
          /\ NodesOf(g) = F \cup {x} /\ Injective(g)
  BY <1>2, <1>8, <1>9, Back
<1>14. IsList(head.node, g)' /\ IsList(lifo.node, s)'
  <2>1. Links(g)' /\ At(g, 1) = f[1]
    BY <1>1, <1>2, <1>8, <1>9, <1>10, <1>13, Domains, BackLinks
  <2>2. Links(s)'
    <3>1. \A y \in S : y \in Nodes \ {tail}
      BY <1>8, <1>10, NodesOfType DEF Partition
    <3>2. QED
      BY <1>6, <1>11, <3>1, LinksKept DEF Chains, IsList
  <2>3. head'.node = At(g, 1) /\ lifo'.node = At(s, 1)
    BY <1>1, <1>6, <1>8, <2>1 DEF Chains, IsList
  <2>4. QED
    BY <2>1, <2>2, <2>3 DEF IsList, At
<1>15. Partition(NodesOf(g), S)'
  <2>1. Held(t)' = Held(t) \ {x}
    BY <1>0, <1>1, <1>3, <1>8 DEF Held, Partition, x
  <2>2. /\ F \cap S = {} /\ (F \cup S) \cap freed = {} /\ Held(t) \cap (F \cup S \cup freed) = {}
    BY <1>0, <1>8 DEF Partition
  <2>3. NULL \notin mine'[t]
    BY <1>0, <1>1, Types, NodesAssumption
  <2>4. NodesOf(g) = F \cup {x} /\ freed' = freed /\ x \in Held(t) /\ x \notin F \cup S \cup freed
    BY <1>1, <1>2, <1>9, <1>13
  <2>5. arg'[t] \notin mine'[t]
    BY <1>3, <2>3
  <2>6. /\ NodesOf(g) \cap S = {} /\ (NodesOf(g) \cup S) \cap freed' = {}
        /\ Held(t)' \cap (NodesOf(g) \cup S \cup freed') = {}
        /\ NodesOf(g) \cup S \cup freed' \cup Held(t)' = F \cup S \cup freed \cup Held(t)
    BY <2>1, <2>2, <2>4
  <2>7. QED
    BY <1>0, <1>4, <1>8, <2>5, <2>6, PlacesMoved
<1>16. /\ Len(pushed') = Len(pushed) + 1 /\ pushed'[Len(pushed) + 1] = data[x]
       /\ \A i \in 1 .. Len(pushed) : pushed'[i] = pushed[i]
  BY <1>1, <1>2, <1>8 DEF IInv, TypeOK
<1>17. FifoHolds(g)'
  <2>1. /\ tail = f[Len(f)] /\ Len(f) = Len(pushed) - Len(popped) + 1
        /\ \A i \in 2 .. Len(f) : data[f[i]] = pushed[Len(popped) + i - 1]
    BY <1>8 DEF FifoHolds
  <2>2. ASSUME NEW i \in 2 .. Len(g) PROVE data'[g[i]] = pushed'[Len(popped') + i - 1]
    <3>1. CASE i \in 2 .. Len(f)
      <4>1. Len(popped) + i - 1 \in 1 .. Len(pushed) /\ i \in 1 .. Len(f)
        BY <1>8, <2>1, <3>1
      <4>2. QED
        BY <1>1, <1>13, <1>16, <2>1, <3>1, <4>1
    <3>2. CASE i = Len(f) + 1
      <4>1. Len(popped) + i - 1 = Len(pushed) + 1
        BY <1>8, <2>1, <3>2
      <4>2. QED
        BY <1>1, <1>13, <1>16, <3>2, <4>1
    <3>3. QED
      BY <1>8, <1>13, <3>1, <3>2
  <2>3. Len(popped') <= Len(pushed') /\ Len(g) = Len(pushed') - Len(popped') + 1
        /\ tail' = g[Len(g)]
    BY <1>1, <1>8, <1>13, <1>16, <2>1
  <2>4. QED
    BY <2>2, <2>3 DEF FifoHolds
<1>18. Chains(g, s)'
  BY <1>6, <1>7, <1>13, <1>14, <1>15, <1>17 DEF Chains, Injective, NodesOf
<1>19. FifoOrder'
  <2>1. \A i \in 1 .. Len(popped) : i \in 1 .. Len(pushed)
    BY <1>8
  <2>2. QED
    BY <1>1, <1>8, <1>16, <2>1 DEF IInv, FifoOrder
<1>20. QED
  BY <1>0, <1>3, <1>4, <1>5, <1>12, <1>18, <1>19, StepPreserves DEF DestroyLabels

\* The old dummy node goes to the caller with the data, and the node whose data was read
\* is the new one; the counter proves that it is still there.
LEMMA TrypopCASStep ==
    ASSUME IInv, Typed', NEW t \in Threads, TrypopCAS(t), CAS2Succeeds(head, snapshot[t])
    PROVE  IInv'
<1>0. PushInv(t) /\ pc[t] = "dist_cas" /\ arg[t] = NULL /\ Typed
  BY DEF IInv, ThreadInv, TrypopCAS, PushInv, Typed, TypeOK
<1>1. PICK f \in Seq(Nodes), s \in Seq(Nodes) : Chains(f, s)
  BY DEF IInv
<1>2. /\ Serving /\ snapshot[t].node = f[1] /\ snapshot[t].counter = head.counter
      /\ Len(f) >= 2 /\ following[t] = f[2] /\ next[f[1]] = f[2]
      /\ Len(popped) < Len(pushed)
      /\ taken[t] = pushed[Len(popped) + 1] /\ taken[t] \in Items
  BY <1>0, <1>1, PopFacts
<1> DEFINE F == NodesOf(f)
           S == NodesOf(s)
           x == f[1]
<1>3. /\ Partition(F, S) /\ Injective(f) /\ Links(f) /\ FifoHolds(f)
      /\ f # <<>> /\ Len(f) \in Nat /\ x \in F /\ x \in Nodes /\ x # NULL
      /\ Len(pushed) \in Nat /\ Len(popped) \in Nat
  BY <1>1, <1>2, Dummy, NodesAssumption DEF Chains, IsList
<1>4. /\ head' = [counter |-> head.counter + 1, node |-> f[2]]
      /\ data' = [data EXCEPT ![x] = taken[t]]
      /\ mine' = [mine EXCEPT ![t] = @ \cup {x}]
      /\ popped' = Append(popped, taken[t])
      /\ Return(t) /\ taken' = [taken EXCEPT ![t] = NULL]
      /\ UNCHANGED <<next, lifo, freed, tail, pushed>>
  BY <1>2 DEF TrypopCAS
<1> HIDE DEF x
<1>5. /\ \A y \in Nodes \ {x} : data'[y] = data[y]
      /\ mine'[t] = mine[t] \cup {x}
      /\ \A u \in Threads \ {t} : mine'[u] = mine[u] /\ taken'[u] = taken[u]
  BY <1>3, <1>4, Domains
<1>6. /\ pc'[t] = "idle" /\ arg'[t] = NULL
      /\ \A u \in Threads \ {t} :
            /\ pc'[u] = pc[u] /\ arg'[u] = arg[u]
            /\ snapshot'[u] = snapshot[u] /\ following'[u] = following[u]
  BY <1>0, <1>4, ReturnTypes
<1>7. Others(t)
  BY <1>5, <1>6 DEF Others
<1>8. Harmless(t)
  <2>1. ASSUME NEW u \in Threads \ {t}, arg[u] # NULL PROVE arg[u] \in Nodes \ {x}
    BY <2>1, <1>3, HeldNodes DEF Partition
  <2>2. head'.counter = head.counter + 1
    BY <1>4
  <2>3. QED
    BY <1>4, <1>5, <2>1, <2>2 DEF Harmless
<1>9. ThreadInv(t)'
  BY <1>6 DEF ThreadInv, PushInv, LifoPopInv, FifoPopInv
<1>10. PICK g \in Seq(Nodes) :
          /\ g = Tail(f) /\ Len(g) = Len(f) - 1 /\ \A i \in 1 .. Len(f) - 1 : g[i] = f[i + 1]
          /\ NodesOf(g) = F \ {x} /\ Injective(g) /\ IsList(f[2], g)
  BY <1>2, <1>3, Rest, RestNodes, RestLinks DEF x
<1>11. IsList(head.node, g)' /\ IsList(lifo.node, s)'
  <2>1. Links(g)' /\ Links(s)'
    BY <1>1, <1>4, <1>10, LinksKept DEF Chains, IsList
  <2>2. head'.node = At(g, 1) /\ lifo'.node = At(s, 1)
    BY <1>1, <1>4, <1>10 DEF Chains, IsList
  <2>3. QED
    BY <2>1, <2>2 DEF IsList, At
<1>12. Partition(NodesOf(g), S)'
  <2>1. Held(t)' = Held(t) \cup {x}
    BY <1>0, <1>5, <1>6 DEF Held
  <2>2. /\ F \cap S = {} /\ (F \cup S) \cap freed = {} /\ Held(t) \cap (F \cup S \cup freed) = {}
    BY <1>3 DEF Partition
  <2>3. arg'[t] \notin mine'[t]
    BY <1>3, <1>5, <1>6, Types, NodesAssumption
  <2>4. NodesOf(g) = F \ {x} /\ freed' = freed /\ x \in F
    BY <1>3, <1>4, <1>10
  <2>5. /\ NodesOf(g) \cap S = {} /\ (NodesOf(g) \cup S) \cap freed' = {}
        /\ Held(t)' \cap (NodesOf(g) \cup S \cup freed') = {}
        /\ NodesOf(g) \cup S \cup freed' \cup Held(t)' = F \cup S \cup freed \cup Held(t)
    BY <2>1, <2>2, <2>4
  <2>6. QED
    BY <1>3, <1>7, <2>3, <2>5, PlacesMoved
<1>13. Serving'
  BY <1>0, <1>6, <1>7, StillServing DEF DestroyLabels
<1>14. /\ Len(popped') = Len(popped) + 1 /\ popped'[Len(popped) + 1] = taken[t]
       /\ \A i \in 1 .. Len(popped) : popped'[i] = popped[i]
  BY <1>2, <1>3, <1>4 DEF IInv, TypeOK
<1>15. FifoHolds(g)'
  <2>1. /\ tail = f[Len(f)] /\ Len(f) = Len(pushed) - Len(popped) + 1
        /\ \A i \in 2 .. Len(f) : data[f[i]] = pushed[Len(popped) + i - 1]
    BY <1>3 DEF FifoHolds
  <2>2. ASSUME NEW i \in 2 .. Len(g) PROVE data'[g[i]] = pushed'[Len(popped') + i - 1]
    <3>1. /\ i + 1 \in 2 .. Len(f) /\ i \in 1 .. Len(f) - 1 /\ i + 1 \in 1 .. Len(f)
          /\ 1 \in 1 .. Len(f) /\ i + 1 # 1
      BY <1>3, <1>10
    <3>2. g[i] = f[i + 1] /\ f[i + 1] \in Nodes \ {x}
      BY <1>3, <1>10, <3>1 DEF Injective, x
    <3>3. data'[g[i]] = pushed[Len(popped) + (i + 1) - 1]
      BY <1>5, <2>1, <3>1, <3>2
    <3>4. Len(popped) + (i + 1) - 1 = Len(popped') + i - 1
      BY <1>3, <1>14
    <3>5. QED
      BY <1>4, <3>3, <3>4
  <2>3. Len(popped') <= Len(pushed') /\ Len(g) = Len(pushed') - Len(popped') + 1
    BY <1>2, <1>3, <1>4, <1>10, <1>14, <2>1
  <2>4. tail' = g[Len(g)]
    <3>1. Len(f) - 1 \in 1 .. Len(f) - 1 /\ (Len(f) - 1) + 1 = Len(f)
      BY <1>2, <1>3
    <3>2. QED
      BY <1>4, <1>10, <2>1, <3>1
  <2>5. QED
    BY <2>2, <2>3, <2>4 DEF FifoHolds
<1>16. Chains(g, s)'
  BY <1>1, <1>10, <1>11, <1>12, <1>13, <1>15 DEF Chains, Injective, NodesOf
<1>17. FifoOrder'
  <2>1. ASSUME NEW i \in 1 .. Len(popped) + 1 PROVE popped'[i] = pushed[i]
    <3>1. CASE i \in 1 .. Len(popped)
      BY <3>1, <1>14 DEF IInv, FifoOrder
    <3>2. CASE i = Len(popped) + 1
      BY <3>2, <1>2, <1>14
    <3>3. QED
      BY <1>3, <3>1, <3>2
  <2>2. Len(popped) + 1 <= Len(pushed)
    BY <1>2, <1>3
  <2>3. QED
    BY <1>4, <1>14, <2>1, <2>2 DEF FifoOrder
<1>18. QED
  BY <1>0, <1>6, <1>7, <1>8, <1>9, <1>16, <1>17, StepPreserves DEF DestroyLabels

-----------------------------------------------------------------------------
(* The destruction.                                                        *)

\* A thread that has nothing under way knows nothing.
LEMMA NoCall ==
    ASSUME NEW t \in Threads, arg[t] = NULL, pc[t] \in DestroyLabels
    PROVE  ThreadInv(t)
BY DEF ThreadInv, PushInv, LifoPopInv, FifoPopInv, DestroyLabels

LEMMA DestroyCallStep ==
    ASSUME IInv, Typed', NEW t \in Threads, DestroyCall(t)
    PROVE  IInv'
<1>1. /\ \A u \in Threads : pc[u] = "idle"
      /\ pc' = [u \in Threads |-> IF u = t THEN "dist_destroy" ELSE "destroyed"]
      /\ UNCHANGED <<next, lifo, mine, arg, snapshot, following, freed, head, tail, data, taken,
                     pushed, popped>>
  BY DEF DestroyCall, distVars, history
<1>2. \A u \in Threads : arg[u] = NULL
  BY <1>1 DEF IInv, ThreadInv, PushInv
<1>3. pc'[t] = "dist_destroy" /\ \A u \in Threads : pc'[u] \in DestroyLabels
  BY <1>1 DEF DestroyLabels
<1>4. ASSUME NEW u \in Threads PROVE ThreadInv(u)'
  BY <1>1, <1>2, <1>3 DEF ThreadInv, PushInv, LifoPopInv, FifoPopInv, DestroyLabels
<1>5. DestroyInv'
  BY <1>1, <1>3 DEF DestroyInv
<1>6. ~Serving'
  BY <1>3 DEF Serving
<1>7. PICK f \in Seq(Nodes), s \in Seq(Nodes) : Chains(f, s)
  BY DEF IInv
<1>8. Links(f)' /\ Links(s)'
  BY <1>1, <1>7, LinksKept DEF Chains, IsList
<1>9. Partition(NodesOf(f), NodesOf(s))'
  BY <1>1, <1>7 DEF Chains, Partition, Held
<1>10. Chains(f, s)'
  BY <1>1, <1>3, <1>6, <1>7, <1>8, <1>9 DEF Chains, IsList, At, Injective
<1>11. FifoOrder'
  BY <1>1 DEF IInv, FifoOrder
<1>12. TypeOK'
  BY <1>4 DEF Typed, TypeOK, ThreadInv, FifoPopInv
<1>13. (\E g, r \in Seq(Nodes) : Chains(g, r))'
  BY <1>10
<1>14. QED
  BY <1>4, <1>5, <1>11, <1>12, <1>13 DEF IInv, Typed

\* What is left to show of a step of the destruction.
LEMMA DestroyPreserves ==
    ASSUME IInv, Typed', NEW t \in Threads, Others(t), UNCHANGED <<arg, pushed, popped>>,
           pc[t] \in {"dist_destroy", "lifo_destroy"}, pc'[t] \in DestroyLabels,
           \E f, s \in Seq(Nodes) : Chains(f, s)'
    PROVE  IInv'
<1>1. \A u \in Threads : pc[u] \in DestroyLabels
  BY DEF IInv, DestroyInv, Serving, DestroyLabels
<1>2. ASSUME NEW u \in Threads PROVE pc'[u] \in DestroyLabels /\ arg'[u] = NULL
  <2>1. arg[u] = NULL
    BY <1>1 DEF IInv, ThreadInv, PushInv, DestroyLabels
  <2>2. QED
    BY <1>1, <2>1 DEF Others
<1>3. ASSUME NEW u \in Threads PROVE ThreadInv(u)'
  BY <1>2 DEF ThreadInv, PushInv, LifoPopInv, FifoPopInv, DestroyLabels
<1>4. DestroyInv'
  <2>1. \A u, v \in Threads :
           pc[u] \in {"dist_destroy", "lifo_destroy"} /\ pc[v] \in {"dist_destroy", "lifo_destroy"}
              => u = v
    BY DEF IInv, DestroyInv
  <2>2. \A u \in Threads : pc'[u] \in {"dist_destroy", "lifo_destroy"} => u = t
    BY <2>1 DEF Others
  <2>3. QED
    BY <1>2, <2>2 DEF DestroyInv
<1>5. FifoOrder'
  BY DEF IInv, FifoOrder
<1>6. TypeOK'
  BY <1>3 DEF Typed, TypeOK, ThreadInv, FifoPopInv
<1>7. (\E f, s \in Seq(Nodes) : Chains(f, s))'
  OBVIOUS
<1>8. QED
  BY <1>3, <1>4, <1>5, <1>6, <1>7 DEF IInv, Typed

\* dist_fifo_destroy frees the nodes of the fifo one by one, each after its successor
\* was read.
LEMMA DistDestroyStep ==
    ASSUME IInv, Typed', NEW t \in Threads, DistDestroy(t)
    PROVE  IInv'
<1>1. /\ pc[t] = "dist_destroy"
      /\ UNCHANGED <<next, lifo, mine, arg, snapshot, following, tail, data, taken, pushed, popped>>
  BY DEF DistDestroy, history
<1>2. PICK f \in Seq(Nodes), s \in Seq(Nodes) : Chains(f, s)
  BY DEF IInv
<1> DEFINE F == NodesOf(f)
           S == NodesOf(s)
<1>3. /\ Partition(F, S) /\ Injective(f) /\ Injective(s) /\ Links(f) /\ Links(s)
      /\ head.node = At(f, 1) /\ lifo.node = At(s, 1)
  BY <1>2 DEF Chains, IsList
<1>4. CASE head.node # NULL
  <2> DEFINE x == head.node
  <2>1. /\ head' = [head EXCEPT !.node = next[x]] /\ freed' = freed \cup {x} /\ pc' = pc
    BY <1>4 DEF DistDestroy
  <2>2. f # <<>> /\ x = f[1]
    <3>1. 1 \in 1 .. Len(f)
      BY <1>3, <1>4 DEF At
    <3>2. QED
      BY <1>3, <3>1 DEF At
  <2>3. PICK g \in Seq(Nodes) :
           g = Tail(f) /\ NodesOf(g) = F \ {x} /\ x \in F /\ Injective(g) /\ IsList(next[x], g)
    BY <1>3, <2>2, Rest, RestNodes, RestLinks
  <2>4. head'.node = next[x]
    BY <2>1, Types
  <2>5. IsList(head.node, g)' /\ IsList(lifo.node, s)'
    <3>1. Links(g)' /\ Links(s)'
      BY <1>1, <1>3, <2>3, LinksKept DEF IsList
    <3>2. head'.node = At(g, 1) /\ lifo'.node = At(s, 1)
      BY <1>1, <1>3, <2>3, <2>4 DEF IsList
    <3>3. QED
      BY <3>1, <3>2 DEF IsList, At
  <2>6. Others(t)
    BY <1>1, <2>1 DEF Others
  <2>7. Partition(NodesOf(g), S)'
    <3>1. Held(t)' = Held(t)
      BY <1>1 DEF Held
    <3>2. /\ F \cap S = {} /\ (F \cup S) \cap freed = {} /\ Held(t) \cap (F \cup S \cup freed) = {}
          /\ arg[t] \notin mine[t]
      BY <1>3 DEF Partition
    <3>3. /\ NodesOf(g) \cap S = {} /\ (NodesOf(g) \cup S) \cap freed' = {}
          /\ Held(t)' \cap (NodesOf(g) \cup S \cup freed') = {}
          /\ NodesOf(g) \cup S \cup freed' \cup Held(t)' = F \cup S \cup freed \cup Held(t)
      BY <2>1, <2>3, <3>1, <3>2
    <3>4. QED
      BY <1>1, <1>3, <2>6, <3>2, <3>3, PlacesMoved
  <2>8. ~Serving' /\ pc'[t] = "dist_destroy"
    BY <1>1, <2>1 DEF Serving, DestroyLabels
  <2>9. Chains(g, s)'
    BY <1>3, <2>3, <2>5, <2>7, <2>8 DEF Chains, Injective, NodesOf
  <2>10. QED
    BY <1>1, <2>6, <2>8, <2>9, DestroyPreserves DEF DestroyLabels
<1>5. CASE head.node = NULL
  <2>1. pc' = [pc EXCEPT ![t] = "lifo_destroy"] /\ UNCHANGED <<head, freed>>
    BY <1>5 DEF DistDestroy, Goto
  <2>2. pc'[t] = "lifo_destroy" /\ \A u \in Threads \ {t} : pc'[u] = pc[u]
    BY <2>1, Domains
  <2>3. Others(t)
    BY <1>1, <2>2 DEF Others
  <2>4. f = <<>>
    <3>1. 1 \notin 1 .. Len(f) /\ Len(f) \in Nat
      BY <1>3, <1>5, AtType
    <3>2. QED
      BY <3>1
  <2>5. Links(f)' /\ Links(s)'
    BY <1>1, <1>3, LinksKept
  <2>6. Partition(F, S)'
    BY <1>1, <1>3, <2>1 DEF Partition, Held
  <2>7. ~Serving'
    BY <2>2 DEF Serving, DestroyLabels
  <2>8. Chains(f, s)'
    BY <1>1, <1>3, <2>1, <2>4, <2>5, <2>6, <2>7 DEF Chains, IsList, At, Injective
  <2>9. QED
    BY <1>1, <2>2, <2>3, <2>8, DestroyPreserves DEF DestroyLabels
<1>6. QED
  BY <1>4, <1>5

\* mpmc_lifo_destroy does the same with the lifo, when the fifo is gone.
LEMMA LifoDestroyStep ==
    ASSUME IInv, Typed', NEW t \in Threads, LifoDestroy(t), UNCHANGED distVars
    PROVE  IInv'
<1>1. /\ pc[t] = "lifo_destroy"
      /\ UNCHANGED <<next, mine, arg, snapshot, following, head, tail, data, taken, pushed, popped>>
  BY DEF LifoDestroy, distVars, history
<1>2. PICK f \in Seq(Nodes), s \in Seq(Nodes) : Chains(f, s)
  BY DEF IInv
<1> DEFINE F == NodesOf(f)
           S == NodesOf(s)
<1>3. /\ Partition(F, S) /\ Injective(f) /\ Injective(s) /\ Links(f) /\ Links(s)
      /\ head.node = At(f, 1) /\ lifo.node = At(s, 1)
  BY <1>2 DEF Chains, IsList
<1>4. f = <<>>
  <2>1. ~Serving
    BY <1>1 DEF Serving, DestroyLabels
  <2>2. \A u \in Threads : pc[u] # "dist_destroy"
    BY <1>1 DEF IInv, DestroyInv
  <2>3. QED
    BY <1>2, <2>1, <2>2 DEF Chains
<1>5. CASE lifo.node # NULL
  <2> DEFINE x == lifo.node
  <2>1. /\ lifo' = [lifo EXCEPT !.node = next[x]] /\ freed' = freed \cup {x} /\ pc' = pc
    BY <1>5 DEF LifoDestroy
  <2>2. s # <<>> /\ x = s[1]
    <3>1. 1 \in 1 .. Len(s)
      BY <1>3, <1>5 DEF At
    <3>2. QED
      BY <1>3, <3>1 DEF At
  <2>3. PICK q \in Seq(Nodes) :
           q = Tail(s) /\ NodesOf(q) = S \ {x} /\ x \in S /\ Injective(q) /\ IsList(next[x], q)
    BY <1>3, <2>2, Rest, RestNodes, RestLinks
  <2>4. lifo'.node = next[x]
    BY <2>1, Types
  <2>5. IsList(head.node, f)' /\ IsList(lifo.node, q)'
    <3>1. Links(f)' /\ Links(q)'
      BY <1>1, <1>3, <2>3, LinksKept DEF IsList
    <3>2. head'.node = At(f, 1) /\ lifo'.node = At(q, 1)
      BY <1>1, <1>3, <2>3, <2>4 DEF IsList
    <3>3. QED
      BY <3>1, <3>2 DEF IsList, At
  <2>6. Others(t)
    BY <1>1, <2>1 DEF Others
  <2>7. Partition(F, NodesOf(q))'
    <3>1. Held(t)' = Held(t)
      BY <1>1 DEF Held
    <3>2. /\ F \cap S = {} /\ (F \cup S) \cap freed = {} /\ Held(t) \cap (F \cup S \cup freed) = {}
          /\ arg[t] \notin mine[t]
      BY <1>3 DEF Partition
    <3>3. /\ F \cap NodesOf(q) = {} /\ (F \cup NodesOf(q)) \cap freed' = {}
          /\ Held(t)' \cap (F \cup NodesOf(q) \cup freed') = {}
          /\ F \cup NodesOf(q) \cup freed' \cup Held(t)' = F \cup S \cup freed \cup Held(t)
      <4>1. F = {}
        BY <1>4 DEF NodesOf
      <4>2. QED
        BY <2>1, <2>3, <3>1, <3>2, <4>1
    <3>4. QED
      BY <1>1, <1>3, <2>6, <3>2, <3>3, PlacesMoved
  <2>8. ~Serving' /\ pc'[t] = "lifo_destroy"
    BY <1>1, <2>1 DEF Serving, DestroyLabels
  <2>9. Chains(f, q)'
    BY <1>3, <1>4, <2>3, <2>5, <2>7, <2>8 DEF Chains, Injective, NodesOf
  <2>10. QED
    BY <1>1, <2>6, <2>8, <2>9, DestroyPreserves DEF DestroyLabels
<1>6. CASE lifo.node = NULL
  <2>1. pc' = [pc EXCEPT ![t] = "destroyed"] /\ UNCHANGED <<lifo, freed>>
    BY <1>6 DEF LifoDestroy, Goto
  <2>2. pc'[t] = "destroyed" /\ \A u \in Threads \ {t} : pc'[u] = pc[u]
    BY <2>1, Domains
  <2>3. Others(t)
    BY <1>1, <2>2 DEF Others
  <2>4. Links(f)' /\ Links(s)'
    BY <1>1, <1>3, LinksKept
  <2>5. Partition(F, S)'
    BY <1>1, <1>3, <2>1 DEF Partition, Held
  <2>6. ~Serving'
    BY <2>2 DEF Serving, DestroyLabels
  <2>7. Chains(f, s)'
    BY <1>1, <1>3, <1>4, <2>1, <2>4, <2>5, <2>6 DEF Chains, IsList, At, Injective
  <2>8. QED
    BY <1>1, <2>2, <2>3, <2>7, DestroyPreserves DEF DestroyLabels
<1>7. QED
  BY <1>5, <1>6

-----------------------------------------------------------------------------
(* The theorems.                                                           *)

\* One dummy node in the fifo, the others with the pusher.
LEMMA InitInv == Init => IInv
<1> SUFFICES ASSUME Init PROVE IInv
  OBVIOUS
<1>1. PICK dummy \in {CHOOSE n \in Nodes : TRUE} :
         /\ head = [counter |-> 0, node |-> dummy] /\ tail = dummy
         /\ LifoInit([t \in Threads |-> IF t = Pusher THEN Nodes \ {dummy} ELSE {}])
  BY DEF Init
<1>2. dummy \in Nodes
  BY DummyAssumption
<1>3. /\ next = [n \in Nodes |-> NULL] /\ lifo = [counter |-> 0, node |-> NULL]
      /\ pc = [t \in Threads |-> "idle"] /\ arg = [t \in Threads |-> NULL]
      /\ mine = [t \in Threads |-> IF t = Pusher THEN Nodes \ {dummy} ELSE {}]
      /\ snapshot = [t \in Threads |-> [counter |-> 0, node |-> NULL]]
      /\ following = [t \in Threads |-> NULL] /\ freed = {}
  BY <1>1 DEF LifoInit
<1>4. /\ data = [n \in Nodes |-> NULL] /\ taken = [t \in Threads |-> NULL]
      /\ pushed = <<>> /\ popped = <<>>
  BY DEF Init
<1>5. TypeOK
  BY <1>1, <1>2, <1>3, <1>4 DEF TypeOK, LifoTypeOK
<1>6. pc \in [Threads -> Labels] /\ \A t \in Threads : pc[t] = "idle"
  BY <1>3 DEF Labels
<1>7. DestroyInv /\ Serving
  BY <1>6 DEF DestroyInv, Serving, DestroyLabels
<1>8. \A t \in Threads : ThreadInv(t)
  BY <1>3, <1>6 DEF ThreadInv, PushInv, LifoPopInv, FifoPopInv
<1>9. FifoOrder
  BY <1>4 DEF FifoOrder
<1>10. PICK f \in Seq(Nodes) : f = <<dummy>>
  <2>1. <<dummy>> \in Seq(Nodes)
    BY <1>2
  <2>2. QED
    BY <2>1, Zenon
<1>11. PICK s \in Seq(Nodes) : s = <<>>
  <2>1. <<>> \in Seq(Nodes)
    OBVIOUS
  <2>2. QED
    BY <2>1, Zenon
<1>12. /\ Len(f) = 1 /\ f[1] = dummy /\ Len(s) = 0
       /\ NodesOf(f) = {dummy} /\ NodesOf(s) = {} /\ Injective(f) /\ Injective(s)
  BY <1>10, <1>11 DEF NodesOf, Injective
<1>13. IsList(head.node, f) /\ IsList(lifo.node, s)
  BY <1>1, <1>2, <1>3, <1>12 DEF IsList, Links, At
<1>14. \A t \in Threads : Held(t) = IF t = Pusher THEN Nodes \ {dummy} ELSE {}
  BY <1>3 DEF Held
<1>15. Partition(NodesOf(f), NodesOf(s))
  <2>1. \A t \in Threads : arg[t] \notin mine[t]
    BY <1>3, NodesAssumption
  <2>2. QED
    BY <1>3, <1>12, <1>14, <2>1, PusherAssumption DEF Partition
<1>16. FifoHolds(f)
  BY <1>1, <1>4, <1>12 DEF FifoHolds
<1>17. Chains(f, s)
  BY <1>7, <1>12, <1>13, <1>15, <1>16 DEF Chains
<1>18. QED
  BY <1>5, <1>6, <1>7, <1>8, <1>9, <1>17 DEF IInv

\* A step of the lifo's own.
LEMMA LifoStep ==
    ASSUME IInv, Typed', NEW t \in Threads, LifoRuns(t), UNCHANGED distVars
    PROVE  IInv'
<1>1. CASE LifoPushCounter(t)
  BY <1>1, CounterStep DEF LifoPushCounter
<1>2. CASE LifoPushCAS(t)
  BY <1>2, LifoPushStep, LifoRetryStep
<1>3. CASE LifoPopRetry(t)
  BY <1>3, CounterStep DEF LifoPopRetry
<1>4. CASE LifoPopCAS(t)
  BY <1>4, LifoPopStep, LifoRetryStep
<1>5. QED
  BY <1>1, <1>2, <1>3, <1>4, LifoPushHeadStep, LifoPopHeadStep, LifoPopNextStep,
     LifoDestroyStep DEF LifoRuns

LEMMA StepInv == IInv /\ [Next]_vars => IInv'
<1> SUFFICES ASSUME IInv, [Next]_vars PROVE IInv'
  OBVIOUS
<1>1. CASE UNCHANGED vars
  <2>1. UNCHANGED <<next, lifo, pc, mine, arg, snapshot, following, freed, head, tail, data,
                    taken, pushed, popped>>
    BY <1>1 DEF vars, lifoVars, locals, distVars, history
  <2>2. PICK f \in Seq(Nodes), s \in Seq(Nodes) : Chains(f, s)
    BY DEF IInv
  <2>3. Chains(f, s)'
    BY <2>1, <2>2 DEF Chains, IsList, Links, At, Injective, Partition, Held, NodesOf, FifoHolds,
                      Serving
  <2>4. \A t \in Threads : ThreadInv(t)'
    BY <2>1 DEF IInv, ThreadInv, PushInv, LifoPopInv, FifoPopInv
  <2>5. TypeOK' /\ (pc \in [Threads -> Labels])' /\ FifoOrder' /\ DestroyInv'
    BY <2>1 DEF IInv, TypeOK, LifoTypeOK, FifoOrder, DestroyInv, Serving
  <2>6. (\E g, r \in Seq(Nodes) : Chains(g, r))'
    BY <2>3
  <2>7. QED
    BY <2>4, <2>5, <2>6 DEF IInv
<1>2. CASE Next
  <2>1. Typed'
    BY <1>2, TypeStep
  <2>2. ASSUME NEW t \in Threads, TrypopCall(t) PROVE IInv'
    BY <2>1, <2>2, CounterStep DEF TrypopCall
  <2>3. ASSUME NEW t \in Threads, TrypopCAS(t), ~CAS2Succeeds(head, snapshot[t]) PROVE IInv'
    <3>1. /\ pc[t] = "dist_cas" /\ Return(t) /\ taken' = [taken EXCEPT ![t] = NULL]
          /\ UNCHANGED <<next, lifo, mine, freed, head, tail, data, pushed, popped>>
      BY <2>3 DEF TrypopCAS
    <3>2. arg[t] = NULL /\ \A u \in Threads \ {t} : taken'[u] = taken[u]
      BY <3>1, Domains DEF IInv, ThreadInv, PushInv
    <3>3. QED
      BY <2>1, <3>1, <3>2, QuietReturn DEF DestroyLabels
  <2>4. ASSUME NEW t \in Threads, LifoCalls(t) PROVE IInv'
    <3>1. CASE LifoPopCall(t)
      BY <2>1, <2>4, <3>1, CounterStep DEF LifoCalls, LifoPopCall
    <3>2. QED
      BY <2>1, <2>4, <3>1, LifoPushCallStep DEF LifoCalls
  <2>5. ASSUME NEW t \in Threads, Runs(t) PROVE IInv'
    <3>1. CASE TrypopCAS(t)
      BY <2>1, <2>3, <3>1, TrypopCASStep
    <3>2. QED
      BY <2>1, <2>5, <3>1, LifoStep, DistPushLinkStep, TrypopHeadStep, TrypopNextStep,
         TrypopDataStep, DistDestroyStep DEF Runs
  <2>6. QED
    BY <1>2, <2>1, <2>2, <2>4, <2>5, DistPushCallStep, DestroyCallStep DEF Next
<1>3. QED
  BY <1>1, <1>2

\* The invariant of all that follows.
THEOREM Invariant == Spec => []IInv
<1>1. Init => IInv
  BY InitInv
<1>2. IInv /\ [Next]_vars => IInv'
  BY StepInv
<1>3. QED
  BY <1>1, <1>2, PTL DEF Spec

\* Items leave in the order in which they were pushed, each once: a compare_and_swap2 on a
\* head that was popped, pushed again and popped again fails, because the counter moved.
THEOREM FifoCorrect == Spec => []FifoOrder
<1>1. IInv => FifoOrder
  BY DEF IInv
<1>2. QED
  BY <1>1, Invariant, PTL

-----------------------------------------------------------------------------
(* Where the nodes are.                                                    *)

\* Every nonempty set of natural numbers has a least element.
LEMMA LeastNat ==
    ASSUME NEW S \in SUBSET Nat, S # {}
    PROVE  \E m \in S : \A n \in S : m <= n
<1> DEFINE R == OpToRel(<, Nat)
<1>1. IsWellFoundedOn(R, Nat)
  BY NatLessThanWellFounded
<1>2. PICK m \in S : \A y \in S : ~(<<y, m>> \in R)
  <2> HIDE DEF R
  <2> QED
    BY <1>1, WFMin
<1>3. \A y \in S : ~(y < m)
  BY <1>2 DEF OpToRel
<1>4. QED
  BY <1>3

\* The nodes one comes to from the first one are those of the sequence.
LEMMA ChainNodes ==
    ASSUME NEW first, NEW s \in Seq(Nodes), IsList(first, s)
    PROVE  ChainFrom(first) = NodesOf(s) /\ Ends(first)
<1>1. first = At(s, 1) /\ \A i \in 1 .. Len(s) : next[s[i]] = At(s, i + 1)
  BY DEF IsList, Links
<1>2. NodesOf(s) \subseteq Nodes /\ Len(s) \in Nat /\ \A i \in 1 .. Len(s) : s[i] \in NodesOf(s)
  BY NodesOfType
<1>3. ASSUME NEW n \in ChainFrom(first) PROVE n \in NodesOf(s)
  <2>1. first \in NodesOf(s) \cup {NULL}
    BY <1>1, AtType
  <2>2. ASSUME NEW m \in NodesOf(s) PROVE next[m] \in NodesOf(s) \cup {NULL}
    <3>1. PICK i \in 1 .. Len(s) : m = s[i]
      BY DEF NodesOf
    <3>2. next[m] = At(s, i + 1) /\ i + 1 \in Int
      BY <1>1, <1>2, <3>1
    <3>3. QED
      BY <3>2, AtType
  <2>3. QED
    BY <1>2, <2>1, <2>2 DEF ChainFrom
<1>4. ASSUME NEW S \in SUBSET Nodes, first \in S \cup {NULL},
             \A m \in S : next[m] \in S \cup {NULL}
      PROVE  NodesOf(s) \subseteq S
  <2> DEFINE Out == {i \in 1 .. Len(s) : s[i] \notin S}
  <2>1. SUFFICES Out = {}
    BY DEF NodesOf
  <2>2. SUFFICES ASSUME Out # {} PROVE FALSE
    OBVIOUS
  <2>3. PICK i \in Out : \A j \in Out : i <= j
    <3>1. Out \subseteq Nat
      BY <1>2
    <3> HIDE DEF Out
    <3>2. QED
      BY <2>2, <3>1, LeastNat
  <2>4. i \in 1 .. Len(s) /\ s[i] \notin S /\ s[i] \in Nodes /\ s[i] # NULL
    BY <1>2, <2>3, NodesAssumption
  <2>5. CASE i = 1
    BY <1>1, <1>4, <2>4, <2>5 DEF At
  <2>6. CASE i # 1
    <3>1. i - 1 \in 1 .. Len(s) /\ (i - 1) + 1 = i /\ ~(i <= i - 1)
      BY <1>2, <2>4, <2>6
    <3>2. s[i - 1] \in S
      BY <2>3, <3>1
    <3>3. next[s[i - 1]] = s[i]
      BY <1>1, <2>4, <3>1 DEF At
    <3>4. QED
      BY <1>4, <2>4, <3>2, <3>3
  <2>7. QED
    BY <2>5, <2>6
<1>5. NodesOf(s) \subseteq ChainFrom(first)
  BY <1>2, <1>4 DEF ChainFrom
<1>6. ChainFrom(first) = NodesOf(s)
  BY <1>3, <1>5
<1>7. ASSUME first # NULL PROVE \E n \in ChainFrom(first) : next[n] = NULL
  <2>1. 1 \in 1 .. Len(s)
    BY <1>1, <1>7 DEF At
  <2>2. Len(s) \in 1 .. Len(s) /\ Len(s) + 1 \notin 1 .. Len(s)
    BY <1>2, <2>1
  <2>3. next[s[Len(s)]] = NULL /\ s[Len(s)] \in NodesOf(s)
    BY <1>1, <1>2, <2>2 DEF At
  <2>4. QED
    BY <1>6, <2>3
<1>8. QED
  BY <1>6, <1>7 DEF Ends

\* No node is counted twice.
LEMMA Counted ==
    ASSUME NEW s \in Seq(Nodes), Injective(s)
    PROVE  Cardinality(NodesOf(s)) = Len(s)
<1> DEFINE N == Len(s)
           f == [i \in 1 .. N |-> s[i]]
<1>1. N \in Nat /\ \A i \in 1 .. N : s[i] \in NodesOf(s)
  BY NodesOfType
<1>2. f \in [1 .. N -> NodesOf(s)]
  BY <1>1
<1>3. \A i, j \in 1 .. N : f[i] = f[j] => i = j
  BY DEF Injective
<1>4. \A x \in NodesOf(s) : \E i \in 1 .. N : f[i] = x
  BY DEF NodesOf
<1> HIDE DEF f, N
<1>5. f \in Bijection(1 .. N, NodesOf(s))
  BY <1>2, <1>3, <1>4 DEF Bijection, Injection, Surjection, IsInjective
<1>6. ExistsBijection(1 .. N, NodesOf(s))
  BY <1>5 DEF ExistsBijection
<1>7. Cardinality(NodesOf(s)) = N
  BY <1>1, <1>6, FS_CountingElements
<1>8. QED
  BY <1>7 DEF N

\* The parts of the partition are the places.
LEMMA OnePlace ==
    ASSUME Partition(ChainFrom(head.node), ChainFrom(lifo.node)), NEW n \in Nodes
    PROVE  Cardinality({p \in Places : n \in p[3]}) = 1
<1> DEFINE F == ChainFrom(head.node)
           S == ChainFrom(lifo.node)
           Arg(t) == {arg[t]} \ {NULL}
<1>1. \A p : p \in Places <=>
         \/ p = <<"fifo", NULL, F>>
         \/ p = <<"lifo", NULL, S>>
         \/ p = <<"freed", NULL, freed>>
         \/ \E t \in Threads : p = <<"mine", t, mine[t]>>
         \/ \E t \in Threads : p = <<"arg", t, Arg(t)>>
  BY DEF Places
<1>2. /\ F \cap S = {} /\ (F \cup S) \cap freed = {}
      /\ \A t \in Threads : (mine[t] \cup Arg(t)) \cap (F \cup S \cup freed) = {}
      /\ \A t, u \in Threads : t # u => (mine[t] \cup Arg(t)) \cap (mine[u] \cup Arg(u)) = {}
      /\ \A t \in Threads : mine[t] \cap Arg(t) = {}
      /\ n \in F \cup S \cup freed \/ \E t \in Threads : n \in mine[t] \cup Arg(t)
  BY DEF Partition, Held
<1> HIDE DEF F, S, Arg
<1>3. ASSUME NEW p \in Places, n \in p[3], \A q \in Places : n \in q[3] => q = p
      PROVE  Cardinality({q \in Places : n \in q[3]}) = 1
  <2>1. {q \in Places : n \in q[3]} = {p}
    BY <1>3
  <2>2. QED
    BY <2>1, FS_Singleton
<1>4. ASSUME NEW q \in Places, n \in q[3]
      PROVE  \/ n \in F /\ q = <<"fifo", NULL, F>>
             \/ n \in S /\ q = <<"lifo", NULL, S>>
             \/ n \in freed /\ q = <<"freed", NULL, freed>>
             \/ \E t \in Threads : n \in mine[t] /\ q = <<"mine", t, mine[t]>>
             \/ \E t \in Threads : n \in Arg(t) /\ q = <<"arg", t, Arg(t)>>
  BY <1>1, <1>4
<1>5. CASE n \in F
  <2>1. <<"fifo", NULL, F>> \in Places
    BY <1>1
  <2>2. \A q \in Places : n \in q[3] => q = <<"fifo", NULL, F>>
    BY <1>2, <1>4, <1>5
  <2>3. QED
    BY <1>3, <1>5, <2>1, <2>2
<1>6. CASE n \in S
  <2>1. <<"lifo", NULL, S>> \in Places
    BY <1>1
  <2>2. \A q \in Places : n \in q[3] => q = <<"lifo", NULL, S>>
    BY <1>2, <1>4, <1>6
  <2>3. QED
    BY <1>3, <1>6, <2>1, <2>2
<1>7. CASE n \in freed
  <2>1. <<"freed", NULL, freed>> \in Places
    BY <1>1
  <2>2. \A q \in Places : n \in q[3] => q = <<"freed", NULL, freed>>
    BY <1>2, <1>4, <1>7
  <2>3. QED
    BY <1>3, <1>7, <2>1, <2>2
<1>8. ASSUME NEW t \in Threads, n \in mine[t]
      PROVE  Cardinality({p \in Places : n \in p[3]}) = 1
  <2>1. <<"mine", t, mine[t]>> \in Places
    BY <1>1
  <2>2. \A q \in Places : n \in q[3] => q = <<"mine", t, mine[t]>>
    BY <1>2, <1>4, <1>8
  <2>3. QED
    BY <1>3, <1>8, <2>1, <2>2
<1>9. ASSUME NEW t \in Threads, n \in Arg(t)
      PROVE  Cardinality({p \in Places : n \in p[3]}) = 1
  <2>1. <<"arg", t, Arg(t)>> \in Places
    BY <1>1
  <2>2. \A q \in Places : n \in q[3] => q = <<"arg", t, Arg(t)>>
    BY <1>2, <1>4, <1>9
  <2>3. QED
    BY <1>3, <1>9, <2>1, <2>2
<1>10. QED
  BY <1>2, <1>5, <1>6, <1>7, <1>8, <1>9

\* Every node is in one place, whatever address comes back where, and the fifo has one
\* node more than items and ends at its tail.
THEOREM NodesCorrect == Spec => []NodesIntact
<1>1. ASSUME IInv PROVE NodesIntact
  <2>1. PICK f \in Seq(Nodes), s \in Seq(Nodes) : Chains(f, s)
    BY <1>1 DEF IInv
  <2>2. /\ ChainFrom(head.node) = NodesOf(f) /\ Ends(head.node)
        /\ ChainFrom(lifo.node) = NodesOf(s) /\ Ends(lifo.node)
        /\ Cardinality(NodesOf(f)) = Len(f)
    BY <2>1, ChainNodes, Counted DEF Chains
  <2>3. EachNodeInOnePlace
    <3>1. Partition(ChainFrom(head.node), ChainFrom(lifo.node))
      BY <2>1, <2>2 DEF Chains
    <3>2. QED
      BY <2>2, <3>1, OnePlace DEF EachNodeInOnePlace
  <2>4. FifoIntact
    <3>1. SUFFICES ASSUME head.node # NULL, \A t \in Threads : pc[t] # "dist_destroy"
                   PROVE  /\ Cardinality(ChainFrom(head.node)) = Len(pushed) - Len(popped) + 1
                          /\ tail \in ChainFrom(head.node) /\ next[tail] = NULL
      BY DEF FifoIntact
    <3>2. f # <<>>
      BY <2>1, <3>1 DEF Chains, IsList, At
    <3>3. Serving /\ FifoHolds(f)
      BY <2>1, <3>1, <3>2 DEF Chains
    <3>4. Len(f) \in 1 .. Len(f) /\ Len(f) + 1 \notin 1 .. Len(f)
      BY <3>2
    <3>5. next[f[Len(f)]] = NULL /\ f[Len(f)] \in NodesOf(f)
      BY <2>1, <3>4 DEF Chains, IsList, Links, At, NodesOf
    <3>6. QED
      BY <2>2, <3>3, <3>5 DEF FifoHolds
  <2>5. QED
    BY <1>1, <2>3, <2>4 DEF NodesIntact, IInv
<1>2. QED
  BY <1>1, Invariant, PTL

=============================================================================
