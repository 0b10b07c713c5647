-------------------------- MODULE MpmcStackProofs --------------------------
(***************************************************************************)
(* Proofs about mpmc_stack.h, for every number of threads, every set of    *)
(* nodes and every width of the count of tries.                            *)
(***************************************************************************)
EXTENDS MpmcStack, TLAPS

-----------------------------------------------------------------------------
(* The inductive invariant.                                                *)

NodesOf(s) == {s[i] : i \in 1 .. Len(s)}

Injective(s) == \A i, j \in 1 .. Len(s) : s[i] = s[j] => i = j

\* The nodes a thread holds: the one it pushes, or what it flushed.
Held(t) == ({n[t]} \ {NULL}) \cup NodesOf(detached[t])

\* A node is in one place only: with the callers, on the stack or with one thread.
PlacesInv ==
    /\ owned \cap NodesOf(stack) = {}
    /\ \A t \in Threads : Held(t) \cap (owned \cup NodesOf(stack)) = {}
    /\ \A t, u \in Threads : t # u => Held(t) \cap Held(u) = {}

\* mpmc_stack_reverse has turned the first k nodes: they lead back to the first one,
\* the others still forward.
TurnedTo(t, k) ==
    /\ out[t] = At(detached[t], k)
    /\ old[t] = At(detached[t], k + 1)
    /\ \A i \in 1 .. Len(detached[t]) :
          next[detached[t][i]] = At(detached[t], IF i <= k THEN i - 1 ELSE i + 1)

\* What a thread knows of its node and of its list, wherever head has moved since.
ThreadInv(t) ==
    /\ n[t] # NULL <=> pc[t] \in {"push_head", "push_cas"}
    /\ pc[t] \in {"idle", "push_head", "push_cas"} => detached[t] = <<>>
    /\ Injective(detached[t])
    /\ pc[t] = "push_cas" => next[n[t]] = old[t]
    /\ pc[t] = "lifo" => IsList(out[t], detached[t])
    /\ pc[t] = "reverse" => \E k \in 0 .. Len(detached[t]) : TurnedTo(t, k)
    /\ pc[t] = "fifo" => TurnedTo(t, Len(detached[t]))

\* The number of attempts a call stands for.
Limit(t) == IF given[t] = 0 THEN TriesModulus ELSE given[t]

\* The first decrement wraps around when the call was given 0.
TriesInv(t) ==
    /\ pc[t] \notin {"push_head", "push_cas"} => given[t] = NULL
    /\ given[t] = NULL => attempts[t] = 0
    /\ given[t] # NULL =>
          /\ attempts[t] < Limit(t)
          /\ tries[t] = IF attempts[t] = 0 THEN given[t] ELSE Limit(t) - attempts[t]

IInv ==
    /\ TypeOK /\ PlacesInv
    /\ ListIntact /\ Injective(stack)
    /\ \A t \in Threads : ThreadInv(t) /\ TriesInv(t)

-----------------------------------------------------------------------------
(* Sequences of nodes.                                                     *)

\* A push puts its node in front of the others.
LEMMA PushedFront ==
    ASSUME NEW s \in Seq(Nodes), NEW x \in Nodes
    PROVE  LET r == <<x>> \o s IN
           /\ r \in Seq(Nodes) /\ Len(r) = Len(s) + 1
           /\ r[1] = x /\ \A i \in 1 .. Len(s) : r[i + 1] = s[i]
           /\ \A i \in 2 .. Len(r) : i - 1 \in 1 .. Len(s) /\ r[i] = s[i - 1]
<1> DEFINE r == <<x>> \o s
<1>1. r \in Seq(Nodes) /\ Len(r) = Len(s) + 1 /\ Len(s) \in Nat
  OBVIOUS
<1>2. \A i \in 1 .. Len(r) : r[i] = IF i = 1 THEN x ELSE s[i - 1]
  OBVIOUS
<1> HIDE DEF r
<1>3. r[1] = x /\ \A i \in 1 .. Len(s) : r[i + 1] = s[i]
  BY <1>1, <1>2
<1>4. \A i \in 2 .. Len(r) : i - 1 \in 1 .. Len(s) /\ r[i] = s[i - 1]
  BY <1>1, <1>2
<1>5. QED
  BY <1>1, <1>3, <1>4 DEF r

\* The nodes of a sequence, and what is beyond its ends.
LEMMA AtType ==
    ASSUME NEW s \in Seq(Nodes), NEW i \in Int
    PROVE  /\ At(s, i) \in Nodes \cup {NULL}
           /\ At(s, i) = NULL <=> i \notin 1 .. Len(s)
           /\ At(s, i) # NULL => At(s, i) = s[i] /\ s[i] \in NodesOf(s)
BY NullAssumption DEF At, NodesOf

\* The stack after a push.
LEMMA PushedNodes ==
    ASSUME NEW s \in Seq(Nodes), NEW x \in Nodes, x \notin NodesOf(s), Injective(s)
    PROVE  /\ NodesOf(<<x>> \o s) = NodesOf(s) \cup {x}
           /\ Injective(<<x>> \o s)
<1> DEFINE r == <<x>> \o s
<1>1. /\ r \in Seq(Nodes) /\ Len(r) = Len(s) + 1 /\ Len(s) \in Nat
      /\ r[1] = x /\ \A i \in 1 .. Len(s) : r[i + 1] = s[i]
      /\ \A i \in 2 .. Len(r) : i - 1 \in 1 .. Len(s) /\ r[i] = s[i - 1]
  BY PushedFront
<1> HIDE DEF r
<1>2. \A i \in 1 .. Len(r) : i = 1 \/ i \in 2 .. Len(r)
  BY <1>1
<1>3. NodesOf(r) \subseteq NodesOf(s) \cup {x}
  <2>1. ASSUME NEW i \in 1 .. Len(r) PROVE r[i] \in NodesOf(s) \cup {x}
    BY <1>1, <1>2 DEF NodesOf
  <2>2. QED
    BY <2>1 DEF NodesOf
<1>4. \A i \in 1 .. Len(s) : i + 1 \in 1 .. Len(r)
  BY <1>1
<1>5. 1 \in 1 .. Len(r)
  BY <1>1
<1>6. NodesOf(s) \cup {x} \subseteq NodesOf(r)
  <2>1. x \in NodesOf(r)
    BY <1>1, <1>5 DEF NodesOf
  <2>2. ASSUME NEW i \in 1 .. Len(s) PROVE s[i] \in NodesOf(r)
    <3>1. s[i] = r[i + 1] /\ i + 1 \in 1 .. Len(r)
      BY <1>1, <1>4
    <3>2. QED
      BY <3>1 DEF NodesOf
  <2>3. NodesOf(s) \subseteq NodesOf(r)
    BY <2>2 DEF NodesOf
  <2>4. QED
    BY <2>1, <2>3
<1>7. \A i, j \in 1 .. Len(r) : r[i] = r[j] => i = j
  <2> TAKE i, j \in 1 .. Len(r)
  <2>1. CASE i = 1 /\ j = 1
    BY <2>1
  <2>2. CASE i = 1 /\ j \in 2 .. Len(r)
    BY <2>2, <1>1 DEF NodesOf
  <2>3. CASE i \in 2 .. Len(r) /\ j = 1
    BY <2>3, <1>1 DEF NodesOf
  <2>4. CASE i \in 2 .. Len(r) /\ j \in 2 .. Len(r)
    <3>1. s[i - 1] = s[j - 1] => i - 1 = j - 1
      BY <2>4, <1>1 DEF Injective
    <3>2. QED
      BY <3>1, <2>4, <1>1
  <2>5. QED
    BY <1>2, <2>1, <2>2, <2>3, <2>4
<1>8. QED
  BY <1>3, <1>6, <1>7 DEF r, Injective

-----------------------------------------------------------------------------
(* Facts that follow from the invariant.                                   *)

LEMMA Types ==
    ASSUME TypeOK, NEW t \in Threads
    PROVE  /\ head \in Nodes \cup {NULL} /\ n[t] \in Nodes \cup {NULL}
           /\ next \in [Nodes -> Nodes \cup {NULL}]
           /\ old[t] \in Nodes \cup {NULL} /\ out[t] \in Nodes \cup {NULL}
           /\ given[t] \in (0 .. MaxTries) \cup {NULL}
           /\ tries[t] \in 0 .. TriesModulus - 1
           /\ attempts[t] \in 0 .. TriesModulus
           /\ stack \in Seq(Nodes) /\ detached[t] \in Seq(Nodes)
           /\ owned \subseteq Nodes
BY DEF TypeOK

\* A thread holds nodes only.
LEMMA HeldNodes ==
    ASSUME TypeOK, NEW t \in Threads
    PROVE  /\ Held(t) \subseteq Nodes
           /\ n[t] # NULL => n[t] \in Held(t) /\ n[t] \in Nodes
           /\ NodesOf(detached[t]) \subseteq Held(t)
           /\ \A i \in 1 .. Len(detached[t]) : detached[t][i] \in Held(t)
BY Types DEF Held, NodesOf

\* Between calls a thread holds nothing.
LEMMA IdleHoldsNothing ==
    ASSUME NEW t \in Threads, ThreadInv(t), pc[t] = "idle"
    PROVE  /\ n[t] = NULL /\ detached[t] = <<>> /\ Held(t) = {}
BY DEF ThreadInv, Held, NodesOf

\* A pushing thread holds its node only.
LEMMA PushHoldsOne ==
    ASSUME TypeOK, NEW t \in Threads, ThreadInv(t), pc[t] \in {"push_head", "push_cas"}
    PROVE  /\ n[t] \in Nodes /\ n[t] # NULL /\ detached[t] = <<>> /\ Held(t) = {n[t]}
BY Types DEF ThreadInv, Held, NodesOf

\* Nobody disturbs a thread that leaves the nodes it holds alone.
LEMMA Undisturbed ==
    ASSUME TypeOK, NEW t \in Threads, ThreadInv(t),
           pc'[t] = pc[t], n'[t] = n[t], old'[t] = old[t], out'[t] = out[t],
           detached'[t] = detached[t], \A x \in Held(t) : next'[x] = next[x]
    PROVE  ThreadInv(t)' /\ Held(t)' = Held(t)
<1>1. \A i \in 1 .. Len(detached[t]) : next'[detached[t][i]] = next[detached[t][i]]
  BY HeldNodes
<1>2. n[t] # NULL => next'[n[t]] = next[n[t]]
  BY HeldNodes
<1>3. Held(t)' = Held(t)
  BY DEF Held, NodesOf
<1>4. \A k : TurnedTo(t, k) => TurnedTo(t, k)'
  BY <1>1 DEF TurnedTo, At
<1>5. (pc[t] = "lifo" => IsList(out[t], detached[t]))'
  BY <1>1 DEF ThreadInv, IsList, At
<1>6. (pc[t] = "reverse" => \E k \in 0 .. Len(detached[t]) : TurnedTo(t, k))'
  BY <1>4 DEF ThreadInv
<1>7. (pc[t] = "fifo" => TurnedTo(t, Len(detached[t])))'
  BY <1>4 DEF ThreadInv
<1>8. (pc[t] = "push_cas" => next[n[t]] = old[t])'
  BY <1>2 DEF ThreadInv
<1>9. QED
  BY <1>3, <1>5, <1>6, <1>7, <1>8 DEF ThreadInv, Injective

\* Nobody disturbs the stack who leaves its nodes alone.
LEMMA StackUndisturbed ==
    ASSUME ListIntact, Injective(stack), UNCHANGED <<head, stack>>,
           \A x \in NodesOf(stack) : next'[x] = next[x]
    PROVE  ListIntact' /\ Injective(stack)' /\ NodesOf(stack)' = NodesOf(stack)
<1>1. \A i \in 1 .. Len(stack) : next'[stack[i]] = next[stack[i]]
  BY DEF NodesOf
<1>2. QED
  BY <1>1 DEF ListIntact, IsList, At, Injective, NodesOf

\* A thread's count of tries is its own.
LEMMA TriesUndisturbed ==
    ASSUME NEW t \in Threads, TriesInv(t), pc'[t] = pc[t], given'[t] = given[t],
           tries'[t] = tries[t], attempts'[t] = attempts[t]
    PROVE  TriesInv(t)'
BY DEF TriesInv, Limit

\* A thread's step changes its own variables and its own nodes.
OwnStep(t) ==
    /\ \A u \in Threads \ {t} :
          /\ pc'[u] = pc[u] /\ n'[u] = n[u] /\ old'[u] = old[u] /\ out'[u] = out[u]
          /\ detached'[u] = detached[u] /\ given'[u] = given[u]
          /\ tries'[u] = tries[u] /\ attempts'[u] = attempts[u]
    /\ \A x \in Nodes \ Held(t) : next'[x] = next[x]

\* Such a step keeps what is known of the other threads.
LEMMA OthersKept ==
    ASSUME IInv, NEW t \in Threads, OwnStep(t), NEW u \in Threads, u # t
    PROVE  ThreadInv(u)' /\ TriesInv(u)' /\ Held(u)' = Held(u)
<1>1. Held(u) \subseteq Nodes \ Held(t)
  BY HeldNodes DEF IInv, PlacesInv
<1>2. \A x \in Held(u) : next'[x] = next[x]
  BY <1>1 DEF OwnStep
<1>3. ThreadInv(u)' /\ Held(u)' = Held(u)
  BY <1>2, Undisturbed DEF IInv, OwnStep
<1>4. TriesInv(u)'
  BY TriesUndisturbed DEF IInv, OwnStep
<1>5. QED
  BY <1>3, <1>4

\* It leaves the nodes on the stack alone, too.
LEMMA StackKept ==
    ASSUME IInv, NEW t \in Threads, OwnStep(t), UNCHANGED <<head, stack>>
    PROVE  ListIntact' /\ Injective(stack)' /\ NodesOf(stack)' = NodesOf(stack)
<1>1. NodesOf(stack) \subseteq Nodes \ Held(t)
  BY Types DEF IInv, PlacesInv, NodesOf
<1>2. \A x \in NodesOf(stack) : next'[x] = next[x]
  BY <1>1 DEF OwnStep
<1>3. QED
  BY <1>2, StackUndisturbed DEF IInv

\* A step moves nodes between its thread, the callers and the stack.
LEMMA PlacesMoved ==
    ASSUME IInv, NEW t \in Threads, OwnStep(t),
           owned' \cap NodesOf(stack)' = {},
           Held(t)' \cap (owned' \cup NodesOf(stack)') = {},
           Held(t)' \cup owned' \cup NodesOf(stack)' \subseteq Held(t) \cup owned \cup NodesOf(stack)
    PROVE  PlacesInv'
<1>1. \A u \in Threads \ {t} : Held(u)' = Held(u)
  BY OthersKept
<1>2. \A u \in Threads \ {t} : Held(u) \cap (Held(t) \cup owned \cup NodesOf(stack)) = {}
  BY DEF IInv, PlacesInv
<1>3. ASSUME NEW u \in Threads PROVE Held(u)' \cap (owned' \cup NodesOf(stack)') = {}
  <2>1. CASE u = t
    BY <2>1
  <2>2. CASE u # t
    BY <2>2, <1>1, <1>2
  <2>3. QED
    BY <2>1, <2>2
<1>4. ASSUME NEW u \in Threads, NEW v \in Threads, u # v
      PROVE  Held(u)' \cap Held(v)' = {}
  <2>1. CASE u = t
    BY <2>1, <1>1, <1>2, <1>4
  <2>2. CASE v = t
    BY <2>2, <1>1, <1>2, <1>4
  <2>3. CASE u # t /\ v # t
    BY <2>3, <1>1, <1>4 DEF IInv, PlacesInv
  <2>4. QED
    BY <2>1, <2>2, <2>3
<1>5. QED
  BY <1>3, <1>4 DEF PlacesInv

\* What is left to show of a step of thread t.
LEMMA StepPreserves ==
    ASSUME IInv, NEW t \in Threads, OwnStep(t), TypeOK', PlacesInv',
           ListIntact', Injective(stack)', ThreadInv(t)', TriesInv(t)'
    PROVE  IInv'
<1>1. ASSUME NEW u \in Threads PROVE ThreadInv(u)' /\ TriesInv(u)'
  BY OthersKept
<1>2. QED
  BY <1>1 DEF IInv

-----------------------------------------------------------------------------
(* Types.                                                                  *)

\* What the decrement leaves is a size_t.
LEMMA LeftType ==
    ASSUME TypeOK, NEW t \in Threads
    PROVE  /\ Left(t) \in 0 .. TriesModulus - 1
           /\ tries[t] >= 1 => Left(t) = tries[t] - 1
           /\ tries[t] = 0 => Left(t) = TriesModulus - 1
<1>1. TriesModulus \in Nat \ {0} /\ tries[t] \in 0 .. TriesModulus - 1
  BY Types, TriesAssumption
<1>2. CASE tries[t] >= 1
  BY <1>1, <1>2 DEF Left
<1>3. CASE tries[t] = 0
  BY <1>1, <1>3 DEF Left
<1>4. QED
  BY <1>1, <1>2, <1>3

\* mpmc_stack_init.
LEMMA TypeInit == Init => TypeOK
BY TriesAssumption DEF Init, TypeOK

\* Every step keeps the types.
LEMMA TypeStep == IInv /\ [Next]_vars => TypeOK'
<1> SUFFICES ASSUME IInv, [Next]_vars PROVE TypeOK'
  OBVIOUS
<1>0. TypeOK /\ \A t \in Threads : ThreadInv(t) /\ TriesInv(t)
  BY DEF IInv
<1>1. ASSUME NEW t \in Threads, NEW x \in Nodes, NEW g \in (0 .. MaxTries) \cup {NULL},
             PushCall(t, x, g)
      PROVE  TypeOK'
  <2>1. (IF g = NULL THEN 0 ELSE g) \in 0 .. TriesModulus - 1
    BY TriesAssumption
  <2>2. QED
    BY <1>0, <1>1, <2>1 DEF TypeOK, PushCall, Goto, stackVars, history
<1>2. ASSUME NEW t \in Threads, PushHead(t) PROVE TypeOK'
  <2>1. n[t] \in Nodes
    BY <1>0, <1>2, PushHoldsOne DEF PushHead
  <2>2. QED
    BY <1>0, <1>2, <2>1 DEF TypeOK, PushHead, Goto, history
<1>3. ASSUME NEW t \in Threads, PushSucceeds(t) PROVE TypeOK'
  <2>1. n[t] \in Nodes
    BY <1>0, <1>3, PushHoldsOne DEF PushSucceeds
  <2>2. stack' \in Seq(Nodes)
    BY <1>0, <1>3, <2>1, PushedFront DEF TypeOK, PushSucceeds
  <2>3. 0 \in 0 .. TriesModulus /\ 0 \in 0 .. TriesModulus - 1
    BY TriesAssumption
  <2>4. QED
    BY <1>0, <1>3, <2>1, <2>2, <2>3 DEF TypeOK, PushSucceeds, PushReturns, Goto
<1>4. ASSUME NEW t \in Threads, PushFails(t) PROVE TypeOK'
  <2>1. n[t] \in Nodes
    BY <1>0, <1>4, PushHoldsOne DEF PushFails
  <2>2. Left(t) \in 0 .. TriesModulus - 1
    BY <1>0, LeftType
  <2>3. 0 \in 0 .. TriesModulus /\ 0 \in 0 .. TriesModulus - 1
    BY TriesAssumption
  <2>4. CASE PushReturns(t, {n[t]})
    BY <1>0, <1>4, <2>1, <2>3, <2>4 DEF TypeOK, PushFails, PushReturns, Goto, stackVars
  <2>5. CASE ~PushReturns(t, {n[t]})
    <3>1. (IF given[t] = NULL THEN tries[t] ELSE Left(t)) \in 0 .. TriesModulus - 1
      BY <1>0, <2>2, Types
    <3>2. (IF given[t] # NULL /\ attempts[t] < TriesModulus
           THEN attempts[t] + 1 ELSE attempts[t]) \in 0 .. TriesModulus
      BY <1>0, Types, TriesAssumption
    <3>3. tries' \in [Threads -> 0 .. TriesModulus - 1]
      BY <1>0, <1>4, <2>5, <3>1 DEF TypeOK, PushFails
    <3>4. attempts' \in [Threads -> 0 .. TriesModulus]
      BY <1>0, <1>4, <2>5, <3>2 DEF TypeOK, PushFails
    <3>5. pc' = [pc EXCEPT ![t] = "push_head"] /\ UNCHANGED <<stackVars, n, old, given,
             owned, out, stack, detached>>
      BY <1>4, <2>5 DEF PushFails, Goto
    <3>6. QED
      BY <1>0, <3>3, <3>4, <3>5 DEF TypeOK, stackVars
  <2>6. QED
    BY <2>4, <2>5
<1>5. ASSUME NEW t \in Threads, NEW order \in {"lifo", "fifo"}, Flush(t, order) PROVE TypeOK'
  <2>1. <<>> \in Seq(Nodes) /\ detached' \in [Threads -> Seq(Nodes)]
    BY <1>0, <1>5 DEF TypeOK, Flush
  <2>2. pc' \in [Threads -> {"idle", "push_head", "push_cas", "reverse", "lifo", "fifo"}]
    BY <1>0, <1>5 DEF TypeOK, Flush, Goto
  <2>3. \/ out' = [out EXCEPT ![t] = head] /\ old' = old
        \/ out' = [out EXCEPT ![t] = NULL] /\ old' = [old EXCEPT ![t] = head]
    BY <1>5 DEF Flush
  <2>4. out' \in [Threads -> Nodes \cup {NULL}]
    BY <1>0, <2>3 DEF TypeOK
  <2>5. old' \in [Threads -> Nodes \cup {NULL}]
    BY <1>0, <2>3 DEF TypeOK
  <2>6. QED
    BY <1>0, <1>5, <2>1, <2>2, <2>4, <2>5 DEF TypeOK, Flush
<1>6. ASSUME NEW t \in Threads, Reverse(t) PROVE TypeOK'
  BY <1>0, <1>6 DEF TypeOK, Reverse, Goto, history
<1>7. ASSUME NEW t \in Threads, FlushReturned(t) PROVE TypeOK'
  <2>1. {detached[t][i] : i \in 1 .. Len(detached[t])} \subseteq Nodes
    BY <1>0, Types
  <2>2. <<>> \in Seq(Nodes)
    OBVIOUS
  <2>3. QED
    BY <1>0, <1>7, <2>1, <2>2 DEF TypeOK, FlushReturned, Goto, stackVars
<1>8. CASE UNCHANGED vars
  BY <1>0, <1>8 DEF TypeOK, vars, stackVars, locals, history
<1>9. QED
  BY <1>1, <1>2, <1>3, <1>4, <1>5, <1>6, <1>7, <1>8 DEF Next, Runs

-----------------------------------------------------------------------------
(* The steps of a push.                                                    *)

LEMMA PushCallStep ==
    ASSUME IInv, TypeOK', NEW t \in Threads, NEW x \in Nodes,
           NEW g \in (0 .. MaxTries) \cup {NULL}, PushCall(t, x, g)
    PROVE  IInv'
<1>0. TypeOK /\ PlacesInv /\ ThreadInv(t) /\ TriesInv(t) /\ x # NULL
  BY NullAssumption DEF IInv
<1>1. OwnStep(t) /\ UNCHANGED <<head, stack>>
  BY <1>0 DEF PushCall, Goto, OwnStep, TypeOK, stackVars, history
<1>2. ListIntact' /\ Injective(stack)' /\ NodesOf(stack)' = NodesOf(stack)
  BY <1>1, StackKept
<1>3. pc[t] = "idle" /\ n[t] = NULL /\ detached[t] = <<>> /\ Held(t) = {}
  BY <1>0, IdleHoldsNothing DEF PushCall
<1>4. pc'[t] = "push_head" /\ n'[t] = x /\ detached'[t] = <<>> /\ given'[t] = g
      /\ attempts'[t] = attempts[t] /\ tries'[t] = IF g = NULL THEN 0 ELSE g
  BY <1>0, <1>3 DEF PushCall, Goto, TypeOK, history
<1>5. Held(t)' = {x}
  BY <1>0, <1>4 DEF Held, NodesOf
<1>6. x \in owned /\ owned' = owned \ {x}
  BY DEF PushCall
<1>7. PlacesInv'
  <2>1. x \notin NodesOf(stack) /\ owned \cap NodesOf(stack) = {}
    BY <1>0, <1>6 DEF PlacesInv
  <2>2. QED
    BY <1>1, <1>2, <1>5, <1>6, <2>1, PlacesMoved
<1>8. ThreadInv(t)'
  BY <1>0, <1>4 DEF ThreadInv, Injective
<1>9. attempts[t] = 0
  BY <1>0, <1>3 DEF TriesInv
<1>10. TriesInv(t)'
  BY <1>4, <1>9, TriesAssumption DEF TriesInv, Limit
<1>11. QED
  BY <1>1, <1>2, <1>7, <1>8, <1>10, StepPreserves

LEMMA PushHeadStep ==
    ASSUME IInv, TypeOK', NEW t \in Threads, PushHead(t)
    PROVE  IInv'
<1>0. TypeOK /\ PlacesInv /\ ThreadInv(t) /\ TriesInv(t)
  BY DEF IInv
<1>1. n[t] \in Nodes /\ n[t] # NULL /\ detached[t] = <<>> /\ Held(t) = {n[t]}
  BY <1>0, PushHoldsOne DEF PushHead
<1>2. /\ pc'[t] = "push_cas" /\ old'[t] = head /\ next'[n[t]] = head
      /\ \A x \in Nodes \ {n[t]} : next'[x] = next[x]
  BY <1>0, <1>1 DEF PushHead, Goto, TypeOK
<1>3. UNCHANGED <<head, stack, n, detached, given, tries, attempts, owned, out>>
  BY DEF PushHead, history
<1>4. OwnStep(t)
  BY <1>0, <1>1, <1>2, <1>3 DEF PushHead, Goto, OwnStep, TypeOK
<1>5. ListIntact' /\ Injective(stack)' /\ NodesOf(stack)' = NodesOf(stack)
  BY <1>3, <1>4, StackKept
<1>6. Held(t)' = Held(t)
  BY <1>3 DEF Held, NodesOf
<1>7. PlacesInv'
  BY <1>0, <1>3, <1>4, <1>5, <1>6, PlacesMoved DEF PlacesInv
<1>8. ThreadInv(t)'
  BY <1>0, <1>1, <1>2, <1>3 DEF ThreadInv, Injective
<1>9. TriesInv(t)'
  BY <1>0, <1>2, <1>3 DEF TriesInv, Limit, PushHead
<1>10. QED
  BY <1>4, <1>5, <1>7, <1>8, <1>9, StepPreserves

\* The call returns, and the thread holds nothing.
LEMMA ReturnsStep ==
    ASSUME IInv, TypeOK', NEW t \in Threads, pc[t] = "push_cas", NEW back,
           PushReturns(t, back), UNCHANGED <<next, out, detached>>
    PROVE  OwnStep(t) /\ Held(t)' = {} /\ ThreadInv(t)' /\ TriesInv(t)'
<1>0. TypeOK /\ ThreadInv(t) /\ TriesInv(t)
  BY DEF IInv
<1>1. detached[t] = <<>>
  BY <1>0, PushHoldsOne
<1>2. /\ pc'[t] = "idle" /\ n'[t] = NULL /\ given'[t] = NULL /\ attempts'[t] = 0
      /\ detached'[t] = <<>>
  BY <1>0, <1>1 DEF PushReturns, Goto, TypeOK
<1>3. OwnStep(t)
  BY <1>0 DEF PushReturns, Goto, OwnStep, TypeOK
<1>4. Held(t)' = {}
  BY <1>2 DEF Held, NodesOf
<1>5. ThreadInv(t)'
  BY <1>2 DEF ThreadInv, Injective
<1>6. TriesInv(t)'
  BY <1>2 DEF TriesInv
<1>7. QED
  BY <1>3, <1>4, <1>5, <1>6

\* The node was linked to `old`, and the CAS found head there: whatever was flushed
\* and pushed again since `old` was read, the list of the stack follows the node.
LEMMA PushSucceedsStep ==
    ASSUME IInv, TypeOK', NEW t \in Threads, PushSucceeds(t)
    PROVE  IInv'
<1>0. TypeOK /\ PlacesInv /\ ThreadInv(t) /\ ListIntact /\ Injective(stack)
  BY DEF IInv
<1>1. n[t] \in Nodes /\ n[t] # NULL /\ Held(t) = {n[t]} /\ next[n[t]] = head
  BY <1>0, PushHoldsOne DEF PushSucceeds, ThreadInv
<1>2. head' = n[t] /\ stack' = <<n[t]>> \o stack /\ owned' = owned /\ next' = next
  BY DEF PushSucceeds, PushReturns
<1>3. OwnStep(t) /\ Held(t)' = {} /\ ThreadInv(t)' /\ TriesInv(t)'
  BY ReturnsStep DEF PushSucceeds
<1>4. n[t] \notin NodesOf(stack) /\ n[t] \notin owned /\ owned \cap NodesOf(stack) = {}
  BY <1>0, <1>1 DEF PlacesInv
<1>5. NodesOf(stack)' = NodesOf(stack) \cup {n[t]} /\ Injective(stack)'
  <2>1. stack \in Seq(Nodes)
    BY <1>0 DEF TypeOK
  <2>2. NodesOf(<<n[t]>> \o stack) = NodesOf(stack) \cup {n[t]} /\ Injective(<<n[t]>> \o stack)
    BY <1>0, <1>1, <1>4, <2>1, PushedNodes
  <2>3. QED
    BY <2>2, <1>2 DEF NodesOf, Injective
<1>6. PlacesInv'
  BY <1>1, <1>2, <1>3, <1>4, <1>5, PlacesMoved
<1>7. ListIntact'
  <2>1. /\ Len(stack') = Len(stack) + 1 /\ Len(stack) \in Nat /\ stack'[1] = n[t]
        /\ \A i \in 1 .. Len(stack) : stack'[i + 1] = stack[i]
        /\ \A i \in 2 .. Len(stack') : i - 1 \in 1 .. Len(stack) /\ stack'[i] = stack[i - 1]
    <3>1. stack \in Seq(Nodes)
      BY <1>0 DEF TypeOK
    <3>2. LET r == <<n[t]>> \o stack IN
          /\ Len(r) = Len(stack) + 1
          /\ r[1] = n[t] /\ \A i \in 1 .. Len(stack) : r[i + 1] = stack[i]
          /\ \A i \in 2 .. Len(r) : i - 1 \in 1 .. Len(stack) /\ r[i] = stack[i - 1]
      BY <3>1, <1>1, PushedFront
    <3>3. Len(stack) \in Nat
      BY <3>1
    <3>4. QED
      BY <3>2, <3>3, <1>2
  <2>2. \A i \in 1 .. Len(stack) + 1 : At(stack', i + 1) = At(stack, i)
    BY <2>1 DEF At
  <2>3. head' = At(stack', 1)
    BY <2>1, <1>2 DEF At
  <2>4. ASSUME NEW i \in 1 .. Len(stack') PROVE next'[stack'[i]] = At(stack', i + 1)
    <3>1. CASE i = 1
      BY <3>1, <2>1, <2>2, <1>0, <1>1, <1>2 DEF ListIntact, IsList
    <3>2. CASE i \in 2 .. Len(stack')
      <4>1. next[stack[i - 1]] = At(stack, (i - 1) + 1)
        BY <3>2, <2>1, <1>0 DEF ListIntact, IsList
      <4>2. (i - 1) + 1 = i /\ i \in 1 .. Len(stack) + 1
        BY <3>2, <2>1
      <4>3. QED
        BY <4>1, <4>2, <3>2, <2>1, <2>2, <1>2
    <3>3. QED
      BY <3>1, <3>2, <2>1
  <2>5. QED
    BY <2>3, <2>4 DEF ListIntact, IsList
<1>8. QED
  BY <1>3, <1>5, <1>6, <1>7, StepPreserves

\* The last attempt failed: the node goes back to the caller.
LEMMA PushGivesUpStep ==
    ASSUME IInv, TypeOK', NEW t \in Threads, pc[t] = "push_cas",
           PushReturns(t, {n[t]}), UNCHANGED <<stackVars, out, stack, detached>>
    PROVE  IInv'
<1>0. TypeOK /\ PlacesInv /\ ThreadInv(t)
  BY DEF IInv
<1>1. Held(t) = {n[t]}
  BY <1>0, PushHoldsOne
<1>2. owned' = owned \cup {n[t]} /\ UNCHANGED <<head, next, stack>>
  BY DEF PushReturns, stackVars
<1>3. OwnStep(t) /\ Held(t)' = {} /\ ThreadInv(t)' /\ TriesInv(t)'
  BY ReturnsStep DEF stackVars
<1>4. ListIntact' /\ Injective(stack)' /\ NodesOf(stack)' = NodesOf(stack)
  BY <1>2, <1>3, StackKept
<1>5. PlacesInv'
  <2>1. n[t] \notin NodesOf(stack) /\ owned \cap NodesOf(stack) = {}
    BY <1>0, <1>1 DEF PlacesInv
  <2>2. QED
    BY <1>1, <1>2, <1>3, <1>4, <2>1, PlacesMoved
<1>6. QED
  BY <1>3, <1>4, <1>5, StepPreserves

\* Another attempt: fewer than Limit(t) have failed.
LEMMA PushRetriesStep ==
    ASSUME IInv, TypeOK', NEW t \in Threads, PushFails(t), ~GivesUp(t)
    PROVE  IInv'
<1>0. TypeOK /\ PlacesInv /\ ThreadInv(t) /\ TriesInv(t)
  BY DEF IInv
<1>1. UNCHANGED <<head, next, stack, n, old, given, owned, out, detached>>
  BY DEF PushFails, stackVars
<1>2. pc[t] = "push_cas" /\ pc'[t] = "push_head"
  BY <1>0 DEF PushFails, Goto, TypeOK
<1>3. /\ tries'[t] = IF given[t] = NULL THEN tries[t] ELSE Left(t)
      /\ attempts'[t] = IF given[t] # NULL /\ attempts[t] < TriesModulus
                        THEN attempts[t] + 1 ELSE attempts[t]
  BY <1>0 DEF PushFails, TypeOK
<1>4. OwnStep(t)
  BY <1>0 DEF PushFails, Goto, OwnStep, TypeOK, stackVars
<1>5. ListIntact' /\ Injective(stack)' /\ NodesOf(stack)' = NodesOf(stack)
  BY <1>1, <1>4, StackKept
<1>6. Held(t)' = Held(t)
  BY <1>1 DEF Held, NodesOf
<1>7. PlacesInv'
  BY <1>0, <1>1, <1>4, <1>5, <1>6, PlacesMoved DEF PlacesInv
<1>8. ThreadInv(t)'
  BY <1>0, <1>1, <1>2 DEF ThreadInv, Injective
<1>9. TriesInv(t)'
  <2>1. CASE given[t] = NULL
    BY <2>1, <1>0, <1>1, <1>2, <1>3 DEF TriesInv
  <2>2. CASE given[t] # NULL
    <3>1. /\ given[t] \in 0 .. MaxTries /\ attempts[t] \in Nat /\ attempts[t] < Limit(t)
          /\ Left(t) # 0
          /\ tries[t] = IF attempts[t] = 0 THEN given[t] ELSE Limit(t) - attempts[t]
      BY <2>2, <1>0, Types DEF TriesInv, GivesUp
    <3>2. Limit(t) \in Nat /\ Limit(t) <= TriesModulus /\ TriesModulus \in Nat
      BY <3>1, TriesAssumption DEF Limit
    <3>3. Left(t) = Limit(t) - (attempts[t] + 1)
      <4>1. CASE attempts[t] = 0 /\ given[t] = 0
        BY <4>1, <3>1, <1>0, LeftType DEF Limit
      <4>2. CASE attempts[t] = 0 /\ given[t] # 0
        <5>1. tries[t] = given[t] /\ tries[t] >= 1 /\ Limit(t) = given[t]
          BY <4>2, <3>1 DEF Limit
        <5>2. QED
          BY <5>1, <4>2, <1>0, LeftType
      <4>3. CASE attempts[t] # 0
        <5>1. tries[t] = Limit(t) - attempts[t] /\ tries[t] >= 1
          BY <4>3, <3>1, <3>2
        <5>2. Left(t) = tries[t] - 1
          BY <5>1, <1>0, LeftType
        <5>3. QED
          BY <5>1, <5>2, <3>1, <3>2
      <4>4. QED
        BY <4>1, <4>2, <4>3
    <3>4. attempts'[t] = attempts[t] + 1 /\ tries'[t] = Left(t) /\ given'[t] = given[t]
      BY <2>2, <3>1, <3>2, <1>1, <1>3
    <3>5. attempts[t] + 1 < Limit(t)
      BY <3>1, <3>2, <3>3
    <3>6. Limit(t)' = Limit(t)
      BY <3>4 DEF Limit
    <3>7. QED
      BY <2>2, <1>2, <3>1, <3>3, <3>4, <3>5, <3>6 DEF TriesInv
  <2>3. QED
    BY <2>1, <2>2
<1>10. QED
  BY <1>4, <1>5, <1>7, <1>8, <1>9, StepPreserves

-----------------------------------------------------------------------------
(* The steps of a flush.                                                   *)

\* The exchange takes the whole list, and leaves an empty stack.
LEMMA FlushStep ==
    ASSUME IInv, TypeOK', NEW t \in Threads, NEW order \in {"lifo", "fifo"}, Flush(t, order)
    PROVE  IInv'
<1>0. TypeOK /\ PlacesInv /\ ThreadInv(t) /\ TriesInv(t) /\ ListIntact /\ Injective(stack)
  BY DEF IInv
<1>1. pc[t] = "idle" /\ n[t] = NULL /\ detached[t] = <<>> /\ Held(t) = {}
  BY <1>0, IdleHoldsNothing DEF Flush
<1>2. /\ head' = NULL /\ stack' = <<>> /\ detached'[t] = stack
      /\ UNCHANGED <<next, n, given, tries, owned, attempts>>
  BY <1>0 DEF Flush, TypeOK
<1>3. \/ pc'[t] = "lifo" /\ out'[t] = head
      \/ pc'[t] = "reverse" /\ out'[t] = NULL /\ old'[t] = head
  BY <1>0 DEF Flush, Goto, TypeOK
<1>4. OwnStep(t)
  BY <1>0 DEF Flush, Goto, OwnStep, TypeOK
<1>5. ListIntact' /\ Injective(stack)' /\ NodesOf(stack)' = {}
  BY <1>2 DEF ListIntact, IsList, At, Injective, NodesOf
<1>6. Held(t)' = NodesOf(stack)
  BY <1>1, <1>2 DEF Held, NodesOf
<1>7. PlacesInv'
  <2>1. owned \cap NodesOf(stack) = {}
    BY <1>0 DEF PlacesInv
  <2>2. QED
    BY <1>2, <1>4, <1>5, <1>6, <2>1, PlacesMoved
<1>8. head = At(stack, 1) /\ \A i \in 1 .. Len(stack) : next[stack[i]] = At(stack, i + 1)
  BY <1>0 DEF ListIntact, IsList
<1>9. ThreadInv(t)'
  <2>1. CASE pc'[t] = "lifo" /\ out'[t] = head
    BY <2>1, <1>0, <1>1, <1>2, <1>8 DEF ThreadInv, IsList, Injective, At
  <2>2. CASE pc'[t] = "reverse" /\ out'[t] = NULL /\ old'[t] = head
    <3>1. Len(stack) \in Nat
      BY <1>0 DEF TypeOK
    <3>2. At(stack, 0) = NULL
      BY DEF At
    <3>3. TurnedTo(t, 0)'
      BY <2>2, <3>1, <3>2, <1>2, <1>8 DEF TurnedTo, At
    <3>4. 0 \in 0 .. Len(detached'[t])
      BY <3>1, <1>2
    <3>5. Injective(detached[t])'
      BY <1>0, <1>2 DEF Injective
    <3>6. QED
      BY <2>2, <3>3, <3>4, <3>5, <1>1, <1>2 DEF ThreadInv
  <2>3. QED
    BY <1>3, <2>1, <2>2
<1>10. TriesInv(t)'
  BY <1>0, <1>1, <1>2 DEF TriesInv
<1>11. QED
  BY <1>4, <1>5, <1>7, <1>9, <1>10, StepPreserves

\* One more node is turned, and its successor was read before its link was
\* overwritten.
LEMMA TurnStep ==
    ASSUME IInv, TypeOK', NEW t \in Threads, Reverse(t), old[t] # NULL
    PROVE  IInv'
<1>0. TypeOK /\ PlacesInv /\ ThreadInv(t) /\ TriesInv(t)
  BY DEF IInv
<1>1. pc[t] = "reverse"
  BY DEF Reverse
<1> DEFINE d == detached[t]
<1>2. PICK k \in 0 .. Len(d) : TurnedTo(t, k)
  BY <1>0, <1>1 DEF ThreadInv
<1>3. d \in Seq(Nodes) /\ Len(d) \in Nat /\ Injective(d)
  BY <1>0, Types DEF ThreadInv
<1>4. /\ next' = [next EXCEPT ![old[t]] = out[t]]
      /\ out' = [out EXCEPT ![t] = old[t]]
      /\ old' = [old EXCEPT ![t] = next[old[t]]]
      /\ UNCHANGED <<pc, head, n, given, tries, owned, attempts, stack, detached>>
  BY DEF Reverse, history
<1>5. k + 1 \in 1 .. Len(d) /\ old[t] = d[k + 1] /\ out[t] = At(d, k)
  BY <1>2, <1>3, AtType DEF TurnedTo
<1>6. old[t] \in Held(t) /\ old[t] \in Nodes
  BY <1>0, <1>5, HeldNodes
<1>7. OwnStep(t)
  BY <1>0, <1>4, <1>6 DEF OwnStep, TypeOK
<1>8. ListIntact' /\ Injective(stack)' /\ NodesOf(stack)' = NodesOf(stack)
  BY <1>4, <1>7, StackKept
<1>9. Held(t)' = Held(t)
  BY <1>4 DEF Held, NodesOf
<1>10. PlacesInv'
  BY <1>0, <1>4, <1>7, <1>8, <1>9, PlacesMoved DEF PlacesInv
<1>11. TurnedTo(t, k + 1)'
  <2>1. \A i \in 1 .. Len(d) : next[d[i]] = At(d, IF i <= k THEN i - 1 ELSE i + 1)
    BY <1>2 DEF TurnedTo
  <2>2. out'[t] = At(d, k + 1)
    BY <1>0, <1>4, <1>5 DEF TypeOK, At
  <2>3. old'[t] = At(d, (k + 1) + 1)
    BY <1>0, <1>4, <1>5, <2>1 DEF TypeOK
  <2>4. ASSUME NEW i \in 1 .. Len(d)
        PROVE  next'[d[i]] = At(d, IF i <= k + 1 THEN i - 1 ELSE i + 1)
    <3>1. d[i] \in Nodes
      BY <1>3
    <3>2. CASE i = k + 1
      BY <3>2, <1>0, <1>4, <1>5, <1>6 DEF TypeOK
    <3>3. CASE i # k + 1
      <4>1. d[i] # old[t]
        BY <3>3, <1>3, <1>5 DEF Injective
      <4>2. next'[d[i]] = next[d[i]]
        BY <4>1, <3>1, <1>0, <1>4 DEF TypeOK
      <4>3. i <= k <=> i <= k + 1
        BY <3>3
      <4>4. QED
        BY <4>2, <4>3, <2>1
    <3>4. QED
      BY <3>2, <3>3
  <2>5. detached'[t] = d
    BY <1>4
  <2>6. QED
    BY <2>2, <2>3, <2>4, <2>5 DEF TurnedTo
<1>12. ThreadInv(t)'
  <2>1. k + 1 \in 0 .. Len(detached[t])'
    BY <1>4, <1>5
  <2>2. QED
    BY <2>1, <1>0, <1>1, <1>3, <1>4, <1>11 DEF ThreadInv, Injective
<1>13. TriesInv(t)'
  BY <1>0, <1>4 DEF TriesInv, Limit
<1>14. QED
  BY <1>7, <1>8, <1>10, <1>12, <1>13, StepPreserves

\* There is no node left to turn.
LEMMA TurnedAllStep ==
    ASSUME IInv, TypeOK', NEW t \in Threads, Reverse(t), old[t] = NULL
    PROVE  IInv'
<1>0. TypeOK /\ PlacesInv /\ ThreadInv(t) /\ TriesInv(t)
  BY DEF IInv
<1>1. /\ pc[t] = "reverse" /\ pc'[t] = "fifo"
      /\ UNCHANGED <<head, next, old, out, n, given, tries, owned, attempts, stack, detached>>
  BY <1>0 DEF Reverse, Goto, history, TypeOK
<1>2. OwnStep(t)
  BY <1>0 DEF Reverse, Goto, OwnStep, TypeOK, history
<1>3. ListIntact' /\ Injective(stack)' /\ NodesOf(stack)' = NodesOf(stack)
  BY <1>1, <1>2, StackKept
<1>4. Held(t)' = Held(t)
  BY <1>1 DEF Held, NodesOf
<1>5. PlacesInv'
  BY <1>0, <1>1, <1>2, <1>3, <1>4, PlacesMoved DEF PlacesInv
<1>6. TurnedTo(t, Len(detached[t]))
  <2>1. PICK k \in 0 .. Len(detached[t]) : TurnedTo(t, k)
    BY <1>0, <1>1 DEF ThreadInv
  <2>2. detached[t] \in Seq(Nodes) /\ Len(detached[t]) \in Nat
    BY <1>0, Types
  <2>3. k + 1 \notin 1 .. Len(detached[t])
    BY <2>1, <2>2, AtType DEF TurnedTo
  <2>4. k = Len(detached[t])
    BY <2>2, <2>3
  <2>5. QED
    BY <2>1, <2>4
<1>7. TurnedTo(t, Len(detached[t]))'
  BY <1>1, <1>6 DEF TurnedTo, At
<1>8. ThreadInv(t)'
  BY <1>0, <1>1, <1>7 DEF ThreadInv, Injective
<1>9. TriesInv(t)'
  BY <1>0, <1>1 DEF TriesInv, Limit
<1>10. QED
  BY <1>2, <1>3, <1>5, <1>8, <1>9, StepPreserves

LEMMA FlushReturnedStep ==
    ASSUME IInv, TypeOK', NEW t \in Threads, FlushReturned(t)
    PROVE  IInv'
<1>0. TypeOK /\ PlacesInv /\ ThreadInv(t) /\ TriesInv(t)
  BY DEF IInv
<1>1. /\ pc'[t] = "idle" /\ detached'[t] = <<>> /\ pc[t] \in {"lifo", "fifo"}
      /\ UNCHANGED <<head, next, n, given, tries, attempts, stack>>
  BY <1>0 DEF FlushReturned, Goto, stackVars, TypeOK
<1>2. n[t] = NULL /\ Held(t) = NodesOf(detached[t])
  BY <1>0, <1>1 DEF ThreadInv, Held
<1>3. owned' = owned \cup NodesOf(detached[t])
  BY DEF FlushReturned, NodesOf
<1>4. OwnStep(t)
  BY <1>0 DEF FlushReturned, Goto, OwnStep, TypeOK, stackVars
<1>5. ListIntact' /\ Injective(stack)' /\ NodesOf(stack)' = NodesOf(stack)
  BY <1>1, <1>4, StackKept
<1>6. Held(t)' = {}
  BY <1>1, <1>2 DEF Held, NodesOf
<1>7. PlacesInv'
  <2>1. NodesOf(detached[t]) \cap NodesOf(stack) = {} /\ owned \cap NodesOf(stack) = {}
    BY <1>0, <1>2 DEF PlacesInv
  <2>2. QED
    BY <1>2, <1>3, <1>4, <1>5, <1>6, <2>1, PlacesMoved
<1>8. ThreadInv(t)'
  BY <1>1, <1>2 DEF ThreadInv, Injective
<1>9. TriesInv(t)'
  BY <1>0, <1>1 DEF TriesInv, Limit
<1>10. QED
  BY <1>4, <1>5, <1>7, <1>8, <1>9, StepPreserves

-----------------------------------------------------------------------------
(* The theorems.                                                           *)

LEMMA InitInv == Init => IInv
<1> SUFFICES ASSUME Init PROVE IInv
  OBVIOUS
<1>1. TypeOK
  BY TypeInit
<1>2. NodesOf(stack) = {} /\ ListIntact /\ Injective(stack)
  BY DEF Init, NodesOf, ListIntact, IsList, At, Injective
<1>3. ASSUME NEW t \in Threads PROVE Held(t) = {} /\ ThreadInv(t) /\ TriesInv(t)
  BY DEF Init, Held, NodesOf, ThreadInv, TriesInv, Injective
<1>4. PlacesInv
  BY <1>2, <1>3 DEF PlacesInv
<1>5. QED
  BY <1>1, <1>2, <1>3, <1>4 DEF IInv

LEMMA StepInv == IInv /\ [Next]_vars => IInv'
<1> SUFFICES ASSUME IInv, [Next]_vars PROVE IInv'
  OBVIOUS
<1>0. TypeOK'
  BY TypeStep
<1>1. ASSUME NEW t \in Threads, NEW x \in Nodes, NEW g \in (0 .. MaxTries) \cup {NULL},
             PushCall(t, x, g)
      PROVE  IInv'
  BY <1>0, <1>1, PushCallStep
<1>2. ASSUME NEW t \in Threads, PushHead(t) PROVE IInv'
  BY <1>0, <1>2, PushHeadStep
<1>3. ASSUME NEW t \in Threads, PushSucceeds(t) PROVE IInv'
  BY <1>0, <1>3, PushSucceedsStep
<1>4. ASSUME NEW t \in Threads, PushFails(t) PROVE IInv'
  <2>1. CASE GivesUp(t)
    <3>1. pc[t] = "push_cas" /\ PushReturns(t, {n[t]})
          /\ UNCHANGED <<stackVars, out, stack, detached>>
      BY <1>4, <2>1 DEF PushFails
    <3>2. QED
      BY <1>0, <3>1, PushGivesUpStep
  <2>2. CASE ~GivesUp(t)
    BY <1>0, <1>4, <2>2, PushRetriesStep
  <2>3. QED
    BY <2>1, <2>2
<1>5. ASSUME NEW t \in Threads, NEW order \in {"lifo", "fifo"}, Flush(t, order) PROVE IInv'
  BY <1>0, <1>5, FlushStep
<1>6. ASSUME NEW t \in Threads, Reverse(t) PROVE IInv'
  BY <1>0, <1>6, TurnStep, TurnedAllStep
<1>7. ASSUME NEW t \in Threads, FlushReturned(t) PROVE IInv'
  BY <1>0, <1>7, FlushReturnedStep
<1>8. CASE UNCHANGED vars
  <2>1. UNCHANGED <<head, next, pc, n, old, given, tries, out, owned, attempts, stack, detached>>
    BY <1>8 DEF vars, stackVars, locals, history
  <2>2. ASSUME NEW t \in Threads PROVE ThreadInv(t)' /\ Held(t)' = Held(t)
    BY <2>1, Undisturbed DEF IInv
  <2>3. ASSUME NEW t \in Threads PROVE TriesInv(t)'
    BY <2>1, TriesUndisturbed DEF IInv
  <2>4. ListIntact' /\ Injective(stack)' /\ NodesOf(stack)' = NodesOf(stack)
    BY <2>1, StackUndisturbed DEF IInv
  <2>5. PlacesInv'
    BY <2>1, <2>2, <2>4 DEF IInv, PlacesInv
  <2>6. QED
    BY <1>0, <2>2, <2>3, <2>4, <2>5 DEF IInv
<1>9. QED
  BY <1>1, <1>2, <1>3, <1>4, <1>5, <1>6, <1>7, <1>8 DEF Next, Runs

\* Whatever the threads push and flush, every node is in one place, and every thread
\* that is in a call has linked or turned its own nodes as far as it should have.
THEOREM Invariant == Spec => []IInv
<1>1. QED
  BY InitInv, StepInv, PTL DEF Spec

\* The list fifo_flush returns is what it took, the oldest first.
LEMMA TurnedIsReversed ==
    ASSUME NEW t \in Threads, detached[t] \in Seq(Nodes), TurnedTo(t, Len(detached[t]))
    PROVE  IsList(out[t], Reversed(detached[t]))
<1> DEFINE d == detached[t]
           r == Reversed(d)
<1>1. d \in Seq(Nodes) /\ Len(d) \in Nat
  OBVIOUS
<1>2. r \in Seq(Nodes) /\ Len(r) = Len(d) /\ \A i \in 1 .. Len(d) : r[i] = d[Len(d) - i + 1]
  BY <1>1 DEF Reversed
<1>3. /\ out[t] = At(d, Len(d))
      /\ \A i \in 1 .. Len(d) : next[d[i]] = At(d, i - 1)
  BY <1>1 DEF TurnedTo
<1> HIDE DEF d, r
<1>4. \A i \in 1 .. Len(d) + 1 : At(r, i) = At(d, Len(d) - i + 1)
  BY <1>1, <1>2 DEF At
<1>5. out[t] = At(r, 1)
  BY <1>1, <1>3, <1>4
<1>6. ASSUME NEW i \in 1 .. Len(r) PROVE next[r[i]] = At(r, i + 1)
  <2>1. Len(d) - i + 1 \in 1 .. Len(d) /\ i \in 1 .. Len(d) /\ i + 1 \in 1 .. Len(d) + 1
    BY <1>1, <1>2
  <2>2. next[d[Len(d) - i + 1]] = At(d, (Len(d) - i + 1) - 1)
    BY <1>3, <2>1
  <2>3. (Len(d) - i + 1) - 1 = Len(d) - (i + 1) + 1
    BY <1>1, <2>1
  <2>4. QED
    BY <1>2, <1>4, <2>1, <2>2, <2>3
<1>7. QED
  BY <1>5, <1>6 DEF IsList, d, r

\* mpmc_stack_push, mpmc_stack_lifo_flush, mpmc_stack_reverse: the list at head is what
\* was pushed and not flushed, and a flush returns all it took, in its order, although
\* head carries no counter and a CAS cannot tell that its head went away and came back.
THEOREM ListsCorrect == Spec => []ListsIntact
<1>1. IInv => ListsIntact
  <2> SUFFICES ASSUME IInv PROVE ListsIntact
    OBVIOUS
  <2>1. ASSUME NEW t \in Threads
        PROVE  /\ pc[t] = "lifo" => IsList(out[t], detached[t])
               /\ pc[t] = "fifo" => IsList(out[t], Reversed(detached[t]))
    BY TurnedIsReversed, Types DEF IInv, ThreadInv
  <2>2. QED
    BY <2>1 DEF IInv, ListsIntact, FlushOrder
<1>2. QED
  BY <1>1, Invariant, PTL

\* mpmc_stack_push_timeout: no more attempts than it was given, for every width of the
\* type tries is counted down in; 0 stands for as many as that type can count.
THEOREM TriesCorrect == Spec => []TriesHonoured
<1>1. IInv => TriesHonoured
  <2> SUFFICES ASSUME IInv, NEW t \in Threads, pc[t] = "push_cas", given[t] # NULL
               PROVE  attempts[t] + 1 <= IF given[t] = 0 THEN TriesModulus ELSE given[t]
    BY DEF TriesHonoured
  <2>1. attempts[t] < Limit(t) /\ attempts[t] \in Nat /\ given[t] \in Nat
    BY Types DEF IInv, TriesInv
  <2>2. TriesModulus \in Nat
    BY TriesAssumption
  <2>3. QED
    BY <2>1, <2>2 DEF Limit
<1>2. QED
  BY <1>1, Invariant, PTL

=============================================================================
