----------------------- MODULE ShardedFifoStealBuffer -----------------------
(***************************************************************************)
(* The sharded_fifo_steal_buffer of include/fibconcurrent/                 *)
(* fifo_steal_buffer.h: an array of fifo_steal_buffers in one block of     *)
(* memory.  The master pushes to and pops from the shards in turn; a thief *)
(* looks at all of them, from its hint on, and reports ABORT if any of its *)
(* attempts aborted.                                                       *)
(*                                                                         *)
(* A shard is its header; what is in its slots is left out, and its items  *)
(* are tickets.  push and pop of one shard are one action each, as in      *)
(* StealBuffer, which FifoStealBuffer implements; a steal reads `high`,    *)
(* then `low`, then swaps `low`.  Init places the headers word by word:    *)
(* create initialises &shards[i], and the other operations use             *)
(* get_shard(i), which is somewhere else, where nobody has written.        *)
(***************************************************************************)
EXTENDS Integers

CONSTANTS NumShards, Size,
          Thieves,
          Hints,         \* the values of `hint` the thieves pass
          UintModulus,   \* of a uint32_t: 2^32
          UlongModulus,  \* of a uint64_t: 2^64
          Unwritten,     \* what a malloc'ed word may hold that nobody has written
          MaxPushes      \* a bound of the model

\* sizeof(fifo_steal_buffer_t) in words: high, low, size and power_of_2_mod
HeaderWords == 3
\* The word of the last two, as fifo_steal_buffer_init leaves it
Sizes == Size + (Size - 1) * UintModulus

\* end = hint + num_shards does not wrap around: the loop would end at once.
ASSUME HintsAssumption ==
    \A h \in Hints : h \in Nat /\ h + NumShards < UintModulus
ASSUME ShardsAssumption == NumShards \in Nat \ {0} /\ "master" \notin Thieves
ASSUME WordsAssumption ==
    /\ UintModulus \in Nat /\ UlongModulus \in Nat /\ UintModulus <= UlongModulus
    /\ Size \in 1 .. UintModulus - 1 /\ Sizes < UlongModulus
    /\ Unwritten \subseteq 0 .. UlongModulus - 1

VARIABLES
    shards,                        \* the headers by index, as get_shard finds them
    next_shard_push, next_shard_pop,
    pc, i,                         \* the master: where it is, the loop
    t_pc, t_i, t_high, t_low, final_ret,  \* the thieves: where they are, locals
    t_left,                        \* the shards a thief has still to visit
    pushes,                        \* the calls of push, up to MaxPushes
    present                        \* history: high of the shards when a call began

master == <<pc, i, next_shard_push, next_shard_pop, pushes>>
thieves == <<t_pc, t_i, t_high, t_low, final_ret, t_left>>
vars == <<shards, master, thieves, present>>

Indices == 0 .. NumShards - 1
Callers == Thieves \cup {"master"}

\* get_shard: memory_per_shard * index
ShardAt(k) == k * (HeaderWords + Size)

\* The words of the headers that create leaves alone: it writes one header after the
\* other, from the first word on.
UnwrittenWords ==
    {ShardAt(k) + f : k \in Indices, f \in 0 .. HeaderWords - 1}
        \ 0 .. HeaderWords * NumShards - 1

Word(w, memory) ==
    IF w \in UnwrittenWords THEN memory[w] ELSE IF w % HeaderWords = 2 THEN Sizes ELSE 0

\* What get_shard takes for a header at word w.
Header(w, memory) ==
    [high |-> Word(w, memory), low |-> Word(w + 1, memory),
     size |-> Word(w + 2, memory) % UintModulus, mod |-> Word(w + 2, memory) \div UintModulus]

NoTickets == [k \in Indices |-> 0]

\* sharded_fifo_steal_buffer_create
Init ==
    /\ \E memory \in [UnwrittenWords -> Unwritten] :
          shards = [k \in Indices |-> Header(ShardAt(k), memory)]
    /\ next_shard_push = 0 /\ next_shard_pop = 0
    /\ pc = "idle" /\ i = 0 /\ pushes = 0
    /\ t_pc = [t \in Thieves |-> "idle"]
    /\ t_i = [t \in Thieves |-> 0] /\ t_left = [t \in Thieves |-> 0]
    /\ t_high = [t \in Thieves |-> 0] /\ t_low = [t \in Thieves |-> 0]
    /\ final_ret = [t \in Thieves |-> "EMPTY"]
    /\ present = [c \in Callers |-> NoTickets]

\* sharded_fifo_steal_buffer_next_shard
NextShard_Stays(which) == which
NextShard(which) == IF which + 1 >= NumShards THEN 0 ELSE which + 1

\* What is in a shard: high > low, as pop and steal have it.
Tickets(k) == shards[k].low + 1 .. shards[k].high
Highs == [k \in Indices |-> shards[k].high]

-----------------------------------------------------------------------------
(* The master: sharded_fifo_steal_buffer_push and _pop                     *)

PushCall ==
    /\ pc = "idle" /\ pushes < MaxPushes
    /\ pc' = "push" /\ i' = 0 /\ pushes' = pushes + 1
    /\ UNCHANGED <<shards, next_shard_push, next_shard_pop, thieves, present>>

PopCall ==
    /\ pc = "idle"
    /\ pc' = "pop" /\ i' = 0
    /\ present' = [present EXCEPT !["master"] = Highs]
    /\ UNCHANGED <<shards, next_shard_push, next_shard_pop, pushes, thieves>>

Returns ==
    /\ pc' = "idle" /\ i' = 0
    /\ present' = [present EXCEPT !["master"] = NoTickets]

\* high - low < size, unsigned
Room(b) == (b.high - b.low) % UlongModulus < b.size

PushShard ==
    /\ pc = "push" /\ i < NumShards
    /\ next_shard_push' = NextShard(next_shard_push)
    /\ LET b == shards[next_shard_push] IN
          \/ /\ Room(b)
             /\ shards' = [shards EXCEPT ![next_shard_push].high = (@ + 1) % UlongModulus]
             /\ Returns
          \/ /\ ~Room(b)
             /\ i' = i + 1
             /\ UNCHANGED <<shards, pc, present>>
    /\ UNCHANGED <<next_shard_pop, pushes, thieves>>

\* fifo_steal_buffer_pop of one shard: it returns the oldest item unless that is
\* the last one, which it drops
PopShard ==
    /\ pc = "pop" /\ i < NumShards
    /\ next_shard_pop' = NextShard(next_shard_pop)
    /\ LET b == shards[next_shard_pop] IN
          \/ /\ b.high > b.low
             /\ shards' = [shards EXCEPT ![next_shard_pop].low = @ + 1]
             /\ \/ b.low + 1 < b.high /\ Returns
                \/ b.low + 1 = b.high /\ i' = i + 1 /\ UNCHANGED <<pc, present>>
          \/ /\ b.high <= b.low
             /\ i' = i + 1
             /\ UNCHANGED <<shards, pc, present>>
    /\ UNCHANGED <<next_shard_push, pushes, thieves>>

\* buffer[ticket & mod] may be past the last slot of the shard: what happens from then
\* on is undefined.
Strays(b, ticket) == ticket >= Size /\ b.mod >= Size

MasterStrays ==
    /\ i < NumShards
    /\ \/ /\ pc = "push"
          /\ LET b == shards[next_shard_push] IN Room(b) /\ Strays(b, b.high)
       \/ /\ pc = "pop"
          /\ LET b == shards[next_shard_pop] IN b.low + 1 < b.high /\ Strays(b, b.low)
    /\ pc' = "undefined"
    /\ UNCHANGED <<shards, i, next_shard_push, next_shard_pop, pushes, thieves, present>>

\* The loop is over: return 0
ReturnsZero ==
    /\ pc \in {"push", "pop"} /\ i = NumShards
    /\ Returns
    /\ UNCHANGED <<shards, next_shard_push, next_shard_pop, pushes, thieves>>

-----------------------------------------------------------------------------
(* sharded_fifo_steal_buffer_steal                                         *)

\* end = hint + num_shards
End_NextOnly(hint) == hint + 1
End(hint) == (hint + NumShards) % UintModulus

StealCall(t, hint) ==
    /\ t_pc[t] = "idle"
    /\ t_pc' = [t_pc EXCEPT ![t] = "high"]
    /\ t_i' = [t_i EXCEPT ![t] = hint % NumShards]
    /\ t_left' = [t_left EXCEPT ![t] = IF hint < End(hint) THEN End(hint) - hint ELSE 0]
    /\ present' = [present EXCEPT ![t] = Highs]
    /\ UNCHANGED <<shards, master, t_high, t_low, final_ret>>

\* high = shard->high, while i < end
StealHigh(t) ==
    /\ t_pc[t] = "high" /\ t_left[t] > 0
    /\ t_high' = [t_high EXCEPT ![t] = shards[t_i[t]].high]
    /\ t_pc' = [t_pc EXCEPT ![t] = "low"]
    /\ UNCHANGED <<shards, master, t_i, t_low, final_ret, t_left, present>>

\* final_ret = ret == ABORT ? ABORT : final_ret
FinalRet_Last(t, ret) == ret
FinalRet(t, ret) == IF ret = "ABORT" THEN "ABORT" ELSE final_ret[t]

\* The steal from this shard got nothing: go on with (i + 1) % num_shards
NextVisit(t, ret) ==
    /\ final_ret' = [final_ret EXCEPT ![t] = FinalRet(t, ret)]
    /\ t_i' = [t_i EXCEPT ![t] = (@ + 1) % NumShards]
    /\ t_left' = [t_left EXCEPT ![t] = @ - 1]
    /\ t_high' = [t_high EXCEPT ![t] = 0] /\ t_low' = [t_low EXCEPT ![t] = 0]
    /\ t_pc' = [t_pc EXCEPT ![t] = "high"]

\* low = shard->low; high > low, or EMPTY
StealLow(t) ==
    /\ t_pc[t] = "low"
    /\ \/ /\ t_high[t] > shards[t_i[t]].low
          /\ t_low' = [t_low EXCEPT ![t] = shards[t_i[t]].low]
          /\ t_pc' = [t_pc EXCEPT ![t] = "cas"]
          /\ UNCHANGED <<t_i, t_high, final_ret, t_left>>
       \/ t_high[t] <= shards[t_i[t]].low /\ NextVisit(t, "EMPTY")
    /\ UNCHANGED <<shards, master, present>>

StealReturns(t) ==
    /\ t_pc' = [t_pc EXCEPT ![t] = "idle"]
    /\ t_i' = [t_i EXCEPT ![t] = 0] /\ t_left' = [t_left EXCEPT ![t] = 0]
    /\ t_high' = [t_high EXCEPT ![t] = 0] /\ t_low' = [t_low EXCEPT ![t] = 0]
    /\ final_ret' = [final_ret EXCEPT ![t] = "EMPTY"]
    /\ present' = [present EXCEPT ![t] = NoTickets]

\* The slot is read and `low` swapped: the item of the ticket, or ABORT
StealCAS(t) ==
    /\ t_pc[t] = "cas"
    /\ \/ /\ shards[t_i[t]].low = t_low[t]
          /\ shards' = [shards EXCEPT ![t_i[t]].low = @ + 1]
          /\ StealReturns(t)
       \/ /\ shards[t_i[t]].low # t_low[t]
          /\ NextVisit(t, "ABORT")
          /\ UNCHANGED <<shards, present>>
    /\ UNCHANGED master

StealStrays(t) ==
    /\ t_pc[t] = "cas" /\ Strays(shards[t_i[t]], t_low[t])
    /\ pc' = "undefined"
    /\ UNCHANGED <<shards, i, next_shard_push, next_shard_pop, pushes, thieves, present>>

StealReturnsFinal(t) ==
    /\ t_pc[t] = "high" /\ t_left[t] = 0
    /\ StealReturns(t)
    /\ UNCHANGED <<shards, master>>

-----------------------------------------------------------------------------
MasterRuns == PushShard \/ PopShard \/ MasterStrays \/ ReturnsZero

StealStep(t) ==
    /\ pc # "undefined"
    /\ \/ \E hint \in Hints : StealCall(t, hint)
       \/ StealHigh(t) \/ StealLow(t) \/ StealCAS(t) \/ StealStrays(t)
       \/ StealReturnsFinal(t)

\* Nothing is said of what follows undefined behaviour.
Undefined == pc = "undefined" /\ UNCHANGED vars

Next ==
    \/ MasterRuns \/ PopCall \/ PushCall \/ Undefined
    \/ \E t \in Thieves : StealStep(t)

Spec == Init /\ [][Next]_vars

\* The master finishes what it started, but need not push or pop again; thieves
\* keep stealing, as the scale test does.
Fairness == WF_vars(MasterRuns) /\ \A t \in Thieves : WF_vars(StealStep(t))

LiveSpec == Spec /\ Fairness

-----------------------------------------------------------------------------
Words == 0 .. UlongModulus - 1

TypeOK ==
    /\ shards \in [Indices -> [high : Words, low : Words,
                               size : 0 .. UintModulus - 1, mod : Int]]
    /\ next_shard_push \in Indices /\ next_shard_pop \in Indices
    /\ pc \in {"idle", "push", "pop", "undefined"}
    /\ i \in 0 .. NumShards
    /\ t_pc \in [Thieves -> {"idle", "high", "low", "cas"}]
    /\ t_i \in [Thieves -> Indices] /\ t_left \in [Thieves -> 0 .. NumShards]
    /\ t_high \in [Thieves -> Words] /\ t_low \in [Thieves -> Words]
    /\ final_ret \in [Thieves -> {"EMPTY", "ABORT"}]
    /\ present \in [Callers -> [Indices -> Words]]

\* Of the tickets up to what was high when c called, none is in shard k now.
Gone(c, k) == shards[k].low >= present[c][k] \/ Tickets(k) = {}

\* A pop that returns 0 and a steal that returns EMPTY leave nothing behind that
\* was there when they were called: a thief that an abort kept from an item is
\* told to retry, "report aborted if *any* attempt aborts".
EmptyIsHonest ==
    /\ pc = "pop" /\ i = NumShards => \A k \in Indices : Gone("master", k)
    /\ \A t \in Thieves :
          t_pc[t] = "high" /\ t_left[t] = 0 /\ final_ret[t] = "EMPTY" =>
              \A k \in Indices : Gone(t, k)

-----------------------------------------------------------------------------
(* The inductive invariant.  It knows nothing of the words that create     *)
(* leaves alone: a shard may begin with any number of tickets, with low    *)
(* above high, or so close to the end that high wraps around.              *)

\* Pushes to k, if there are any, are lost: it will never have a ticket again.
Lost(k) == shards[k].high < shards[k].low

\* What was in shard k when c called has a ticket up to n.
PresentUpTo(c, k, n) == present[c][k] <= n \/ Lost(k)

\* Shard k is among the next n, counted from shard from.
ToVisit(k, from, n) == (IF k < from THEN k - from + NumShards ELSE k - from) < n

PopInv ==
    pc = "pop" =>
        \A k \in Indices : ToVisit(k, next_shard_pop, NumShards - i) \/ Gone("master", k)

StealInv(t) ==
    /\ t_pc[t] \in {"low", "cas"} => t_left[t] > 0 /\ PresentUpTo(t, t_i[t], t_high[t])
    /\ t_pc[t] = "cas" => t_low[t] < t_high[t]
    /\ t_pc[t] # "idle" /\ final_ret[t] = "EMPTY" =>
          \A k \in Indices : ToVisit(k, t_i[t], t_left[t]) \/ Gone(t, k)

IInv ==
    /\ TypeOK
    /\ \A c \in Callers, k \in Indices : PresentUpTo(c, k, shards[k].high)
    /\ PopInv
    /\ \A t \in Thieves : StealInv(t)

-----------------------------------------------------------------------------
\* The thieves empty the shards even if the master never pops again, whatever was in
\* the memory, unless a call has strayed.
Empty == \A k \in Indices : Tickets(k) = {}
Drains == ~Empty ~> Empty \/ pc = "undefined"

=============================================================================
