--------------------------- MODULE HazardPointer ---------------------------
(***************************************************************************)
(* include/fibconcurrent/hazard_pointer.h and src/hazard_pointer.c: safe   *)
(* memory reclamation.  A thread announces the nodes it is about to        *)
(* dereference in its K hazard pointers; a retired node is given back      *)
(* (gc_function) only by a scan that found it in nobody's announcements.   *)
(*                                                                         *)
(* This module holds the state and the operations; a data structure that   *)
(* uses them (MpmcFifo, HazardRecords) extends it and calls the operations *)
(* from its own actions.  The stores to hazard pointers go through a store *)
(* buffer per thread, as on x86: FlushHazard makes the oldest visible, a   *)
(* locked instruction waits until the buffer is empty, and so does         *)
(* store_load_barrier when it is a real fence (Fenced); for ARCH_x86_64    *)
(* its body is empty.                                                      *)
(***************************************************************************)
EXTENDS Integers, Sequences, FiniteSets, TLC

CONSTANTS Threads,  \* each has at most one record, which is named after it
          K,        \* hazard pointers per thread
          Nodes,    \* the addresses of the nodes there are
          NULL,
          Fenced    \* store_load_barrier() drains the store buffer

ASSUME KAssumption == K \in Nat \ {0}
ASSUME NodesAssumption == Nodes \subseteq Nat /\ NULL \notin Nodes
ASSUME FencedAssumption == Fenced \in BOOLEAN

VARIABLES
    records,      \* the list at *head, the newest record first
    threshold,    \* each record's retire_threshold
    hp,           \* hazard_pointers[], as the other threads see them
    hsb,          \* each thread's stores to its hazard pointers not yet visible
    retired,      \* retired_list; its length is retired_count
    walk,         \* scan: the hazard pointers still to be read
    max_pointers, \* scan: the local; 0 outside, or before it is computed
    plist,        \* scan: what has been collected so far
    free          \* nodes given to gc_function, to be allocated again

recordVars == <<records, threshold>>
scanVars == <<walk, max_pointers, plist>>
hazardVars == <<recordVars, hp, hsb, retired, scanVars, free>>

\* `registered` is the list of records the run starts with.
HazardInit(registered, used) ==
    /\ records = registered
    /\ threshold = [t \in Threads |-> 2 * Len(registered) * K]
    /\ hp = [t \in Threads |-> [k \in 0 .. K - 1 |-> NULL]]
    /\ hsb = [t \in Threads |-> <<>>]
    /\ retired = [t \in Threads |-> {}]
    /\ walk = [t \in Threads |-> <<>>]
    /\ max_pointers = [t \in Threads |-> 0]
    /\ plist = [t \in Threads |-> <<>>]
    /\ free = Nodes \ used

\* hptr->hazard_pointers[k] = n, for each <<k, n>> of `stores` in turn:
\* hazard_pointer_using (n a node) and hazard_pointer_done_using (n NULL).
Announce(t, stores) == hsb' = [hsb EXCEPT ![t] = @ \o stores]

\* A locked instruction of t may execute.
Drained(t) == hsb[t] = <<>>

\* The store_load_barrier() of hazard_pointer_using is behind t.
BarrierPassed(t) == Fenced => Drained(t)

FlushHazard(t) ==
    /\ hsb[t] # <<>>
    /\ hp' = [hp EXCEPT ![t][Head(hsb[t])[1]] = Head(hsb[t])[2]]
    /\ hsb' = [hsb EXCEPT ![t] = Tail(@)]
    /\ UNCHANGED <<recordVars, retired, scanVars, free>>

\* hazard_pointer_free: retire n; TRUE of MustScan if the threshold is reached.
RetireNode(t, n) == retired' = [retired EXCEPT ![t] = @ \cup {n}]
MustScan(t) == Cardinality(retired'[t]) >= threshold[t]

-----------------------------------------------------------------------------
(* hazard_pointer_scan                                                     *)

\* The hazard pointers of a list of records, in the order a scan reads them.
PointersOf(list) ==
    [i \in 1 .. Len(list) * K |-> <<list[((i - 1) \div K) + 1], (i - 1) % K>>]

\* head = *hptr->head; the list behind a record never changes.
ScanHead(t) ==
    /\ walk[t] = <<>> /\ max_pointers[t] = 0
    /\ walk' = [walk EXCEPT ![t] = PointersOf(records)]
    /\ UNCHANGED <<recordVars, hp, hsb, retired, max_pointers, plist, free>>

\* max_pointers = head->retire_threshold / 2; the plist gets room for as many.
ScanAlloc_OwnThreshold(t) ==
    /\ walk[t] # <<>> /\ max_pointers[t] = 0
    /\ max_pointers' = [max_pointers EXCEPT ![t] = threshold[t] \div 2]
    /\ UNCHANGED <<recordVars, hp, hsb, retired, walk, plist, free>>
ScanAlloc(t) ==
    /\ walk[t] # <<>> /\ max_pointers[t] = 0
    /\ max_pointers' = [max_pointers EXCEPT ![t] = threshold[walk[t][1][1]] \div 2]
    /\ UNCHANGED <<recordVars, hp, hsb, retired, walk, plist, free>>

\* What t reads of hazard pointer k of `owner`: of its own record its latest store,
\* visible to the others or not.
HazardSeen(t, owner, k) ==
    LET pending == {i \in 1 .. Len(hsb[t]) : hsb[t][i][1] = k}
        latest == CHOOSE i \in pending : \A j \in pending : j <= i
    IN  IF owner = t /\ pending # {} THEN hsb[t][latest][2] ELSE hp[owner][k]

\* h = hazard_pointers[i]; if(h) plist[index++] = h
ScanRead(t) ==
    /\ walk[t] # <<>> /\ max_pointers[t] # 0
    /\ LET h == HazardSeen(t, walk[t][1][1], walk[t][1][2]) IN
          plist' = [plist EXCEPT ![t] = IF h = NULL THEN @ ELSE Append(@, h)]
    /\ walk' = [walk EXCEPT ![t] = Tail(@)]
    /\ UNCHANGED <<recordVars, hp, hsb, retired, max_pointers, free>>

\* qsort(hptr->plist, ...): what was collected, in ascending order
Qsort(found) ==
    LET places == 1 .. Len(found)
        order == CHOOSE p \in [places -> places] :
                    /\ {p[i] : i \in places} = places
                    /\ \A i, j \in places : i < j => found[p[i]] <= found[p[j]]
    IN  [i \in places |-> found[order[i]]]

\* binary_search of a sorted array between start and end, counted from 0 as in C
Search_DropsLast(haystack, needle) ==
    LET search[range \in Nat \X Int] ==
            LET start == range[1]
                end == range[2]
                middle == (start + end) \div 2 IN
            IF start >= end THEN FALSE
            ELSE IF haystack[middle + 1] > needle THEN search[<<start, middle - 1>>]
            ELSE IF haystack[middle + 1] < needle THEN search[<<middle + 1, end>>]
            ELSE TRUE
    IN search
Search(haystack, needle) ==
    LET search[range \in Nat \X Int] ==
            LET start == range[1]
                end == range[2]
                middle == (start + end) \div 2 IN
            IF start > end THEN FALSE
            ELSE IF haystack[middle + 1] > needle THEN search[<<start, middle - 1>>]
            ELSE IF haystack[middle + 1] < needle THEN search[<<middle + 1, end>>]
            ELSE TRUE
    IN search
BinarySearch(haystack, needle) ==
    Search(haystack, needle)[<<0, Len(haystack) - 1>>]

\* is_hazardous of the sorted plist
Hazardous(found, n) == BinarySearch(Qsort(found), n)

\* The retired nodes that are in the plist stay retired; gc_function gets the
\* others.
ScanReclaim_DropsList(t) ==
    /\ walk[t] = <<>> /\ max_pointers[t] # 0
    /\ free' = free \cup {n \in retired[t] : ~Hazardous(plist[t], n)}
    /\ retired' = [retired EXCEPT ![t] = {}]
    /\ max_pointers' = [max_pointers EXCEPT ![t] = 0]
    /\ plist' = [plist EXCEPT ![t] = <<>>]
    /\ UNCHANGED <<recordVars, hp, hsb, walk>>
ScanReclaim(t) ==
    /\ walk[t] = <<>> /\ max_pointers[t] # 0
    /\ free' = free \cup {n \in retired[t] : ~Hazardous(plist[t], n)}
    /\ retired' = [retired EXCEPT ![t] = {n \in @ : Hazardous(plist[t], n)}]
    /\ max_pointers' = [max_pointers EXCEPT ![t] = 0]
    /\ plist' = [plist EXCEPT ![t] = <<>>]
    /\ UNCHANGED <<recordVars, hp, hsb, walk>>

HazardTypeOK ==
    /\ records \in Seq(Threads)
    /\ threshold \in [Threads -> Nat]
    /\ hp \in [Threads -> [0 .. K - 1 -> Nodes \cup {NULL}]]
    /\ hsb \in [Threads -> Seq((0 .. K - 1) \X (Nodes \cup {NULL}))]
    /\ retired \in [Threads -> SUBSET Nodes]
    /\ walk \in [Threads -> Seq(Threads \X (0 .. K - 1))]
    /\ max_pointers \in [Threads -> Nat]
    /\ plist \in [Threads -> Seq(Nodes)]
    /\ free \subseteq Nodes

=============================================================================
