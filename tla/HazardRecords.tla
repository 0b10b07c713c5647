--------------------------- MODULE HazardRecords ---------------------------
(***************************************************************************)
(* The life of the thread records of src/hazard_pointer.c: threads         *)
(* register with hazard_pointer_thread_record_create_and_push at any time, *)
(* while others announce, retire and scan; in the end                      *)
(* hazard_pointer_thread_record_destroy_all gives everything back.         *)
(*                                                                         *)
(* A registration publishes its record with a CAS and raises the           *)
(* thresholds of the older records afterwards, one at a time; a scan that  *)
(* runs meanwhile takes the size of its plist from the head's threshold    *)
(* and reads every record it finds.                                        *)
(*                                                                         *)
(* The client is the least the header describes: one shared pointer        *)
(* `shared` that threads read ("make sure to check it's still the pointer  *)
(* you want"), and replace by another node, retiring the old one.          *)
(***************************************************************************)
EXTENDS HazardPointer

VARIABLES
    shared,  \* the client's pointer
    pc,      \* where each thread is
    node,    \* the node a client call holds
    list     \* create_and_push: ret->next and the records behind it

vars == <<hazardVars, shared, pc, node, list>>

Labels == {"new", "push", "raise", "idle", "grab", "check", "using", "scan", "stopped"}

Goto(t, label) == pc' = [pc EXCEPT ![t] = label]

Init ==
    /\ \E n \in Nodes : HazardInit(<<>>, {n}) /\ shared = n
    /\ pc = [t \in Threads |-> "new"]
    /\ node = [t \in Threads |-> NULL]
    /\ list = [t \in Threads |-> <<>>]

-----------------------------------------------------------------------------
(* hazard_pointer_thread_record_create_and_push                            *)

\* cur_head = *head; ret->next = cur_head
RegisterRead(t) ==
    /\ pc[t] = "new"
    /\ list' = [list EXCEPT ![t] = records]
    /\ Goto(t, "push")
    /\ UNCHANGED <<hazardVars, shared, node>>

\* retire_threshold = 2 * threads * pointers_per_thread, counting this thread
NewThreshold(t) == 2 * (Len(list[t]) + 1) * K

\* __sync_bool_compare_and_swap(head, cur_head, ret), or start over
RegisterCAS(t) ==
    /\ pc[t] = "push"
    /\ \/ /\ records = list[t]
          /\ records' = <<t>> \o list[t]
          /\ threshold' = [threshold EXCEPT ![t] = NewThreshold(t)]
          /\ Goto(t, IF list[t] = <<>> THEN "idle" ELSE "raise")
       \/ /\ records # list[t]
          /\ Goto(t, "new")
          /\ UNCHANGED recordVars
    /\ UNCHANGED <<hp, hsb, retired, scanVars, free, shared, node, list>>

\* __sync_add_and_fetch(&cur->retire_threshold, 2 * K); cur = cur->next
RegisterRaise_FirstOnly(t) ==
    /\ pc[t] = "raise"
    /\ threshold' = [threshold EXCEPT ![Head(list[t])] = @ + 2 * K]
    /\ list' = [list EXCEPT ![t] = <<>>]
    /\ Goto(t, "idle")
    /\ UNCHANGED <<records, hp, hsb, retired, scanVars, free, shared, node>>
RegisterRaise(t) ==
    /\ pc[t] = "raise"
    /\ threshold' = [threshold EXCEPT ![Head(list[t])] = @ + 2 * K]
    /\ list' = [list EXCEPT ![t] = Tail(@)]
    /\ Goto(t, IF Tail(list[t]) = <<>> THEN "idle" ELSE "raise")
    /\ UNCHANGED <<records, hp, hsb, retired, scanVars, free, shared, node>>

-----------------------------------------------------------------------------
(* A client's use of a node, and of the hazard pointers                    *)

\* n = shared; hazard_pointer_using(hptr, n, 0)
Grab(t) ==
    /\ pc[t] \in {"idle", "grab"}
    /\ node' = [node EXCEPT ![t] = shared]
    /\ Announce(t, <<<<0, shared>>>>)
    /\ Goto(t, "check")
    /\ UNCHANGED <<recordVars, hp, retired, scanVars, free, shared, list>>

\* "make sure to check it's still the pointer you want", or grab again
Check(t) ==
    /\ pc[t] = "check"
    /\ BarrierPassed(t)
    /\ Goto(t, IF node[t] = shared THEN "using" ELSE "grab")
    /\ UNCHANGED <<hazardVars, shared, node, list>>

\* hazard_pointer_done_using(hptr, 0)
Release(t) ==
    /\ pc[t] = "using"
    /\ Announce(t, <<<<0, NULL>>>>)
    /\ node' = [node EXCEPT ![t] = NULL]
    /\ Goto(t, "idle")
    /\ UNCHANGED <<recordVars, hp, retired, scanVars, free, shared, list>>

\* exchange `shared` for a new node and hazard_pointer_free the old one
Replace(t, n) ==
    /\ pc[t] = "idle" /\ n \in free /\ Drained(t)
    /\ free' = free \ {n}
    /\ shared' = n
    /\ RetireNode(t, shared)
    /\ Goto(t, IF MustScan(t) THEN "scan" ELSE "idle")
    /\ UNCHANGED <<recordVars, hp, hsb, scanVars, node, list>>

\* hazard_pointer_scan, called by hazard_pointer_free or, as the test does, by a
\* thread that finds no free node (with nothing retired it would change nothing)
ScanCall(t) ==
    /\ pc[t] = "idle"
    /\ free = {} /\ retired[t] # {}
    /\ Goto(t, "scan")
    /\ UNCHANGED <<hazardVars, shared, node, list>>

Scan(t) ==
    /\ pc[t] = "scan"
    /\ \/ (ScanHead(t) \/ ScanAlloc(t) \/ ScanRead(t)) /\ UNCHANGED pc
       \/ ScanReclaim(t) /\ Goto(t, "idle")
    /\ UNCHANGED <<shared, node, list>>

Flush(t) == FlushHazard(t) /\ UNCHANGED <<shared, pc, node, list>>

-----------------------------------------------------------------------------
(* hazard_pointer_thread_record_destroy_all, called when every thread has  *)
(* returned from its last call                                             *)

Ended == \A t \in Threads : pc[t] = "stopped" \/ (pc[t] = "idle" /\ Drained(t))
Stopped == [t \in Threads |-> "stopped"]

\* For the first record: cur->head = &cur, a last scan of it and the records behind
\* it; the record is freed with what is still on its retired list.
Announced(first) == {hp[first[i]][k] : i \in 1 .. Len(first), k \in 0 .. K - 1}
DestroyRecord_NoScan ==
    /\ Ended /\ records # <<>>
    /\ records' = Tail(records)
    /\ retired' = [retired EXCEPT ![Head(records)] = {}]
    /\ pc' = Stopped
    /\ UNCHANGED <<threshold, hp, hsb, scanVars, free, shared, node, list>>
DestroyRecord ==
    /\ Ended /\ records # <<>>
    /\ records' = Tail(records)
    /\ free' = free \cup (retired[Head(records)] \ Announced(records))
    /\ retired' = [retired EXCEPT ![Head(records)] = {}]
    /\ pc' = Stopped
    /\ UNCHANGED <<threshold, hp, hsb, scanVars, shared, node, list>>

Next ==
    \/ \E t \in Threads :
          \/ RegisterRead(t) \/ RegisterCAS(t) \/ RegisterRaise(t)
          \/ Grab(t) \/ Check(t) \/ Release(t)
          \/ \E n \in Nodes : Replace(t, n)
          \/ ScanCall(t) \/ Scan(t) \/ Flush(t)
    \/ DestroyRecord

Spec == Init /\ [][Next]_vars

-----------------------------------------------------------------------------
TypeOK ==
    /\ HazardTypeOK
    /\ shared \in Nodes
    /\ pc \in [Threads -> Labels]
    /\ node \in [Threads -> Nodes \cup {NULL}]
    /\ list \in [Threads -> Seq(Threads)]

\* A node a thread has announced and checked is not given back to the callers,
\* not even by a scan that had started before the thread registered its record
\* and therefore does not read it.
UsedNotFreed == \A t \in Threads : pc[t] = "using" => node[t] \notin free

\* "head always has a correct retired_threshold": the newest record counts every
\* record there is although the counting was done before its CAS, and later
\* registrations raise it only when it is no longer the head.
HeadThresholdCorrect ==
    records # <<>> /\ pc # Stopped =>
        threshold[records[1]] = 2 * Len(records) * K

\* What the test asserts once all have registered: every threshold is 2 * N * K,
\* whatever the order in which overlapping registrations raised it.
ThresholdsSettle ==
    (\A t \in Threads : pc[t] \in Labels \ {"push", "raise", "stopped"}) =>
        \A i \in 1 .. Len(records) : threshold[records[i]] = 2 * Len(records) * K

\* The thresholds during and after overlapping registrations.
ThresholdsCorrect == TypeOK /\ HeadThresholdCorrect /\ ThresholdsSettle

\* assert(index < max_pointers), and no write past the plist: a scan never collects
\* more pointers than the threshold it took its size from allows, although records
\* are pushed and thresholds raised while it runs.
PlistFits ==
    \A t \in Threads :
        max_pointers[t] # 0 =>
            Len(plist[t]) + Len(walk[t]) <= max_pointers[t]

\* "up to a maximum of N * R retired nodes": outside a scan a thread has fewer than
\* 2 * N * K of them, also while its own threshold has still to be raised.
RetiredBounded ==
    \A t \in Threads :
        pc[t] \notin {"scan", "stopped"} /\ retired[t] # {} =>
            Cardinality(retired[t]) < 2 * Len(records) * K

\* Neither list outgrows what the number of records allows, whichever of the
\* thresholds a thread happens to read.
ListsBounded == PlistFits /\ RetiredBounded

\* "so all should be freed": when the last record is gone, every node but the
\* client's own is back with the callers.
AllGivenBack ==
    pc = Stopped /\ records = <<>> =>
        free = Nodes \ {shared}

=============================================================================
