------------------------------ MODULE XHeapBorrow ------------------------------
(***************************************************************************)
(* XHeap with a reader that borrows the mark walk (x-heap.c:127-135): it   *)
(* tree-marks the base tree with a flag of its own choosing, looks at what *)
(* has the flag, and takes it back with x_heap_chain_clear on the          *)
(* allocation chain.  Between the mark and the clear the program runs, and *)
(* so do collections: what the reader marked becomes garbage or is freed,  *)
(* and its address is allocated again.                                     *)
(*                                                                         *)
(* The walk is x_heap_tree_mark with other flags.  While it is the         *)
(* reader's, "marked" is the reader's flag and the collector's, which it   *)
(* leaves alone, is in "flagged"; at any other time it is the reverse.     *)
(***************************************************************************)
EXTENDS XHeap

CONSTANT MaxBorrowed  \* bound: heap objects, Tree with them, around a pass

VARIABLES
    flagged,  \* objects with the flag that is not in "marked"
    reader    \* "marking", "holding" what it marked, "clearing" it, or "idle"

borrowVars == <<vars, flagged, reader>>

BorrowInit == Init /\ flagged = {} /\ reader = "idle"

(* Bound: the heap is that small from the mark of a pass to its clear.     *)
Bounded == reader' # "idle" => Cardinality(live') <= MaxBorrowed

(* x_heap_tree_mark(base, base tree, the reader's flag) *)
StartPass ==
    /\ reader = "idle" /\ reader' = "marking"
    /\ pc = "mutate" /\ pc' = "tree" /\ cur' = Tree
    /\ marked' = flagged /\ flagged' = marked
    /\ Collecting /\ UNCHANGED <<heap, node, prev, stk>>
    /\ Bounded

Walk ==
    /\ reader = "marking"
    /\ MarkPair \/ MarkLeaf \/ MarkReturn
    /\ UNCHANGED <<flagged, reader>>

PassEnds == reader = "marking" /\ Exhausted /\ stk = <<>>

EndPass ==
    /\ PassEnds /\ reader' = "holding"
    /\ pc' = "mutate" /\ cur' = NULL
    /\ marked' = flagged /\ flagged' = marked
    /\ Collecting /\ UNCHANGED <<heap, node, prev, stk>>

(* The program and the collector neither set nor clear the reader's flag.  *)
(* It is lost with an object that is freed, and with an initialised local  *)
(* along with its mark; a new object begins without it.                    *)
FlagsStay ==
    LET new == Registered' \ Registered
    IN  \E lost \in {{}, new} :
            /\ marked' \cap new = (marked \cap new) \ lost
            /\ flagged' = (flagged \cap (live' \cup Off)) \ lost

(* The program, with the flag set or not, and collections. *)
Program ==
    /\ reader \in {"idle", "holding"} /\ pc = "mutate"
    /\ Mutate \/ StartCollection
    /\ FlagsStay /\ UNCHANGED reader /\ Bounded

Collector ==
    /\ reader \in {"idle", "holding"} /\ pc # "mutate"
    /\ Collect
    /\ FlagsStay /\ UNCHANGED reader

(* Wrong: a tree clear, which reaches what is reachable by now.            *)
TakeBackTree ==
    /\ reader = "holding" /\ reader' = "clearing"
    /\ pc = "mutate" /\ node' = NULL
    /\ flagged' = flagged \ Reachable
    /\ Collecting /\ UNCHANGED <<heap, marked, pc, prev, cur, stk>>

(* x_heap_chain_clear(x_obj_heap(base), the reader's flag) *)
TakeBack ==
    /\ reader = "holding" /\ reader' = "clearing"
    /\ pc = "mutate" /\ node' = heap[Base]
    /\ Collecting /\ UNCHANGED <<heap, marked, pc, prev, cur, stk, flagged>>

ClearTaken ==
    /\ reader = "clearing" /\ node # NULL
    /\ flagged' = flagged \ {node}
    /\ node' = heap[node]
    /\ Collecting /\ UNCHANGED <<heap, marked, pc, prev, cur, stk, reader>>

TakenBack ==
    /\ reader = "clearing" /\ node = NULL
    /\ reader' = "idle"
    /\ UNCHANGED <<vars, flagged>>

BorrowNext ==
    \/ StartPass \/ Walk \/ EndPass
    \/ Program \/ Collector
    \/ TakeBack \/ ClearTaken \/ TakenBack

BorrowSpec == BorrowInit /\ [][BorrowNext]_borrowVars

(* As long as the reader meets heap objects only (Off is empty), each of   *)
(* its passes marks exactly what is reachable (x-heap.c:18-27, 130-131),   *)
(* whatever garbage the program has dropped and collections have freed     *)
(* around the passes before it.                                            *)
PassSeesReachable == PassEnds => marked = Reachable

(* Once the flag is taken back no heap object has it: not one that became  *)
(* garbage, or survived a collection, between the mark and the clear       *)
(* (x-heap.c:132-135).                                                     *)
HeapFlagsTakenBack == reader = "idle" => flagged \cap live = {}
=============================================================================
