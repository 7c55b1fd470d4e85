------------------------------- MODULE XTeardown -------------------------------
(***************************************************************************)
(* The teardown idiom of x-heap.c:108-112, x_heap_sweep(base, base, NONE), *)
(* on a runtime XAlloc has been running: the sweep starts at the base,     *)
(* frees it first, and goes on along the allocation chain with no base.    *)
(*                                                                         *)
(* The runtime is over when it starts: XAlloc's variables stay as they     *)
(* are, and "left" and "tally" go on from its objects and its count.       *)
(***************************************************************************)
EXTENDS XAlloc

CONSTANTS Base, NULL

ASSUME BaseIsAnObject == Base \notin Addr /\ NULL \notin Addr \cup {Base}

VARIABLES
    phase,   \* "running", "sweeping" or "done"
    keep,    \* objects with X_OBJ_FLAG_SHARED
    todo,    \* the rest of the chain, from p_node on
    prev,    \* p_prev
    base,    \* p_base, the base handed to x_obj_free and to the free hook
    left,    \* the base and the objects not yet freed
    tally    \* the count of objects, as far as x_obj_free keeps it

teardownVars == <<phase, keep, todo, prev, base, left, tally>>
allVars == <<live, space, typed, count, cells, reports, extra, msg, ctl,
             phase, keep, todo, prev, base, left, tally>>

TeardownInit ==
    /\ Init
    /\ phase = "running" /\ keep = {} /\ todo = <<>>
    /\ prev = NULL /\ base = Base
    /\ left = {Base} /\ tally = 0

Run == phase = "running" /\ Next /\ UNCHANGED teardownVars

(* The objects stand on the chain in the order they were allocated in, any *)
(* of them SHARED; p_prev is p_obj, the base (x-heap.c:91).                *)
Start ==
    /\ phase = "running" /\ ctl = "run"
    /\ phase' = "sweeping" /\ ctl' = "exited"
    /\ keep' \in SUBSET live
    /\ \E order \in SetToSeqs(live) : todo' = <<Base>> \o order
    /\ prev' = Base
    /\ left' = live \cup {Base} /\ tally' = count
    /\ UNCHANGED <<base, live, space, typed, count, cells, reports, extra, msg>>

Node == Head(todo)

Retain ==
    /\ phase = "sweeping" /\ todo # <<>> /\ Node \in keep
    /\ prev' = Node
    /\ todo' = Tail(todo)
    /\ UNCHANGED <<phase, keep, base, left, tally, vars>>

(* Wrong: the base is handed on after it has been freed.                   *)
BaseAfterKept(o) == base

(* The base the next x_obj_free gets. *)
BaseAfter(o) == IF o = base THEN NULL ELSE base

(* x_obj_free(p_base, p_node): the fields it chases are p_base's, and with *)
(* no base it counts nothing.  The base goes through it as well.           *)
Release(o) ==
    /\ left' = left \ {o}
    /\ tally' = IF base # NULL /\ typed THEN tally - 1 ELSE tally

(* How far in front of the object x_obj_free finds the allocation. *)
StepBack(o) == IF space[o] > 0 /\ base # NULL THEN Extra ELSE 0

(* Wrong: the walk ends with the base.                                     *)
SweepFreeStops ==
    /\ phase = "sweeping" /\ todo # <<>> /\ Node \notin keep
    /\ Release(Node)
    /\ base' = BaseAfter(Node)
    /\ todo' = IF Node = base THEN <<>> ELSE Tail(todo)
    /\ UNCHANGED <<phase, keep, prev, vars>>

SweepFree ==
    /\ phase = "sweeping" /\ todo # <<>> /\ Node \notin keep
    /\ Release(Node)
    /\ base' = BaseAfter(Node)
    /\ todo' = Tail(todo)
    /\ UNCHANGED <<phase, keep, prev, vars>>

Finish ==
    /\ phase = "sweeping" /\ todo = <<>>
    /\ phase' = "done"
    /\ UNCHANGED <<keep, todo, prev, base, left, tally, vars>>

TeardownNext == Run \/ Start \/ Retain \/ SweepFree \/ Finish

(* The fairness is XAlloc's: nobody is obliged to tear a runtime down.     *)
TeardownSpec ==
    /\ TeardownInit /\ [][TeardownNext]_allVars
    /\ WF_allVars(Run /\ AllocAttempt) /\ WF_allVars(Run /\ Report)

-----------------------------------------------------------------------------
(* "From then on the base is dead memory: stop handing it to x_obj_free    *)
(* ... and to the free hook" (x-heap.c:109-112): the base in use is alive. *)
NoDeadBase == phase = "sweeping" /\ todo # <<>> => base \in left \cup {NULL}

(* The teardown frees the base and every object that is not SHARED, and no *)
(* other.                                                                  *)
TeardownFreesAll == phase = "done" => left = keep

(* "From then on the base is dead memory": no store of the walk goes to    *)
(* it.  x_heap_sweep stores to the link of p_prev at each object it frees. *)
NoStoreToDeadBase ==
    [][phase = "sweeping" /\ left' # left => prev \in left]_allVars

(* Each object is released at the address it was allocated at.             *)
TeardownReleasesWhereAllocated ==
    [][phase = "sweeping" =>
          \A o \in (left \ left') \cap Addr : StepBack(o) = space[o]]_allVars
=============================================================================
