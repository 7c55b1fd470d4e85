-------------------------------- MODULE XAlloc --------------------------------
(***************************************************************************)
(* Object allocation and release: x_obj_alloc and x_obj_free, the count    *)
(* and the ceiling they keep in the base, the report of a tripped ceiling  *)
(* through x_obj_error and the embedder's error hook, and the extra        *)
(* metadata units in front of each object.  The chains are XHeap's         *)
(* business and are left out.                                              *)
(*                                                                         *)
(* The ceiling is a base field, and a base field is a stack of values      *)
(* (x-base.h:13-22): x_obj_push_field puts a cell of its own on top, which *)
(* x_obj_pop_field takes off again.                                        *)
(*                                                                         *)
(* Definitions that a comment calls wrong are slips the properties must    *)
(* notice, not part of the specification (see XHeap).                      *)
(***************************************************************************)
EXTENDS Integers, FiniteSets, Sequences, SequencesExt

CONSTANTS
    Addr,        \* addresses malloc hands out
    Limits,      \* ceilings the embedder arms; 0 is "unlimited"
    Extras,      \* values of the obj-meta-extra field
    MaxCells,    \* bound: cells of the ceiling field
    TypeFirst    \* the embedder types its base before it allocates from it

ASSUME BoundsAreSets ==
    /\ IsFiniteSet(Addr)
    /\ Limits \subseteq Nat /\ 0 \in Limits
    /\ Extras \subseteq Nat /\ Extras # {}
    /\ MaxCells \in Nat \ {0}
    /\ TypeFirst \in BOOLEAN

VARIABLES
    live,    \* objects allocated from the base and not yet freed
    space,   \* extra units reserved in front of each; > 0 is X_OBJ_FLAG_META
    typed,   \* the base has a type: base_full
    count,   \* alloc-count field
    cells,   \* alloc-limit field: its stack of atoms, the current one last
    reports, \* for each cell, the reports of a trip since it was armed
    extra,   \* obj-meta-extra field
    msg,     \* the alloc-error field holds a message
    ctl      \* "run", "report": inside x_obj_error, "exited"

vars == <<live, space, typed, count, cells, reports, extra, msg, ctl>>

(* x_base_make: no type, nothing counted, no ceiling, no message. *)
Init ==
    /\ live = {} /\ space = [o \in Addr |-> 0]
    /\ typed = FALSE
    /\ count = 0
    /\ cells = <<0>> /\ reports = <<0>>
    /\ extra \in Extras
    /\ msg = FALSE
    /\ ctl = "run"

Top == Len(cells)

(* The allocation's view of the fields: only those of a typed base count. *)
Limit == IF typed THEN cells[Top] ELSE 0
Extra == IF typed THEN extra ELSE 0

-----------------------------------------------------------------------------
(* x_obj_alloc, one action per way out of it.  The error hook runs code of *)
(* the embedder's, which allocates and frees as any other does.            *)

Running == ctl \in {"run", "report"}

(* Wrong: report again, as on the first trip.                              *)
AllocLatchedReports ==
    /\ Running
    /\ Limit < 0
    /\ ctl' = "report"
    /\ UNCHANGED <<live, space, typed, count, cells, reports, extra, msg>>

(* The ceiling has tripped before: print directly and stop. *)
AllocLatched ==
    /\ Running
    /\ Limit < 0
    /\ ctl' = "exited"
    /\ UNCHANGED <<live, space, typed, count, cells, reports, extra, msg>>

(* Wrong: off by one.                                                      *)
TrippedLate == Limit > 0 /\ count > Limit

Tripped == Limit > 0 /\ count >= Limit

(* Wrong: latch by negating the limit.                                     *)
AllocTripsNegates ==
    /\ Running
    /\ Tripped
    /\ cells' = [cells EXCEPT ![Top] = -@]
    /\ IF msg THEN /\ ctl' = "report"
                   /\ reports' = [reports EXCEPT ![Top] = @ + 1]
              ELSE ctl' = "exited" /\ UNCHANGED reports
    /\ UNCHANGED <<live, space, typed, count, extra, msg>>

(* Wrong: report without a latch.                                          *)
AllocTripsUnlatched ==
    /\ Running
    /\ Tripped
    /\ IF msg THEN /\ ctl' = "report"
                   /\ reports' = [reports EXCEPT ![Top] = @ + 1]
              ELSE ctl' = "exited" /\ UNCHANGED reports
    /\ UNCHANGED <<live, space, typed, count, cells, extra, msg>>

(* The ceiling trips: latch it, then report; without a message just stop. *)
AllocTrips ==
    /\ Running
    /\ Tripped
    /\ cells' = [cells EXCEPT ![Top] = -1]
    /\ IF msg THEN /\ ctl' = "report"
                   /\ reports' = [reports EXCEPT ![Top] = @ + 1]
              ELSE ctl' = "exited" /\ UNCHANGED reports
    /\ UNCHANGED <<live, space, typed, count, extra, msg>>

Admitted == Limit >= 0 /\ ~Tripped

(* malloc returns NULL: stop, or hand the NULL to the owner of a scratch   *)
(* base.                                                                   *)
AllocFails ==
    /\ Running
    /\ Admitted
    /\ typed /\ ctl' = "exited"
    /\ UNCHANGED <<live, space, typed, count, cells, reports, extra, msg>>

Place(o) ==
    /\ Running
    /\ Admitted
    /\ o \in Addr \ live
    /\ typed \/ ~TypeFirst
    /\ live' = live \cup {o}
    /\ space' = [space EXCEPT ![o] = Extra]
    /\ count' = IF typed THEN count + 1 ELSE count
    /\ UNCHANGED <<typed, extra, msg, ctl>>

Alloc(o) == Place(o) /\ UNCHANGED <<cells, reports>>

(* Wrong: the count only ever grows.                                       *)
FreeUncounted(o) ==
    /\ Running
    /\ o \in live
    /\ live' = live \ {o}
    /\ space' = [space EXCEPT ![o] = 0]
    /\ UNCHANGED <<typed, count, cells, reports, extra, msg, ctl>>

(* x_obj_free(p_base, o) *)
Free(o) ==
    /\ Running
    /\ o \in live
    /\ live' = live \ {o}
    /\ space' = [space EXCEPT ![o] = 0]
    /\ count' = IF typed THEN count - 1 ELSE count
    /\ UNCHANGED <<typed, cells, reports, extra, msg, ctl>>

-----------------------------------------------------------------------------
(* x_obj_error on a trip: the hook (or, without one, x_error) returns and  *)
(* the allocator stops the process, or the hook longjmps to a handler and  *)
(* the program goes on.                                                    *)
ReportReturns ==
    /\ ctl = "report"
    /\ ctl' = "exited"
    /\ UNCHANGED <<live, space, typed, count, cells, reports, extra, msg>>

ReportJumps ==
    /\ ctl = "report"
    /\ ctl' = "run"
    /\ UNCHANGED <<live, space, typed, count, cells, reports, extra, msg>>

-----------------------------------------------------------------------------
(* The embedder. *)

SetType ==
    /\ ctl = "run" /\ ~typed
    /\ typed' = TRUE
    /\ UNCHANGED <<live, space, count, cells, reports, extra, msg, ctl>>

(* It arms the current cell, supplying the message with it. *)
Arm(l, m) ==
    /\ ctl = "run"
    /\ cells' = [cells EXCEPT ![Top] = l]
    /\ reports' = [reports EXCEPT ![Top] = 0]
    /\ msg' = m
    /\ UNCHANGED <<live, space, typed, count, extra, ctl>>

(* x_obj_push_field on the ceiling field, with a static atom: the pair it  *)
(* allocates passes the old ceiling first.                                 *)
PushLimit(o, l) ==
    /\ ctl = "run"
    /\ Top < MaxCells
    /\ Place(o)
    /\ cells' = Append(cells, l)
    /\ reports' = Append(reports, 0)

(* x_obj_pop_field *)
PopLimit ==
    /\ ctl = "run"
    /\ Top > 1
    /\ cells' = Front(cells)
    /\ reports' = Front(reports)
    /\ UNCHANGED <<live, space, typed, count, extra, msg, ctl>>

SetExtra(e) ==
    /\ ctl = "run"
    /\ extra' = e
    /\ UNCHANGED <<live, space, typed, count, cells, reports, msg, ctl>>

-----------------------------------------------------------------------------
AllocAttempt ==
    AllocLatched \/ AllocTrips \/ AllocFails \/ \E o \in Addr : Alloc(o)

Report == ReportReturns \/ ReportJumps

Next ==
    \/ AllocAttempt
    \/ \E o \in Addr : Free(o)
    \/ Report
    \/ SetType
    \/ \E l \in Limits, m \in BOOLEAN : Arm(l, m)
    \/ \E o \in Addr, l \in Limits : PushLimit(o, l)
    \/ PopLimit
    \/ \E e \in Extras : SetExtra(e)

Spec == Init /\ [][Next]_vars

(* The error hook comes to an end, and a handler cannot run without        *)
(* allocating (x-obj.c:110-113).                                           *)
FairSpec == Spec /\ WF_vars(AllocAttempt) /\ WF_vars(Report)

-----------------------------------------------------------------------------
(* Type invariant. *)
TypeOK ==
    /\ live \subseteq Addr
    /\ space \in [Addr -> Extras \cup {0}]
    /\ typed \in BOOLEAN /\ msg \in BOOLEAN
    /\ count \in Int
    /\ cells \in Seq(Limits \cup {-1}) /\ Len(cells) \in 1 .. MaxCells
    /\ reports \in Seq(Nat) /\ Len(reports) = Len(cells)
    /\ extra \in Extras
    /\ ctl \in {"run", "report", "exited"}

(* The alloc-count field is "the number of objects currently allocated"    *)
(* (x-base.h:244-247).                                                     *)
CountExact == count = Cardinality(live)

(* "x_obj_alloc stops the process rather than allocate past" an armed      *)
(* ceiling (x-base.h:252-254): an allocation never takes the objects in    *)
(* existence above the ceiling in force.                                   *)
CeilingHolds ==
    [][live' \ live # {} /\ typed /\ Limit > 0 => Cardinality(live') <= Limit]_vars

(* A ceiling that has tripped is reported through the error path once, also*)
(* when the report is intercepted and the program allocates again, and     *)
(* also when other ceilings are pushed on top of it and popped.            *)
OneReport == \A i \in DOMAIN reports : reports[i] <= 1

(* A tripped program comes to its end, unless the embedder lifts the       *)
(* ceiling: no "zero-progress livelock" of report and longjmp              *)
(* (x-obj.c:110-113).                                                      *)
NoLivelock == Limit < 0 ~> (ctl = "exited" \/ Limit >= 0)
=============================================================================
