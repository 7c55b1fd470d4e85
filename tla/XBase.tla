--------------------------------- MODULE XBase ---------------------------------
(***************************************************************************)
(* The base tree of x-base.c/.h as the nest of pairs x_base_make builds,   *)
(* the accessor macros as paths into it, and the operations that work on   *)
(* what an accessor finds: x_obj_push_field and x_obj_pop_field (directly  *)
(* or through the callables x_obj_push and x_obj_pop), assignment of the   *)
(* current value, growth of the hook and root lists, and the extension     *)
(* points of the embedding layer.                                          *)
(*                                                                         *)
(* A pair is the tuple of its first and its rest, nil the empty tuple; an  *)
(* accessor is the sequence of firsts (1) and rests (2) it goes through.   *)
(* The tree shares no node, so that an assignment through an lvalue        *)
(* replaces what is at its path.  The collector's view of the tree is      *)
(* XHeap's.                                                                *)
(*                                                                         *)
(* Definitions that a comment calls wrong are slips the properties must    *)
(* notice, not part of the specification (see XHeap).                      *)
(***************************************************************************)
EXTENDS Naturals, FiniteSets, SequencesExt

CONSTANTS
    Fd,         \* descriptors the program redirects a stream to
    Buf,        \* write buffers
    Value,      \* other objects it stores
    UsedSets,   \* bound: sets of fields (and extension points) a program uses
    MaxDepth    \* bound: values on one field, and elements of one list

ASSUME SomeDepth == MaxDepth \in Nat \ {0}

VARIABLES
    tree,       \* the base's datum
    used        \* what this program uses

baseVars == <<tree, used>>

nil == <<>>
pair(f, r) == <<f, r>>

(* The list of the elements of s, made from its end *)
List(s) ==
    LET last[n \in 0 .. Len(s)] ==
            IF n = 0 THEN nil ELSE pair(s[Len(s) - n + 1], last[n - 1])
    IN  last[Len(s)]

-----------------------------------------------------------------------------
(* The fields, in the order x_base_make lists them. *)
Files == <<"filein", "fileout", "fileerr", "write_buf", "buffer">>
Profile == <<"profile_allocs">>
Hooks == <<"hook_type_name", "hook_units", "hook_length", "hook_error">>
Heap == <<"obj_meta_extra", "heap_mark", "heap_free", "heap_mark_hooks",
          "heap_free_hooks", "heap_mark_roots", "heap_root_chain">>
Alloc == <<"alloc_count", "alloc_limit", "alloc_error">>

Field == Range(Files) \cup Range(Profile) \cup Range(Hooks)
            \cup Range(Heap) \cup Range(Alloc)
Lists == {"heap_mark_hooks", "heap_free_hooks", "heap_mark_roots"}

(* The parameters of x_base_make (struct x_base_t) that may be left out    *)
Optional == Range(Hooks) \cup {"heap_mark", "heap_free"}
Given == {"filein", "fileout", "fileerr", "obj_meta_extra"} \cup Optional
Zeros == {"profile_allocs", "alloc_count", "alloc_limit"}

(* The initial values, for a caller that passes those in G; <<f>> is what  *)
(* is passed as the parameter f.                                           *)
Valuation(G) ==
    [f \in Field |-> CASE f \in G -> <<f>>
                       [] f \in Zeros -> <<"0">>
                       [] OTHER -> nil]
Starts == {Valuation(Given), Valuation(Given \ Optional)}

x_base_make(val) ==
    LET fields(names) == List([i \in DOMAIN names |-> pair(val[names[i]], nil)])
    IN  pair(nil,
        pair(pair(pair(nil, fields(Files)), nil),
        pair(pair(fields(Profile), fields(Hooks)),
        pair(fields(Heap),
        pair(fields(Alloc),
        nil)))))

(* The accessors x_base_field_*. *)
First(p) == Append(p, 1)
Rest(p) == Append(p, 2)
Rests(n) == [i \in 1 .. n |-> 2]
Elem(l, n) == First(l \o Rests(n))

base == <<>>
io_fields == First(Rest(base))
files == Rest(First(io_fields))
meta_fields == Rest(Rest(base))
profile == First(First(meta_fields))
hooks == Rest(First(meta_fields))
heap_fields == First(Rest(meta_fields))
alloc_fields == First(Rest(Rest(meta_fields)))

(* Wrong: mark_roots is one rest short.                                    *)
HeapAccessorShort ==
    [obj_meta_extra |-> Elem(heap_fields, 0), heap_mark |-> Elem(heap_fields, 1),
     heap_free |-> Elem(heap_fields, 2), heap_mark_hooks |-> Elem(heap_fields, 3),
     heap_free_hooks |-> Elem(heap_fields, 4),
     heap_mark_roots |-> Elem(heap_fields, 4),
     heap_root_chain |-> Elem(heap_fields, 6)]

HeapAccessor ==
    [obj_meta_extra |-> Elem(heap_fields, 0), heap_mark |-> Elem(heap_fields, 1),
     heap_free |-> Elem(heap_fields, 2), heap_mark_hooks |-> Elem(heap_fields, 3),
     heap_free_hooks |-> Elem(heap_fields, 4),
     heap_mark_roots |-> Elem(heap_fields, 5),
     heap_root_chain |-> Elem(heap_fields, 6)]

OtherAccessor ==
    [filein |-> Elem(files, 0), fileout |-> Elem(files, 1),
     fileerr |-> Elem(files, 2), write_buf |-> Elem(files, 3),
     buffer |-> Elem(files, 4),
     profile_allocs |-> First(profile),
     hook_type_name |-> Elem(hooks, 0), hook_units |-> Elem(hooks, 1),
     hook_length |-> Elem(hooks, 2), hook_error |-> Elem(hooks, 3),
     alloc_count |-> Elem(alloc_fields, 0), alloc_limit |-> Elem(alloc_fields, 1),
     alloc_error |-> Elem(alloc_fields, 2)]

Accessor ==
    [f \in Field |-> IF f \in Range(Heap) THEN HeapAccessor[f] ELSE OtherAccessor[f]]

(* Where downstream projects attach their state (x-base.h:24-27, x-base.c). *)
Extension ==
    [env_ctrl |-> First(base), type_alist |-> First(First(io_fields)),
     io_state |-> Rest(io_fields), alloc_tail |-> Rest(Rest(Rest(meta_fields)))]

-----------------------------------------------------------------------------
(* What is at the path p, going down from the root *)
At(t, p) ==
    LET node[i \in 0 .. Len(p)] == IF i = 0 THEN t ELSE node[i - 1][p[i]]
    IN  node[Len(p)]

(* The assignment of v to the lvalue at p: the nodes on the path as it     *)
(* leaves them, from the lvalue up *)
Put(t, p, v) ==
    LET node[n \in 0 .. Len(p)] ==
            LET i == Len(p) - n
            IN  IF n = 0 THEN v ELSE [At(t, SubSeq(p, 1, i)) EXCEPT ![p[i + 1]] = node[n - 1]]
    IN  node[Len(p)]

(* x_obj_push_field and x_obj_pop_field on the lvalue at p *)
Pushed(p, v) == Put(tree, p, pair(v, At(tree, p)))
Popped(p) == Put(tree, p, At(tree, p)[2])

(* The elements of a list, as a sequence: no list here is longer than      *)
(* MaxDepth. *)
Length(l) ==
    CHOOSE n \in 0 .. MaxDepth : At(l, Rests(n)) = nil /\ \A m \in 0 .. n - 1 : At(l, Rests(m)) # nil
Elements(l) == [i \in 1 .. Length(l) |-> At(l, Elem(base, i - 1))]

Cell(f) == At(tree, Accessor[f])
Current(f) == Cell(f)[1]
Depth(f) == Len(Elements(Cell(f)))

(* What a program stores in each field. *)
Stored(f) ==
    CASE f \in {"filein", "fileout", "fileerr"} -> Fd
      [] f = "write_buf" -> Buf \cup {nil}
      [] f \in Lists -> {nil}
      [] OTHER -> Value

Init ==
    /\ \E val \in Starts : tree = x_base_make(val)
    /\ used \in UsedSets

(* x_obj_push_field(base, &field, v): an override *)
Push(f) ==
    /\ Depth(f) < MaxDepth
    /\ \E v \in Stored(f) : tree' = Pushed(Accessor[f], v)
    /\ UNCHANGED used

(* x_obj_pop_field(base, &field), by the program that pushed *)
Pop(f) ==
    /\ Depth(f) > 1
    /\ tree' = Popped(Accessor[f])
    /\ UNCHANGED used

(* x_firstobj(field) = v *)
Assign(f) ==
    /\ \E v \in Stored(f) : tree' = Put(tree, First(Accessor[f]), v)
    /\ UNCHANGED used

(* x_heap_mark_hook_add, x_heap_free_hook_add, x_heap_mark_root_add *)
AddTo(f, v) ==
    /\ f \in Lists
    /\ Len(Elements(Current(f))) < MaxDepth
    /\ tree' = Pushed(First(Accessor[f]), v)
    /\ UNCHANGED used

(* The embedding layer attaches a list of its own. *)
Extend(e, v) ==
    /\ tree' = Put(tree, Extension[e], pair(v, nil))
    /\ UNCHANGED used

FieldStep ==
    \/ \E f \in used \cap Field : \/ Push(f) \/ Pop(f) \/ Assign(f)
                                  \/ \E v \in Value : AddTo(f, v)
    \/ \E e \in used \cap DOMAIN Extension, v \in Value : Extend(e, v)

Spec == Init /\ [][FieldStep]_baseVars

-----------------------------------------------------------------------------
(* Each field of the tree, read through its accessor. *)
Stacks ==
    [f \in Field |->
        LET values == Elements(Cell(f))
        IN  IF f \in Lists
            THEN [i \in DOMAIN values |-> Elements(values[i])]
            ELSE values]

Fields == INSTANCE XFields WITH stacks <- Stacks, Items <- Value

(* The tree is what x-base.h:13-22 says it is: every accessor finds a stack*)
(* of its own, made with the value it was given, overrides nest and come   *)
(* off again, a list grows in its current value only, and what is attached *)
(* at the extension points disturbs none of it.                            *)
ImplementsFields == Fields!Spec
=============================================================================
