------------------------------- MODULE XDispatch -------------------------------
(***************************************************************************)
(* The questions a program asks about an object - x_obj_type_name,         *)
(* x_obj_units and x_obj_length - and x_obj_error, on top of the fields of *)
(* XBase.  What the object's type does not settle is up to the hook that   *)
(* is current in the base.  A hook is the program's code: while it runs it *)
(* may ask questions itself, raise errors, push hooks and pop them, and    *)
(* then returns an answer or jumps out (longjmp) over any of the calls     *)
(* below it.                                                               *)
(*                                                                         *)
(* Of objects only the type matters: "nil" is no object, "untyped" has a   *)
(* nil type slot, "foreign" a type of the embedding layer.  An object that *)
(* is returned is the tuple of its datum.                                  *)
(***************************************************************************)
EXTENDS XBase

CONSTANTS
    MaxCalls    \* bound: calls in progress

VARIABLES
    calls,      \* the calls to hooks in progress, the innermost last
    reply       \* the last answer

dispatchVars == <<calls, reply>>

Subject == {"nil", "atom", "pair", "untyped", "foreign"}
Question == {"type_name", "units", "length"}

(* The static objects: the types by their names, and the numbers of units  *)
x_type_atom_obj == <<"ATOM">>
x_type_pair_obj == <<"PAIR">>
x_type_units_atom_obj == <<"1">>
x_type_length_atom_obj == <<"1">>
x_type_units_pair_obj == <<"2">>
x_type_length_pair_obj == <<"2">>

x_obj_type(obj) ==
    CASE obj = "atom" -> x_type_atom_obj
      [] obj = "pair" -> x_type_pair_obj
      [] obj = "untyped" -> nil

x_obj_isnil(p) == p = nil

(* What a call hands over *)
NoReply == [asks |-> "none", of |-> "nil", due |-> nil, answer |-> nil]

DispatchStart ==
    /\ calls = <<>>
    /\ reply = NoReply

-----------------------------------------------------------------------------
(* Wrong: the length is asked of the hook for the units.                   *)
HookFieldSwapped ==
    [type_name |-> Accessor["hook_type_name"], units |-> Accessor["hook_units"],
     length |-> Accessor["hook_units"], error |-> Accessor["hook_error"]]

HookField ==
    [type_name |-> Accessor["hook_type_name"], units |-> Accessor["hook_units"],
     length |-> Accessor["hook_length"], error |-> Accessor["hook_error"]]

Hook(asks) == At(tree, First(HookField[asks]))

(* The base, if it is given and has data, has a hook. *)
Consults(isset, asks) == isset /\ ~x_obj_isnil(Hook(asks))

(* The types a question is settled for, and how *)
Settled == {"nil", "atom", "pair", "untyped"}

x_obj_prim_type_name(obj) == IF obj = "nil" THEN nil ELSE x_obj_type(obj)

x_obj_prim_units(obj) ==
    CASE obj = "nil" -> nil
      [] obj = "pair" -> x_type_units_pair_obj
      [] obj \in {"atom", "untyped"} -> x_type_units_atom_obj

x_obj_prim_length(obj) ==
    CASE obj = "nil" -> nil
      [] obj = "pair" -> x_type_length_pair_obj
      [] obj \in {"atom", "untyped"} -> x_type_length_atom_obj

Prim(asks, obj) ==
    CASE asks = "type_name" -> x_obj_prim_type_name(obj)
      [] asks = "units" -> x_obj_prim_units(obj)
      [] asks = "length" -> x_obj_prim_length(obj)

(* x_obj_type_name, x_obj_units, x_obj_length with what their primitive    *)
(* returned *)
Unwrapped(asks, answer) ==
    IF ~x_obj_isnil(answer) THEN answer
    ELSE CASE asks = "type_name" -> <<"NIL">>
           [] asks = "units" -> <<"1">>
           [] asks = "length" -> <<"0">>

(* What x_error writes; it takes no notice of a write that fails.          *)
x_error(obj) ==
    <<"*** ERROR: ", "message">> \o IF obj = "atom" THEN <<" '", "text">> ELSE <<>>

-----------------------------------------------------------------------------
(* The override in force: the newest value on the stack of the field.      *)
HookName ==
    [type_name |-> "hook_type_name", units |-> "hook_units",
     length |-> "hook_length", error |-> "hook_error"]

Due(isset, asks) ==
    IF isset THEN Head(Stacks[HookName[asks]]) ELSE nil

Answers(asks, obj, due, answer) ==
    reply' = [asks |-> asks, of |-> obj, due |-> due, answer |-> answer]

Call(asks, obj, isset) ==
    /\ Len(calls) < MaxCalls
    /\ calls' = Append(calls, [asks |-> asks, of |-> obj, fn |-> Hook(asks),
                               due |-> Due(isset, asks)])
    /\ UNCHANGED <<baseVars, reply>>

(* x_obj_type_name, x_obj_units or x_obj_length, on a base or on one that  *)
(* is NULL or has no data yet *)
Ask(asks, obj, isset) ==
    \/ /\ obj \in Settled
       /\ Answers(asks, obj, Due(isset, asks), Unwrapped(asks, Prim(asks, obj)))
       /\ UNCHANGED <<baseVars, calls>>
    \/ /\ obj \notin Settled /\ Consults(isset, asks)
       /\ Call(asks, obj, isset)
    \/ /\ obj \notin Settled /\ ~Consults(isset, asks)
       /\ Answers(asks, obj, Due(isset, asks), Unwrapped(asks, nil))
       /\ UNCHANGED <<baseVars, calls>>

x_obj_error(obj, isset) ==
    \/ Consults(isset, "error") /\ Call("error", obj, isset)
    \/ /\ ~Consults(isset, "error")
       /\ Answers("error", obj, Due(isset, "error"), x_error(obj))
       /\ UNCHANGED <<baseVars, calls>>

(* The innermost hook returns: an error hook nothing, another an object of *)
(* its own, which is named after it, or NULL. *)
HookReturns(null) ==
    /\ calls # <<>>
    /\ LET c == calls[Len(calls)]
       IN  Answers(c.asks, c.of, c.due,
                   IF c.asks = "error" THEN nil
                   ELSE Unwrapped(c.asks, IF null THEN nil ELSE c.fn))
    /\ calls' = SubSeq(calls, 1, Len(calls) - 1)
    /\ UNCHANGED baseVars

(* It jumps to a frame below some of the calls. *)
HookJumps ==
    /\ calls # <<>>
    /\ \E n \in 0 .. Len(calls) - 1 : calls' = SubSeq(calls, 1, n)
    /\ UNCHANGED <<baseVars, reply>>

(* x_obj_error tells no other subjects apart. *)
ErrorSubject == {"nil", "atom", "foreign"}

DispatchNext ==
    \/ FieldStep /\ UNCHANGED dispatchVars
    \/ \E isset \in BOOLEAN :
          \/ \E asks \in Question, obj \in Subject : Ask(asks, obj, isset)
          \/ \E obj \in ErrorSubject : x_obj_error(obj, isset)
    \/ \E null \in BOOLEAN : HookReturns(null)
    \/ HookJumps

DispatchSpec == Init /\ DispatchStart /\ [][DispatchNext]_<<baseVars, dispatchVars>>

-----------------------------------------------------------------------------
(* "Dispatch priority: check static type, then call the hook if set, then  *)
(* fall back" (x-base.h:132-133).  An object of a built-in type answers as *)
(* such whatever hook is current; any other answer comes from the override *)
(* that was in force when the question was asked, though it is no longer   *)
(* when the hook returns, or is the default when there was none or it had  *)
(* no answer; an error is either printed or handled, never both.           *)
OverrideAnswers ==
    LET r == reply
        default == [type_name |-> <<"NIL">>, units |-> <<"1">>, length |-> <<"0">>]
    IN  /\ r.asks = "error" => (r.due = nil <=> r.answer # nil)
        /\ r.asks \in Question =>
              CASE r.of = "foreign" ->
                      r.answer \in {default[r.asks]} \cup IF r.due = nil THEN {} ELSE {r.due}
                [] r.of = "nil" -> r.answer = default[r.asks]
                [] r.of = "pair" ->
                      r.answer = IF r.asks = "type_name" THEN <<"PAIR">> ELSE <<"2">>
                [] r.of = "atom" ->
                      r.answer = IF r.asks = "type_name" THEN <<"ATOM">> ELSE <<"1">>
                [] r.of = "untyped" ->
                      r.answer = IF r.asks = "type_name" THEN <<"NIL">> ELSE <<"1">>
=============================================================================
