-------------------------------- MODULE XBaseIO --------------------------------
(***************************************************************************)
(* x_base_read and x_base_write on top of the fields of XBase: a program   *)
(* redirects its streams by pushing descriptors and write buffers and pops *)
(* them again, and reads and writes in between, through its base or with   *)
(* none.  read(2) and write(2) may do less than they are asked for, or     *)
(* fail.                                                                   *)
(*                                                                         *)
(* The input of every descriptor is 1, 2, ..., InLen; the n-th unit the    *)
(* program writes is n.  A write buffer is a pair (pointer . position): it *)
(* keeps its position, also while another one hides it.                    *)
(***************************************************************************)
EXTENDS XBase, Integers

CONSTANTS
    InLen,      \* bound: units in the input of a descriptor
    OutMax,     \* bound: units the program tries to write
    MaxSize     \* bound: units in one call

ASSUME Bounds == InLen \in Nat /\ OutMax \in Nat /\ MaxSize \in Nat

VARIABLES
    taken,      \* units read(2) has handed out, of each descriptor
    got,        \* what the reader has collected, from each descriptor
    ended,      \* descriptors whose end the reader has seen
    sent,       \* units the program has tried to write
    out,        \* what has been written to each descriptor
    mem,        \* the memory of each write buffer
    pos,        \* its position
    accepted    \* the units x_base_write has reported as written, in order,
                \* while each sink was current

ioVars == <<taken, got, ended, sent, out, mem, pos, accepted>>
vars == <<baseVars, ioVars>>

STDIN_FILENO == <<"filein">>
STDOUT_FILENO == <<"fileout">>
AllFd == Fd \cup {STDIN_FILENO, STDOUT_FILENO}
Sinks == AllFd \cup Buf

(* A write buffer is a pair, a descriptor an atom. *)
ASSUME BufsAreNoFds == Buf \cap AllFd = {}

IOStart ==
    /\ taken = [d \in AllFd |-> 0] /\ got = [d \in AllFd |-> <<>>]
    /\ ended = {}
    /\ sent = 0
    /\ out = [d \in AllFd |-> <<>>]
    /\ mem = [b \in Buf |-> <<>>] /\ pos = [b \in Buf |-> 0]
    /\ accepted = [s \in Sinks |-> <<>>]

-----------------------------------------------------------------------------
(* Wrong: whatever is not the whole is taken for the end of the stream.    *)
ReplyEnd(size, result) ==
    [whole |-> result = size, count |-> IF result = size THEN size ELSE 0]

(* The reply of x_base_read: the atom or NULL, and what it leaves in the   *)
(* byte-count atom. *)
Reply(size, result) ==
    [whole |-> result = size, count |-> result]

ReadFd(isset) == IF isset THEN Current("filein") ELSE STDIN_FILENO

(* What the reader has in its buffer: what this call has read, and old     *)
(* units (0) behind.                                                       *)
Buffer(d, n, count) ==
    [i \in 1 .. count |-> IF i <= n THEN taken[d] + i ELSE 0]

(* x_base_read, called by a reader that asks for size units at a time and  *)
(* goes by the reply: it keeps the units it is told of, takes 0 for the    *)
(* end and tries again after an error.                                     *)
Read(isset, size, result) ==
    LET d == ReadFd(isset)
        n == IF result > 0 THEN result ELSE 0
        reply == Reply(size, result)
    IN  /\ d \notin ended
        /\ result = 0 => taken[d] = InLen
        /\ taken[d] + n <= InLen
        /\ taken' = [taken EXCEPT ![d] = @ + n]
        /\ got' = [got EXCEPT ![d] = @ \o Buffer(d, n, reply.count)]
        /\ ended' = IF ~reply.whole /\ reply.count = 0 THEN ended \cup {d} ELSE ended
        /\ UNCHANGED <<tree, used, sent, out, mem, pos, accepted>>

-----------------------------------------------------------------------------
Units(size) == [i \in 1 .. size |-> sent + i]

Accept(size, sink) == accepted' = [accepted EXCEPT ![sink] = @ \o Units(size)]

(* memcpy to the position, and what is behind it stays *)
CopyAt(old, at, units) ==
    SubSeq(old, 1, at) \o units \o SubSeq(old, at + Len(units) + 1, Len(old))

(* Wrong: the position is not advanced.                                    *)
WriteBufferStays(size) ==
    LET b == Current("write_buf")
    IN  /\ b # nil
        /\ mem' = [mem EXCEPT ![b] = CopyAt(@, pos[b], Units(size))]
        /\ Accept(size, b)
        /\ sent' = sent + size
        /\ UNCHANGED <<tree, used, taken, got, ended, out, pos>>

(* x_base_write with a current write buffer, which the program has made    *)
(* large enough *)
WriteBuffer(size) ==
    LET b == Current("write_buf")
    IN  /\ b # nil
        /\ mem' = [mem EXCEPT ![b] = CopyAt(@, pos[b], Units(size))]
        /\ pos' = [pos EXCEPT ![b] = @ + size]
        /\ Accept(size, b)
        /\ sent' = sent + size
        /\ UNCHANGED <<tree, used, taken, got, ended, out>>

WriteFd(isset) == IF isset THEN Current("fileout") ELSE STDOUT_FILENO

(* x_base_write to a descriptor: result is what write(2) returns. *)
WriteOut(isset, size, result) ==
    LET d == WriteFd(isset)
    IN  /\ isset => Current("write_buf") = nil
        /\ out' = [out EXCEPT ![d] = @ \o SubSeq(Units(size), 1, result)]
        /\ IF result = size THEN Accept(size, d) ELSE UNCHANGED accepted
        /\ sent' = sent + size
        /\ UNCHANGED <<tree, used, taken, got, ended, mem, pos>>

Write(size) ==
    /\ sent + size <= OutMax
    /\ \/ WriteBuffer(size)
       \/ \E isset \in BOOLEAN, result \in -1 .. size : WriteOut(isset, size, result)

IONext ==
    \/ FieldStep /\ UNCHANGED ioVars
    \/ \E isset \in BOOLEAN, size \in 1 .. MaxSize, result \in -1 .. MaxSize :
          result <= size /\ Read(isset, size, result)
    \/ \E size \in 1 .. MaxSize : Write(size)

IOSpec == Init /\ IOStart /\ [][IONext]_vars

-----------------------------------------------------------------------------
(* The reader collects the input without a gap or a unit that is not there,*)
(* across redirections, short reads and errors, and believes it has seen   *)
(* the end of a stream only when it has (x-base.c:121-125).                *)
NoTruncation ==
    \A d \in AllFd : /\ got[d] = [i \in 1 .. taken[d] |-> i]
                     /\ d \in ended => taken[d] = InLen

Increasing(s) == \A i, j \in DOMAIN s : i < j => s[i] < s[j]

(* What x_base_write reports as written is, once and in order, in the sink *)
(* that was current when it was written and in no other, however often     *)
(* others have hidden it since; a buffer holds nothing else, and its       *)
(* position is its end.                                                    *)
Delivered ==
    /\ \A b \in Buf : mem[b] = accepted[b] /\ pos[b] = Len(mem[b])
    /\ \A d \in AllFd :
          /\ Increasing(out[d]) /\ Increasing(accepted[d])
          /\ \A s \in Sinks :
                Range(out[d]) \cap Range(accepted[s])
                    = IF s = d THEN Range(accepted[d]) ELSE {}
=============================================================================
