----------------------------- MODULE LuaConstructor -----------------------------
(***************************************************************************)
(* Table constructors in the Lua parser (src/lua-5/5.3.6/src/lparser.c,   *)
(* constructor, field, listfield, recfield, closelistfield,               *)
(* lastlistfield): list items are put in consecutive registers above the  *)
(* table and written to it by OP_SETLIST every LFIELDS_PER_FLUSH items;   *)
(* record fields are written at once with OP_SETTABLE.                    *)
(*                                                                         *)
(* A field is its first tokens: "name=" and "[k]=" are record fields,     *)
(* "exp" and "name" (a name not followed by '=') list items, and "call"   *)
(* a list item that is a call or '...' (hasmultret).  A list item is      *)
(* known by its field index; <<"multi", k>> stands for all the values of  *)
(* call k.  luaK_setlist and OP_SETLIST (lcode.c and lvm.c, not in the    *)
(* repository) are modelled by what they do: registers 1..n above the     *)
(* table go to array slots (c-1)*LFIELDS_PER_FLUSH + 1 .., with           *)
(* c = (na-1) / LFIELDS_PER_FLUSH + 1, and the registers are freed.       *)
(***************************************************************************)
EXTENDS Integers, Sequences, SequencesExt

CONSTANTS
  FieldKinds,         \* the field forms an input may contain
  MaxFields,          \* bound: fields in a constructor
  LFIELDS_PER_FLUSH   \* 50 in the code

VARIABLES
  fields,     \* the constructor's fields, in source order
  k,          \* the next field to parse
  cc,         \* struct ConsControl: v, na, nh, tostore
  regs,       \* the values in the registers above the table, pending
  array,      \* the array part the emitted code builds: slot -> value
  clobbered,  \* ghost: some OP_SETLIST wrote a slot twice
  newtable,   \* the B and C arguments patched into OP_NEWTABLE
  done        \* the constructor's '}' has been handled

vars == <<fields, k, cc, regs, array, clobbered, newtable, done>>

VOID == [kind |-> "void", k |-> 0]

hasmultret(v) == v.kind = "call"

(* The parser's state a constructor changes, as one record. *)
St == [cc |-> cc, regs |-> regs, array |-> array, clobbered |-> clobbered]

Store(S) == cc' = S.cc /\ regs' = S.regs /\ array' = S.array /\ clobbered' = S.clobbered

(* luaK_setlist followed by OP_SETLIST at run time. *)
setlist(S, na, vals) ==
  LET base == ((na - 1) \div LFIELDS_PER_FLUSH) * LFIELDS_PER_FLUSH
      slots == {base + j : j \in 1 .. Len(vals)}
  IN  [S EXCEPT !.array = [p \in DOMAIN @ \cup slots |->
                             IF p \in slots THEN vals[p - base] ELSE @[p]],
                !.clobbered = @ \/ slots \cap DOMAIN S.array # {},
                !.regs = <<>>]

(* Mutant operator: a plausible fault of closelistfield. *)
closelistfield_late(S) ==
  IF S.cc.v = VOID THEN S
  ELSE LET S1 == [S EXCEPT !.regs = Append(@, S.cc.v.k), !.cc.v = VOID] IN
       IF S1.cc.tostore > LFIELDS_PER_FLUSH
       THEN [setlist(S1, S1.cc.na, S1.regs) EXCEPT !.cc.tostore = 0] ELSE S1

(* closelistfield (lines 736-757): luaK_exp2nextreg puts the pending     *)
(* item in the next register (a call truncated to one value); a full     *)
(* batch is flushed.                                                       *)
closelistfield(S) ==
  IF S.cc.v = VOID THEN S
  ELSE LET S1 == [S EXCEPT !.regs = Append(@, S.cc.v.k), !.cc.v = VOID] IN
       IF S1.cc.tostore = LFIELDS_PER_FLUSH
       THEN [setlist(S1, S1.cc.na, S1.regs) EXCEPT !.cc.tostore = 0] ELSE S1

(* recfield (lines 713-733): OP_SETTABLE at once, registers freed. *)
recfield(S) == [S EXCEPT !.cc.nh = @ + 1]

(* listfield (lines 775-787): the item stays pending in cc.v. *)
listfield(S, i, call) ==
  [S EXCEPT !.cc.v = [kind |-> IF call THEN "call" ELSE "exp", k |-> i],
            !.cc.na = @ + 1, !.cc.tostore = @ + 1]

(* field (lines 790-819). *)
field(S, f, i) ==
  IF f \in {"name=", "[k]="} THEN recfield(S) ELSE listfield(S, i, f = "call")

(* Mutant operator: a plausible fault of lastlistfield. *)
lastlistfield_nodec(S) ==
  IF S.cc.tostore = 0 THEN S
  ELSE IF hasmultret(S.cc.v) THEN setlist(S, S.cc.na, Append(S.regs, <<"multi", S.cc.v.k>>))
  ELSE setlist(S, S.cc.na, IF S.cc.v = VOID THEN S.regs ELSE Append(S.regs, S.cc.v.k))

(* lastlistfield (lines 760-772): the last batch; a trailing call or     *)
(* '...' is stored with all its values (LUA_MULTRET) and not counted.     *)
lastlistfield(S) ==
  IF S.cc.tostore = 0 THEN S
  ELSE IF hasmultret(S.cc.v)
  THEN [setlist(S, S.cc.na, Append(S.regs, <<"multi", S.cc.v.k>>)) EXCEPT !.cc.na = @ - 1]
  ELSE setlist(S, S.cc.na, IF S.cc.v = VOID THEN S.regs ELSE Append(S.regs, S.cc.v.k))

(* One iteration of constructor's loop (lines 840-852). *)
Field ==
  /\ ~done /\ k <= Len(fields)
  /\ Store(field(closelistfield(St), fields[k], k))
  /\ k' = k + 1
  /\ UNCHANGED <<fields, newtable, done>>

(* The '}' (lines 853-857): lastlistfield, then na and nh are patched    *)
(* into OP_NEWTABLE (luaO_int2fb's rounding is left out).                 *)
Close ==
  /\ ~done /\ k > Len(fields)
  /\ LET S == lastlistfield(St) IN
     Store(S) /\ newtable' = [b |-> S.cc.na, c |-> S.cc.nh]
  /\ done' = TRUE
  /\ UNCHANGED <<fields, k>>

Finished == done /\ UNCHANGED vars

(* constructor (lines 822-839): OP_NEWTABLE at the stack top, counts 0. *)
Init ==
  /\ fields \in UNION {[1 .. n -> FieldKinds] : n \in 0 .. MaxFields}
  /\ k = 1
  /\ cc = [v |-> VOID, na |-> 0, nh |-> 0, tostore |-> 0]
  /\ regs = <<>> /\ array = <<>> /\ clobbered = FALSE
  /\ newtable = [b |-> 0, c |-> 0]
  /\ done = FALSE

Next == Field \/ Close \/ Finished

Spec == Init /\ [][Next]_vars
(***************************************************************************)
(* Properties.                                                             *)
(***************************************************************************)

ListKinds == {"exp", "name", "call"}

(* The field indices of the list items, in order. *)
ListItems == SetToSortSeq({i \in DOMAIN fields : fields[i] \in ListKinds}, <)

(* The constructor ends in a call or '...' whose values all go in. *)
Trailing == Len(fields) > 0 /\ fields[Len(fields)] = "call"

(* When the '}' has been handled, the batches closelistfield and         *)
(* lastlistfield flushed with OP_SETLIST have put the list items in slots *)
(* 1, 2, ... in source order, no slot written twice and no register left *)
(* pending; only a call that is the very last field keeps all its values. *)
(* OP_NEWTABLE's size hints count the list items, a trailing multi-value *)
(* one not included (spec.md: {1, 2, f()} has a known array size of 2), *)
(* and the record fields.                                                  *)
ArrayAsListed ==
  done =>
    LET L == ListItems IN
    /\ ~clobbered /\ regs = <<>>
    /\ array = [j \in 1 .. Len(L) |->
                  IF j = Len(L) /\ Trailing THEN <<"multi", L[j]>> ELSE L[j]]
    /\ newtable.b = Len(L) - (IF Trailing THEN 1 ELSE 0)
    /\ newtable.c = Len(fields) - Len(L)

(* Between fields, the items not yet written by OP_SETLIST (in registers *)
(* or pending in cc.v) are exactly cc.tostore, and closelistfield keeps    *)
(* them at most LFIELDS_PER_FLUSH: the registers a constructor holds above *)
(* the table are bounded whatever the number of items.                     *)
PendingBounded ==
  ~done =>
    /\ Len(regs) + (IF cc.v = VOID THEN 0 ELSE 1) = cc.tostore
    /\ cc.tostore <= LFIELDS_PER_FLUSH
====
