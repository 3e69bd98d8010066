----------------------------- MODULE FdeventPoll -----------------------------
(***************************************************************************)
(* The poll(2) backend of lighttpd's event loop                            *)
(* (src/lighttpd-1.4.61/src/fdevent_poll.c).                               *)
(*                                                                         *)
(* ev->pollfds is an array of 'size' struct pollfd of which the first      *)
(* 'used' are in use; a slot given up by event_del gets fd = -1 and its    *)
(* index is pushed on the stack ev->unused, from which event_set takes     *)
(* slots before it grows the array.  Each fdnode remembers its slot in    *)
(* fde_ndx.  fdevent_poll_poll calls poll() and then walks the array,      *)
(* calling the handler of every slot with revents # 0; a handler may set  *)
(* or delete any fd, its own included, while the walk is in progress.      *)
(*                                                                         *)
(* The caller of event_set/event_del (fdevent.c, not in the repository)   *)
(* calls event_del only for an fdnode with fde_ndx # -1 and resets fde_ndx *)
(* to -1 when event_del succeeds; the actions include that reset.          *)
(*                                                                         *)
(* Event bits are abstracted to the names in Events; HUP stands for the    *)
(* conditions poll() reports whatever was asked for.  realloc either       *)
(* moves the array or grows it in place: gen counts the moves, and the    *)
(* loop's pfds is a copy of the pointer taken before poll() (pgen).        *)
(***************************************************************************)
EXTENDS Integers, Sequences, SequencesExt, FiniteSets

CONSTANTS
  Fds,       \* the descriptors of the fdnodes: a set of naturals (fdarray indices)
  Events,    \* the event bits a caller may ask for
  HUP,       \* a condition poll() reports unasked
  GROW,      \* the growth step of pollfds (16 in the code)
  MaxOps     \* bound: event_set/event_del calls made by one handler

ASSUME /\ Fds \subseteq Nat /\ HUP \notin Events
       /\ GROW \in Nat \ {0} /\ MaxOps \in Nat

FREE == -1            \* pollfds[k].fd of a slot on the unused stack

VARIABLES
  pollfds,   \* ev->pollfds[0 .. size-1] as a sequence of [fd, events, revents]
  used,      \* ev->used
  unused,    \* ev->unused.ptr[0 .. unused.used-1], bottom first
  fde_ndx,   \* fdn->fde_ndx of each fdnode
  gen,       \* number of times realloc moved pollfds
  loop,      \* the activation of fdevent_poll_poll: pc, i, m, n, pgen, ops
  polled,    \* ghost: the slots whose revents poll() reported for the fd now in them
  foreign,   \* ghost: the walk dispatched revents of a slot not in polled
  stale      \* ghost: the walk read pfds after pollfds had been moved

vars == <<pollfds, used, unused, fde_ndx, gen, loop, polled, foreign, stale>>

size == Len(pollfds)

Slot(k) == pollfds[k + 1]                   \* ev->pollfds[k], 0-based

(***************************************************************************)
(* The operations of the backend, as operators on the state they change.  *)
(***************************************************************************)

(* The slot an fdnode claims is still its own (the EINVAL check). *)
event_set_ok(f) ==
  LET k == fde_ndx[f] IN
  k >= 0 => (k < used /\ Slot(k).fd = f)

(* Mutant operators, each a plausible fault of the definition after it. *)
event_set_nogrow(f, ev, moved) ==
  LET k == fde_ndx[f] IN
  IF k >= 0
  THEN /\ event_set_ok(f)
       /\ pollfds' = [pollfds EXCEPT ![k + 1].events = ev]
       /\ UNCHANGED <<used, unused, fde_ndx, gen>>
  ELSE IF unused # <<>>
  THEN LET j == Last(unused) IN
       /\ unused' = Front(unused)
       /\ pollfds' = [pollfds EXCEPT ![j + 1] = [@ EXCEPT !.fd = f, !.events = ev]]
       /\ fde_ndx' = [fde_ndx EXCEPT ![f] = j]
       /\ UNCHANGED <<used, gen>>
  ELSE LET grown == IF size < used
                    THEN pollfds \o [i \in 1 .. GROW |->
                                       [fd |-> FREE, events |-> {}, revents |-> {}]]
                    ELSE pollfds
       IN
       /\ pollfds' = [grown EXCEPT ![used + 1] = [fd |-> f, events |-> ev, revents |-> {}]]
       /\ gen' = IF size = used /\ moved THEN gen + 1 ELSE gen
       /\ used' = used + 1
       /\ fde_ndx' = [fde_ndx EXCEPT ![f] = used]
       /\ UNCHANGED unused

(* fdevent_poll_event_set: the slot of fd is fde_ndx if it has one, else  *)
(* the top of the unused stack, else a new slot at the end, growing the   *)
(* array by GROW (moved says whether realloc returned a new address).     *)
event_set(f, ev, moved) ==
  LET k == fde_ndx[f] IN
  IF k >= 0
  THEN /\ event_set_ok(f)
       /\ pollfds' = [pollfds EXCEPT ![k + 1].events = ev]
       /\ UNCHANGED <<used, unused, fde_ndx, gen>>
  ELSE IF unused # <<>>
  THEN LET j == Last(unused) IN
       /\ unused' = Front(unused)
       /\ pollfds' = [pollfds EXCEPT ![j + 1] = [@ EXCEPT !.fd = f, !.events = ev]]
       /\ fde_ndx' = [fde_ndx EXCEPT ![f] = j]
       /\ UNCHANGED <<used, gen>>
  ELSE LET grown == IF size = used
                    THEN pollfds \o [i \in 1 .. GROW |->
                                       [fd |-> FREE, events |-> {}, revents |-> {}]]
                    ELSE pollfds
       IN
       /\ pollfds' = [grown EXCEPT ![used + 1] = [fd |-> f, events |-> ev, revents |-> {}]]
       /\ gen' = IF size = used /\ moved THEN gen + 1 ELSE gen
       /\ used' = used + 1
       /\ fde_ndx' = [fde_ndx EXCEPT ![f] = used]
       /\ UNCHANGED unused

(* fdevent_poll_event_del, and the caller's reset of fde_ndx.  The growth *)
(* of ev->unused is a realloc nobody holds a pointer into.               *)
event_del_leak(f) ==
  LET k == fde_ndx[f] IN
  /\ k # -1
  /\ k < used /\ Slot(k).fd = f
  /\ pollfds' = [pollfds EXCEPT ![k + 1].fd = FREE]
  /\ UNCHANGED unused
  /\ fde_ndx' = [fde_ndx EXCEPT ![f] = -1]
  /\ UNCHANGED <<used, gen>>

event_del(f) ==
  LET k == fde_ndx[f] IN
  /\ k # -1
  /\ k < used /\ Slot(k).fd = f
  /\ pollfds' = [pollfds EXCEPT ![k + 1].fd = FREE]
  /\ unused' = Append(unused, k)
  /\ fde_ndx' = [fde_ndx EXCEPT ![f] = -1]
  /\ UNCHANGED <<used, gen>>

(***************************************************************************)
(* Actions.  Calls of event_set/event_del come from the rest of the       *)
(* server between polls, or from a handler the walk is running.           *)
(***************************************************************************)
CanCall == loop.pc = "idle" \/ (loop.pc = "handler" /\ loop.ops < MaxOps)

Counted == IF loop.pc = "handler" THEN [loop EXCEPT !.ops = @ + 1] ELSE loop

EventSet(f, ev, moved) ==
  /\ CanCall
  /\ event_set(f, ev, moved)
  /\ loop' = Counted
  /\ UNCHANGED <<polled, foreign, stale>>

EventDel(f) ==
  /\ CanCall
  /\ event_del(f)
  /\ loop' = Counted
  /\ polled' = polled \ {fde_ndx[f]}
  /\ UNCHANGED <<gen, foreign, stale>>

(* fdevent_poll_poll up to the walk: poll() sets the revents of every slot *)
(* in use (0 for fd = -1) and returns their number, or -1 on error.        *)
Poll ==
  /\ loop.pc = "idle"
  /\ \E rv \in [0 .. used - 1 -> SUBSET (Events \cup {HUP})], failed \in BOOLEAN :
       LET r(k) == IF Slot(k).fd = FREE THEN {}
                   ELSE rv[k] \cap (Slot(k).events \cup {HUP})
           newfds == [j \in 1 .. size |->
                        IF j <= used THEN [pollfds[j] EXCEPT !.revents = r(j - 1)]
                        ELSE pollfds[j]]
       IN  IF failed
           THEN /\ loop' = [pc |-> "loop", i |-> 0, m |-> 0, n |-> -1,
                            pgen |-> gen, ops |-> 0]
                /\ UNCHANGED <<pollfds, polled>>
           ELSE /\ pollfds' = newfds
                /\ loop' = [pc |-> "loop", i |-> 0, m |-> 0, pgen |-> gen, ops |-> 0,
                            n |-> Cardinality({k \in 0 .. used - 1 : r(k) # {}})]
                /\ polled' = {k \in 0 .. used - 1 : r(k) # {}}
  /\ UNCHANGED <<used, unused, fde_ndx, gen, foreign, stale>>

(* One iteration of the walk 'for (i = 0, m = 0; m < n; ++i)' through     *)
(* pfds: skip a slot with revents = 0, else look up fdarray[pfds[i].fd]   *)
(* and call its handler.  fdarray[-1] is outside the array: which of the  *)
(* outcomes the build produces is undefined; the model takes the one in   *)
(* which the word read there looks tagged (& 0x3) and no handler runs.     *)
Dispatch_noinc ==
  /\ loop.pc = "loop" /\ loop.m < loop.n
  /\ stale' = (stale \/ loop.pgen # gen)
  /\ LET s == Slot(loop.i) IN
     IF s.revents = {}
     THEN UNCHANGED <<loop>>
     ELSE IF s.fd = FREE
     THEN loop' = [loop EXCEPT !.i = @ + 1, !.m = @ + 1]
     ELSE loop' = [loop EXCEPT !.pc = "handler", !.ops = 0]
  /\ foreign' = (foreign \/ (Slot(loop.i).revents # {} /\ loop.i \notin polled))
  /\ UNCHANGED <<pollfds, used, unused, fde_ndx, gen, polled>>

Dispatch ==
  /\ loop.pc = "loop" /\ loop.m < loop.n
  /\ stale' = (stale \/ loop.pgen # gen)
  /\ LET s == Slot(loop.i) IN
     IF s.revents = {}
     THEN loop' = [loop EXCEPT !.i = @ + 1]
     ELSE IF s.fd = FREE
     THEN loop' = [loop EXCEPT !.i = @ + 1, !.m = @ + 1]
     ELSE loop' = [loop EXCEPT !.pc = "handler", !.ops = 0]
  /\ foreign' = (foreign \/ (Slot(loop.i).revents # {} /\ loop.i \notin polled))
  /\ UNCHANGED <<pollfds, used, unused, fde_ndx, gen, polled>>

(* The handler returns: ++m, ++i. *)
HandlerReturn ==
  /\ loop.pc = "handler"
  /\ loop' = [loop EXCEPT !.pc = "loop", !.i = @ + 1, !.m = @ + 1]
  /\ UNCHANGED <<pollfds, used, unused, fde_ndx, gen, polled, foreign, stale>>

(* m >= n: fdevent_poll_poll returns n. *)
PollReturn ==
  /\ loop.pc = "loop" /\ loop.m >= loop.n
  /\ loop' = [loop EXCEPT !.pc = "idle"]
  /\ UNCHANGED <<pollfds, used, unused, fde_ndx, gen, polled, foreign, stale>>

(* fdevent_poll_init, with the fdevents fields zeroed by its caller. *)
Init ==
  /\ pollfds = <<>> /\ used = 0 /\ unused = <<>>
  /\ fde_ndx = [f \in Fds |-> -1]
  /\ gen = 0
  /\ loop = [pc |-> "idle", i |-> 0, m |-> 0, n |-> 0, pgen |-> 0, ops |-> 0]
  /\ polled = {} /\ foreign = FALSE /\ stale = FALSE

Next ==
  \/ \E f \in Fds, ev \in SUBSET Events \ {{}}, moved \in BOOLEAN : EventSet(f, ev, moved)
  \/ \E f \in Fds : EventDel(f)
  \/ Poll \/ Dispatch \/ HandlerReturn \/ PollReturn

(* The walk is straight-line code of one thread: once it runs it keeps   *)
(* running, and every handler returns.                                    *)
Fairness == WF_vars(Dispatch) /\ WF_vars(HandlerReturn) /\ WF_vars(PollReturn)

Spec == Init /\ [][Next]_vars /\ Fairness
(***************************************************************************)
(* Properties.                                                             *)
(***************************************************************************)
PollFd == [fd : Fds \cup {FREE}, events : SUBSET Events,
           revents : SUBSET (Events \cup {HUP})]

TypeOK ==
  /\ pollfds \in Seq(PollFd) /\ used \in 0 .. size
  /\ unused \in Seq(0 .. used - 1)
  /\ fde_ndx \in [Fds -> -1 .. size - 1]
  /\ loop.pc \in {"idle", "loop", "handler"} /\ loop.ops \in 0 .. MaxOps
  /\ polled \subseteq 0 .. used - 1 /\ foreign \in BOOLEAN /\ stale \in BOOLEAN

(* The slot table and the unused stack agree: every fdnode with a slot    *)
(* owns it, every in-use slot belongs to the fdnode that points at it,    *)
(* and the unused stack holds each freed slot exactly once, so event_set  *)
(* can never hand out a slot twice nor lose one, however set and del      *)
(* calls from handlers and from the main loop interleave.                 *)
SlotTableConsistent ==
  /\ \A f \in Fds : fde_ndx[f] # -1 => fde_ndx[f] < used /\ Slot(fde_ndx[f]).fd = f
  /\ \A k \in 0 .. used - 1 :
       /\ Slot(k).fd = FREE <=> k \in Range(unused)
       /\ Slot(k).fd # FREE => fde_ndx[Slot(k).fd] = k
  /\ IsInjective(unused)

(* Every walk of fdevent_poll_poll over the revents returns to the event   *)
(* loop: m reaches n although handlers add and remove slots meanwhile.    *)
WalkCompletes == loop.pc # "idle" ~> loop.pc = "idle"

(* The walk dispatches only the revents poll() reported for the fd now in *)
(* the slot: a slot a handler freed is not looked up (fdarray[-1]), and a *)
(* freed slot that event_set gave to another fd during the walk does not  *)
(* hand that fd the events of the one it replaced.                        *)
DispatchMatchesPoll == ~foreign

(* The walk only reads the pollfds array the kernel filled: pfds is never *)
(* used after event_set has reallocated ev->pollfds.                      *)
NoStalePfds == ~stale
====
