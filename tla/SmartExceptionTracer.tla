------------------------- MODULE SmartExceptionTracer -------------------------
(***************************************************************************)
(* folly's SmartExceptionTracer                                            *)
(* (src/folly-2021.11.15/folly/experimental/exception_tracer/              *)
(*  SmartExceptionTracer.cpp): a global map from the address of a thrown  *)
(* object to an ExceptionMeta holding its stack traces and its original    *)
(* deleter.  throwCallback runs inside __cxa_throw: it builds the meta,   *)
(* swaps the object's deleter for metaDeleter, and inserts the meta in the *)
(* map.  metaDeleter runs when the last reference to the object is        *)
(* dropped: it removes the meta from the map, then calls the original      *)
(* deleter under the meta's write lock.  getTraceWithFunc reads a meta     *)
(* under the map's read lock and then the meta's read lock.               *)
(*                                                                         *)
(* Each withWLock/withRLock lambda is one step: nothing in it waits except *)
(* the meta rlock taken inside the map rlock (line 137), which is the      *)
(* step's guard.  Exception objects, their reference counts and their     *)
(* memory are libstdc++'s: a thread holding a reference may pass a copy   *)
(* to an idle thread (exception_ptr), the last one to drop it runs the    *)
(* deleter, and the memory is freed when the deleter returns, after which *)
(* a new exception may be allocated at the same address.  Allocations     *)
(* that may throw bad_alloc are those named in FailSites.                 *)
(***************************************************************************)
EXTENDS Integers, FiniteSets

CONSTANTS
  Threads,    \* the threads of the process
  Addrs,      \* addresses where libstdc++ may allocate a thrown object
  MaxThrows,  \* bound: exceptions thrown in a behaviour (their ids)
  FailSites   \* the allocations that may throw bad_alloc

ASSUME /\ MaxThrows \in Nat \ {0}
       /\ FailSites \subseteq {"make_unique", "insert"}

Ids == 1 .. MaxThrows

VARIABLES
  obj,       \* obj[a]: the thrown object at a (id 0: free) and its deleter field
  map,       \* getMetaMap(): map[a] is the id of the meta stored for a, 0: none
  meta,      \* meta[i]: the ExceptionMeta made for throw i
  th,        \* th[t]: what thread t is doing (pc), the address and meta it uses
  nthrown,   \* exceptions thrown so far
  hadDtor,   \* ghost: throw i's object has a destructor
  dtorRuns,  \* ghost: times the destructor of throw i's object ran
  freed      \* ghost: the throws whose object memory was released

vars == <<obj, map, meta, th, nthrown, hadDtor, dtorRuns, freed>>

Holding(t, a) == th[t].pc \in {"hold", "read"} /\ th[t].a = a

(***************************************************************************)
(* throwCallback (lines 72-110), called by __cxa_throw on thread t for    *)
(* the object just allocated at a.                                         *)
(***************************************************************************)
Throw(t, a, hasDtor) ==
  /\ th[t].pc = "idle" /\ obj[a].id = 0 /\ nthrown < MaxThrows
  /\ obj' = [obj EXCEPT ![a] = [id |-> nthrown + 1,
                                deleter |-> IF hasDtor THEN "dtor" ELSE "null"]]
  /\ th' = [th EXCEPT ![t] = [pc |-> "cb", a |-> a, m |-> 0]]
  /\ nthrown' = nthrown + 1
  /\ hadDtor' = [hadDtor EXCEPT ![nthrown + 1] = hasDtor]
  /\ UNCHANGED <<map, meta, dtorRuns, freed>>

(* make_unique<SynchronizedExceptionMeta>() and the lambda under its own  *)
(* wlock: the meta takes the old deleter, the object gets metaDeleter.    *)
(* If make_unique throws bad_alloc, the nested throwCallback returns at   *)
(* once (handlingThrow) and the catch ends the callback.                  *)
CbNewMeta(t, fail) ==
  /\ th[t].pc = "cb"
  /\ fail => "make_unique" \in FailSites
  /\ LET a == th[t].a  i == obj[a].id IN
     IF fail
     THEN /\ th' = [th EXCEPT ![t].pc = "hold"]
          /\ UNCHANGED <<obj, meta>>
     ELSE /\ meta' = [meta EXCEPT ![i] = [st |-> "alive", deleter |-> obj[a].deleter,
                                          readers |-> 0]]
          /\ obj' = [obj EXCEPT ![a].deleter = "metaDeleter"]
          /\ th' = [th EXCEPT ![t].pc = "cb_insert", ![t].m = i]
  /\ UNCHANGED <<map, nthrown, hadDtor, dtorRuns, freed>>

(* std::exchange(wlock[ex], std::move(newMeta)) under the map's wlock.    *)
(* If wlock[ex] throws bad_alloc, newMeta is destroyed by the catch; the *)
(* object keeps metaDeleter.  A meta already stored for ex (the DCHECK)   *)
(* is destroyed with oldMeta at the end of the callback.                  *)
CbInsert(t, fail) ==
  /\ th[t].pc = "cb_insert"
  /\ fail => "insert" \in FailSites
  /\ LET a == th[t].a  i == th[t].m  old == map[a] IN
     IF fail
     THEN /\ meta' = [meta EXCEPT ![i].st = "dead"]
          /\ UNCHANGED map
     ELSE /\ map' = [map EXCEPT ![a] = i]
          /\ meta' = IF old = 0 THEN meta ELSE [meta EXCEPT ![old].st = "dead"]
  /\ th' = [th EXCEPT ![t].pc = "hold", ![t].m = 0]
  /\ UNCHANGED <<obj, nthrown, hadDtor, dtorRuns, freed>>

(***************************************************************************)
(* References: handing an exception_ptr to another thread, and dropping   *)
(* one.  The last reference runs the object's deleter field.              *)
(***************************************************************************)
Share(t, u) ==
  /\ th[t].pc = "hold" /\ th[u].pc = "idle"
  /\ th' = [th EXCEPT ![u] = [pc |-> "hold", a |-> th[t].a, m |-> 0]]
  /\ UNCHANGED <<obj, map, meta, nthrown, hadDtor, dtorRuns, freed>>

(* The original deleter, called by libstdc++ or by metaDeleter; then the *)
(* object's memory is released.                                            *)
Destroy(a, deleter) ==
  /\ dtorRuns' = [dtorRuns EXCEPT ![obj[a].id] = @ + (IF deleter = "dtor" THEN 1 ELSE 0)]
  /\ freed' = freed \cup {obj[a].id}
  /\ obj' = [obj EXCEPT ![a] = [id |-> 0, deleter |-> "null"]]

Release(t) ==
  /\ th[t].pc = "hold"
  /\ LET a == th[t].a IN
     IF \E u \in Threads \ {t} : Holding(u, a)
     THEN th' = [th EXCEPT ![t] = [pc |-> "idle", a |-> a, m |-> 0]]
          /\ UNCHANGED <<obj, dtorRuns, freed>>
     ELSE IF obj[a].deleter = "metaDeleter"
     THEN th' = [th EXCEPT ![t].pc = "md_find"] /\ UNCHANGED <<obj, dtorRuns, freed>>
     ELSE th' = [th EXCEPT ![t].pc = "idle"] /\ Destroy(a, obj[a].deleter)
  /\ UNCHANGED <<map, meta, nthrown, hadDtor>>

(***************************************************************************)
(* metaDeleter (lines 54-67).                                              *)
(***************************************************************************)

(* Mutant operator: a plausible fault of MdFind. *)
MdFind_noerase(t) ==
  /\ th[t].pc = "md_find"
  /\ LET a == th[t].a IN
     IF map[a] = 0 THEN th' = [th EXCEPT ![t].pc = "ub"]
     ELSE th' = [th EXCEPT ![t].pc = "md_lock", ![t].m = map[a]]
  /\ UNCHANGED <<obj, map, meta, nthrown, hadDtor, dtorRuns, freed>>

(* Under the map's wlock: find, move the unique_ptr out, erase.  The find *)
(* is not checked: with no entry, iter->second dereferences end().        *)
MdFind(t) ==
  /\ th[t].pc = "md_find"
  /\ LET a == th[t].a IN
     IF map[a] = 0
     THEN th' = [th EXCEPT ![t].pc = "ub"] /\ UNCHANGED map
     ELSE /\ th' = [th EXCEPT ![t].pc = "md_lock", ![t].m = map[a]]
          /\ map' = [map EXCEPT ![a] = 0]
  /\ UNCHANGED <<obj, meta, nthrown, hadDtor, dtorRuns, freed>>

(* Mutant operator: a plausible fault of MdLock. *)
MdLock_nodeleter(t) ==
  /\ th[t].pc = "md_lock" /\ meta[th[t].m].readers = 0
  /\ meta' = [meta EXCEPT ![th[t].m].st = "dead"]
  /\ th' = [th EXCEPT ![t] = [pc |-> "idle", a |-> th[t].a, m |-> 0]]
  /\ Destroy(th[t].a, "null")
  /\ UNCHANGED <<map, nthrown, hadDtor>>

(* syncMeta->wlock() waits for every reader; then the original deleter is *)
(* called if there is one, and the meta is destroyed on return.           *)
MdLock(t) ==
  /\ th[t].pc = "md_lock" /\ meta[th[t].m].readers = 0
  /\ meta' = [meta EXCEPT ![th[t].m].st = "dead"]
  /\ th' = [th EXCEPT ![t] = [pc |-> "idle", a |-> th[t].a, m |-> 0]]
  /\ Destroy(th[t].a, meta[th[t].m].deleter)
  /\ UNCHANGED <<map, nthrown, hadDtor>>

(***************************************************************************)
(* getTraceWithFunc (lines 122-147) on an object the thread holds.        *)
(***************************************************************************)

(* Under the map's rlock: get_ptr; if found, take the meta's rlock before *)
(* the map's rlock is released.  When there is no entry the empty         *)
(* ExceptionInfo is returned and nothing changes.                         *)
ReadLookup(t) ==
  /\ th[t].pc = "hold" /\ map[th[t].a] # 0
  /\ LET i == map[th[t].a] IN
     /\ meta' = [meta EXCEPT ![i].readers = @ + 1]
     /\ th' = [th EXCEPT ![t].pc = "read", ![t].m = i]
  /\ UNCHANGED <<obj, map, nthrown, hadDtor, dtorRuns, freed>>

(* The frames are copied and the RLockedPtr is released on return. *)
ReadDone(t) ==
  /\ th[t].pc = "read"
  /\ meta' = [meta EXCEPT ![th[t].m].readers = @ - 1]
  /\ th' = [th EXCEPT ![t].pc = "hold", ![t].m = 0]
  /\ UNCHANGED <<obj, map, nthrown, hadDtor, dtorRuns, freed>>

(* Every thrown exception has been destroyed and every thread is idle. *)
Terminated ==
  /\ nthrown = MaxThrows /\ \A t \in Threads : th[t].pc = "idle"
  /\ UNCHANGED vars

Init ==
  /\ obj = [a \in Addrs |-> [id |-> 0, deleter |-> "null"]]
  /\ map = [a \in Addrs |-> 0]
  /\ meta = [i \in Ids |-> [st |-> "none", deleter |-> "null", readers |-> 0]]
  /\ th = [t \in Threads |-> [pc |-> "idle", a |-> CHOOSE a \in Addrs : TRUE, m |-> 0]]
  /\ nthrown = 0
  /\ hadDtor = [i \in Ids |-> FALSE]
  /\ dtorRuns = [i \in Ids |-> 0]
  /\ freed = {}

Next ==
  \/ \E t \in Threads, a \in Addrs, d \in BOOLEAN : Throw(t, a, d)
  \/ \E t \in Threads, fail \in BOOLEAN : CbNewMeta(t, fail) \/ CbInsert(t, fail)
  \/ \E t, u \in Threads : Share(t, u)
  \/ \E t \in Threads : Release(t) \/ MdFind(t) \/ MdLock(t)
                        \/ ReadLookup(t) \/ ReadDone(t)
  \/ Terminated

(* Code a thread has entered runs on: the callback, the deleter and the   *)
(* end of a read.  Throwing, sharing, reading and releasing are the       *)
(* program's choice and get no fairness.                                  *)
Fairness ==
  \A t \in Threads :
    /\ WF_vars(\E fail \in BOOLEAN : CbNewMeta(t, fail))
    /\ WF_vars(\E fail \in BOOLEAN : CbInsert(t, fail))
    /\ WF_vars(MdFind(t)) /\ WF_vars(MdLock(t)) /\ WF_vars(ReadDone(t))

Spec == Init /\ [][Next]_vars /\ Fairness

(***************************************************************************)
(* Properties.                                                             *)
(***************************************************************************)

(* The map and the objects agree, across threads and address reuse: an   *)
(* object whose deleter throwCallback swapped for metaDeleter has, from   *)
(* the end of the callback until metaDeleter erases it, its own live meta *)
(* in the map, and every map                                               *)
(* entry is the live meta of the object now at that address, never one    *)
(* left by an earlier exception there (the DCHECK at line 106).           *)
MetaMapConsistent ==
  \A a \in Addrs :
    /\ (/\ obj[a].deleter = "metaDeleter"
        /\ ~\E t \in Threads : th[t].pc \in {"cb_insert", "md_lock"} /\ th[t].a = a)
         => map[a] # 0
    /\ map[a] # 0 => map[a] = obj[a].id /\ meta[map[a]].st = "alive"

(* The object's own destructor runs at most once, and exactly once by the *)
(* time its memory is released, whether libstdc++ or metaDeleter calls it. *)
DestructorOnce ==
  \A i \in Ids :
    /\ dtorRuns[i] <= IF hadDtor[i] THEN 1 ELSE 0
    /\ i \in freed => dtorRuns[i] = IF hadDtor[i] THEN 1 ELSE 0

(* metaDeleter finds the entry it dereferences (lines 56-57). *)
MetaDeleterFindsEntry == \A t \in Threads : th[t].pc # "ub"

====
