# TLA+ models of halcyon-bit/Librarys

The repository collects annotated sources of several C/C++ libraries. They
do not call one another, so each is a separate system:

| part | source | what it does |
|------|--------|--------------|
| Lua 5.3.6 parser | `src/lua-5/5.3.6/src/lparser.c` | one-pass recursive-descent compiler from tokens to function prototypes |
| Lua standalone interpreter | `src/lua-5/5.3.6/src/backup/lua.c` | argument handling, REPL, SIGINT handling around `lua_pcall` |
| lighttpd poll backend | `src/lighttpd-1.4.61/src/fdevent_poll.c` | `pollfd` slot table with a stack of free slots, and the dispatch loop |
| lighttpd SSI expressions | `src/lighttpd-1.4.61/src/mod_ssi_expr.c` | tokenizer and evaluator for `<!--#if expr=... -->` |
| lighttpd key/value rewriting | `src/lighttpd-1.4.61/src/keyvalue.c` | pcre match-and-substitute, URL normalisation |
| intrusive lists | `src/workflow-windows/src/kernel_win/list.h` | Linux-style doubly and singly linked lists |
| folly SmartExceptionTracer | `src/folly-2021.11.15/.../SmartExceptionTracer.cpp` | stack traces kept in a global map keyed by thrown object |

Modules: `LParser` (parser scopes, gotos and upvalues), `LuaExpr` (operator
precedence and the C-level limit), `LuaConstructor` (table constructors),
`LuaAssign` (multiple assignment),
`FdeventPoll`,
`AbstractList` with `KList` and `KSList` (list.h, with a refinement),
`SmartExceptionTracer` (threads sharing a meta map), `LuaMain` (the
command line of `lua.c`), `LuaSignal` (Ctrl-C in its REPL), `SsiExpr`
(the SSI expression tokenizer) and `KeyValue` (rewrite rules and URL
normalisation of `keyvalue.c`). Each has an
`MC_` module, or shares one, that gives values to its constants. `PROJECT.json` lists every component with its
status, and every hazard found in the code at the line where it occurs.

## The Lua parser: state, operations, interaction

The parser keeps the following state:

* **FuncState stack** (`ls->fs`, linked through `prev`). There is one FuncState
  per function body being compiled. Each has `firstlocal`, `nactvar`, its
  upvalue descriptors (`f->upvalues`, `nups`) and its BlockCnt chain.
* **BlockCnt chain** (`fs->bl`). There is one BlockCnt per open block. Each
  records `nactvar` at entry, `firstlabel`, `firstgoto`, `isloop`, and
  `upval` (a local of this block is captured by a closure).
* **Dyndata** (`ls->dyd`). It holds three stacks shared by all open functions:
  * `actvar`, the declared locals;
  * `gt`, pending gotos (name, pc, `nactvar` at the goto);
  * `label`, the active labels.

The grammar functions interact as follows:

* **Statements** (`statement`, `statlist`) call `enterblock`/`leaveblock`,
  `new_localvar`/`adjustlocalvars`, `singlevar` (for every name in an
  expression), `gotostat`, `labelstat`, and `body` (which runs
  `open_func` … `close_func` for a nested function).
* **Name resolution.** `singlevar` → `singlevaraux` searches the locals of each
  enclosing function, then its upvalues. It recurses into `fs->prev`, and on
  the way back it creates an upvalue descriptor in every intermediate
  function (`newupvalue`). When a local of an outer function is captured,
  `markupval` flags the block that declared it.
* **Goto/label resolution** is spread over four moments:
  * at the goto, `findlabel` looks at the labels of the current block;
  * at a label, `findgotos` looks at the pending gotos of the current block;
  * when a block closes, `movegotosout` lowers each pending goto's `nactvar`
    to the block's level and retries `findlabel` in the enclosing block;
  * in loops, `breaklabel` adds the implicit label `break`.

  A goto whose `nactvar` is below its label's is a jump into the scope of a
  local (`closegoto` error). A goto still pending when the function's
  outermost block closes raises `undefgoto`. A label that is the last
  statement of its block counts the block's locals as already out of scope,
  except before `until` (`labelstat`, `block_follow(ls, 0)`).

The behaviours that are hard to test:

* **The order of resolution events.** The same goto is checked at different
  times depending on whether its label comes before it, after it in the same
  block, or after it in an enclosing block.
* **The `until` exception.** The condition of `until` sees the locals of the
  loop body.
* **Upvalue chains across several functions.**
* **Limits hit in the middle of a statement.** These are `MAXVARS` and
  `MAXUPVAL`, and the parse is abandoned by `longjmp`.

The parser is single-threaded and persists nothing. It has no concurrency,
message loss or crash recovery, and these are not modelled.

These properties make it correct:

* **Goto soundness.** Every goto is patched to the label of its name in the
  innermost enclosing block that has one, and never into a local's scope.
  Every goto error the parser reports is one the Lua manual prescribes.
* **Goto completeness.** A successful parse leaves no goto pending, and each
  goto is resolved exactly once (`luaY_parser` asserts `dyd->gt.n == 0`).
* **Upvalue correctness.** Every upvalue of a nested function, followed
  through its chain, denotes the innermost visible declaration of its name.
* **Upvalue uniqueness.** There is at most one descriptor per name.
* **Capture marking.** The block that owns a captured local is flagged, so
  that leaving it closes the upvalue.
* **Limits.** There are never more than MAXVARS locals or MAXUPVAL upvalues.

## Modules

### `LParser.tla`: scope analysis of `lparser.c`

**State.** The parser's state is one record `P == [fs, dyd, err, hist]`:

* `fs` is the FuncState stack; `Last(fs)` is `ls->fs`.
* Each frame holds `firstlocal`, `nactvar`, `ups` (the upvalue descriptors:
  name, `instack`, `idx`) and `bl` (the BlockCnt chain; `Last(bl)` is
  `fs->bl`).
* `dyd` has `actvar`, `gt` and `label` as sequences.
* `err` is the syntax error the parse stopped with.

**Operators.** Each C function is an operator `P -> P` under its own name:

* `new_localvar`, `adjustlocalvars`, `removevars`;
* `searchvar`, `searchupvalue`, `newupvalue`, `markupval`, `singlevaraux`
  (RECURSIVE, returning the `expdesc` kind and index), `singlevar`;
* `enterblock`, `leaveblock`, `closegoto`, `findlabel`, `findgotos`,
  `movegotosout`, `breaklabel`, `undefgoto`;
* `luaK_patchclose`, the one `lcode.c` call the model keeps. It is
  spec-modelled, and sets a pending goto's `close` level: its jump closes
  the upvalues of registers from that level up. `findlabel` and
  `movegotosout` call it where the C code does. `condexit` is the same
  patch on `repeatstat`'s backward jump;
* `open_func`, `close_func`, `parlist`, `body`;
* `gotostat`, `checkrepeated`, `labelstat`, `test_then_block`.

**Actions.** An action is one statement or one closing token. It composes the
handler's calls in the order the C code makes them. For example, `ForStat`
does: outer loop block, three control variables, the loop variable, the
expressions, `adjustlocalvars(3)`, the scope block, `adjustlocalvars(1)`,
then the body block. An error makes `Commit` keep the old `fs`/`dyd`, which
models the `longjmp` out of the parse.

The token stream is the environment. In any state, every statement the
grammar allows may come next, with its names drawn from the constants `Names`
and `LabelNames`:

* `ctl` records the compound statements the descent is inside;
* `lookahead` records what the token after a label or a goto forces: a
  statement, or a closing token;
* `stmts` bounds the program length.

Init is the state `mainfunc` reaches before its statement list. There is one
frame, with the `_ENV` upvalue, and one block.

**Ghost history.** `hist` records:

* a unique id for each local and block;
* each goto's block path and the locals in scope at it;
* each label's block and the locals in scope at it, taken from the language
  definition, not from `nactvar`;
* the resolved (goto, label) pairs and the captured locals;
* `jumps`: for each patched goto and each `until` exit, the locals in
  registers at the jump, those still in registers where it lands, and its
  close level.

The properties compare the parser's decisions with this reference. `Target`,
`Visible` and `Denote` are the reference definitions of "the label a goto
means", "the declaration a name means" and "what an upvalue chain reaches".

**Abstraction.**

* Expressions are reduced to the one variable they reference.
* Local and assignment lists are reduced to one name.
* Code emission (pcs, registers, jump lists; `lcode.c` is not in the
  repository) is left out, because scope decisions do not depend on it.
  The exception is the close level that `luaK_patchclose` gives a jump.
* A label is always followed by a statement or a closing token. Runs of
  consecutive labels, the `skipnoopstat` recursion, are not generated.

`MC_LParser.tla` gives the model values and the restricted input sets.

## Runs

### `scopes` (`MC_LParserScopes.cfg`)

`MC_LParserScopes` extends `MC_LParser` and instantiates `LParser` twice
more: as `Tight`, with MAXVARS 2 and MAXUPVAL 1, and as `Goto`, with one
variable name and one label name. A ghost `part`, chosen in the initial
state and never changed, says which of the three parses. The checked state
space is the sum of the three, not their product. The cfg overrides `Refs`
with `PartRefs`, which is `{NoName}` in part `goto` and all names otherwise.

* **Properties:** `ScopesTypeOK` (each part's `TypeOK`),
  `UpvaluesDenoteVisible`, `UpvalueUnique`, `CapturedBlocksMarked`.
* **Bounds, part `upval`:** two names `x, y` (symmetric), three nested
  functions, depth 3, 4 statements, MAXVARS 3, MAXUPVAL 2. This allows a
  name to be captured through an intermediate function, shadowed, referenced
  twice, or resolved to a global through `_ENV`.
* **Bounds, part `limits`:** MAXVARS 2 and MAXUPVAL 1, so that both
  `checklimit`s fire within a few statements. Main's only slot is `_ENV`.
  `TypeOK` bounds `nactvar` by MAXVARS and the descriptor count by MAXUPVAL,
  so an off-by-one in either limit check breaks `ScopesTypeOK`.
* **Part `goto`, properties** `GotoSound`, `GotoComplete` and `GotoCloses`:
  `LParser`'s `GotoResolutionSound`, `GotoResolutionComplete` and
  `CapturedLocalsClosed` on this part.
* **`CapturedLocalsClosed`:** every jump that leaves locals behind closes
  the upvalues of exactly the captured ones. That covers a goto or break
  patched by `closegoto`, and the backward jump of repeat-until. The close
  level is at most the register of each captured local left behind, and
  above each local still in a register where the jump lands. A label at the
  end of a block is outside the scope of that block's locals. It still lands
  before `leaveblock`'s own close jump, so those locals count as still in
  their registers. The property covers the three `luaK_patchclose` sites:
  * `findlabel`, for a backward goto, which closes even when the capture
    comes later in the block;
  * `movegotosout`, once per block left that has upvalues;
  * `repeatstat`'s `condexit`.

  Removing any one of the three breaks the property.
* **Bounds, part `goto`:** one label name `L` and one variable `x`, in the
  main chunk and one nested function body (MaxFuncs 2), with up to 4
  statements nested 2 deep and MAXVARS 5. The nested function lets a goto
  stay pending when a function body closes, and lets a label of the
  enclosing function go unseen. Every resolution path is reached: backward
  and forward gotos, gotos moved out of blocks, `break` out of
  while/repeat/for/if-goto, a label before `until` after a local, and all
  four goto errors (scope, undefined, break outside loop, duplicate label).
* **Result:** 1.55 M states in about 55 s (0.52 M of them part `goto`).

No LParser run needs fairness. All its properties are invariants, and parsing always
stops because `stmts` is bounded and every construct is closed by `EndMain`.
`Terminated` is the stutter after the parse has finished or failed. Deadlock
checking stays on.

Each property has a mutant in `PROJECT.json` (an operator placed just before
the definition it alters) that the property catches:

* `new_localvar_offbyone` and `newupvalue_offbyone` break `ScopesTypeOK`;
* `labelstat_withuntil`, which treats `until` like `end`, breaks
  `GotoSound`;
* `leaveblock_noundef` breaks `GotoComplete`;
* `findlabel_noclose`, without `luaK_patchclose`, breaks
  `GotoCloses` with `::L:: local function x() return x end
  goto L`;
* `searchvar_firstdecl`, which takes the oldest declaration, breaks
  `UpvaluesDenoteVisible`;
* `searchupvalue_skiplast` breaks `UpvalueUnique`;
* `markupval_current`, which marks `fs->bl` instead of the declaring block,
  breaks `CapturedBlocksMarked`.

## `LuaExpr.tla`: operator precedence and C levels

`subexpr` (`lparser.c:1195-1222`) is a RECURSIVE operator, and its `while`
loop is the mutually recursive `Expand`. A token is an operator or `"x"`, an
operand that `simpleexp` reads in one step. The result is a tree `"x"`,
`<<uop, t>>` or `<<op, l, r>>`, with the first token not taken. `priority` is
the table at lines 1161-1175, including the asymmetric pairs of `^` (14, 13)
and `..` (9, 8). `enterlevel` is the test `lv + 1 > LUAI_MAXCCALLS` at the
top of `subexpr`. `leavelevel` appears as the caller going on at its own
level. Code generation (`luaK_prefix`, `luaK_infix`, `luaK_posfix`) is reduced
to building the tree.

The state machine is the pattern used for pure algorithms. `Init` picks an
input, and `Parse` runs `expr` on it. The reference is written from the
manual's precedence table, not from the code. It is a stratified grammar
`Strat` (ten binary levels from `or` up to `*`, then unary, then `^`, with
`..` and `^` right associative), plus `Depth`, the C levels a grouping needs.

* `ExprMatchesGrammar`: `expr` accepts exactly the well-formed sequences,
  with no syntax error on any of them, and builds `Strat`'s tree.
* `CLevelsExact`: a well-formed sequence fails with "C levels" exactly when
  `BaseCalls + Depth(tree)` exceeds `LUAI_MAXCCALLS`.

## `LuaConstructor.tla`: table constructors

The model covers `constructor`, `field`, `listfield`, `recfield`,
`closelistfield` and `lastlistfield` (lines 713-858). They are operators on a
record `[cc, regs, array, clobbered]`, composed in the order the code calls
them. `Field` is one loop iteration (`closelistfield` then `field`). `Close`
is the `}`: `lastlistfield`, then the B and C patches of `OP_NEWTABLE`. A
field is its leading tokens: `name=`, `[k]=`, `exp`, `name`, or `call` (a call
or `...`). `luaK_setlist` and `OP_SETLIST` are in `lcode.c` and `lvm.c`,
which are not in the repository. `setlist` models them from the spec: the
pending registers go to the slots from `((na-1) div LFIELDS_PER_FLUSH) *
LFIELDS_PER_FLUSH + 1` on, and the registers are freed. A ghost, `clobbered`,
records a slot written twice.

* `ArrayAsListed`: at the `}`, the list items are in slots 1, 2, … in source
  order, no slot was written twice, and no register is pending. A call that
  is the last field keeps all its values. `OP_NEWTABLE`'s B counts the list
  items without a trailing multi-value one (spec.md: `{1, 2, f()}` has a known
  array size of 2), and C counts the record fields.
* `PendingBounded`: between fields, the items not yet stored are exactly
  `cc.tostore`, and that is at most LFIELDS_PER_FLUSH.

## `LuaAssign.tla`: multiple assignment

The model covers `assignment` and `check_conflict` (lines 1257-1325) for
assignments with as many values as targets. A target is the expdesc the
parser builds: `VLOCAL` (a register), `VUPVAL`, or `VINDEXED` with a table in
a register or an upvalue and a key in a register or a constant. A global name
is `VINDEXED` on upvalue 0 (`_ENV`). `ParseTargets` is the recursion of
`assignment`: for each target after the first that is not indexed,
`check_conflict` rewrites the earlier targets that use it to a copy in
register `extra` (`fs->freereg`), and the copy is reserved. `Store` is the
stores, last target first. `luaK_storevar` is in `lcode.c`, so `Dest` models
what the emitted store does at run time (spec-modelled): it writes register
r, upvalue u, or the table cell given by the current table and key values.

* `AssignMatchesManual`: whenever the targets denote distinct places, memory
  after the emitted code equals the manual's rule (section 3.3.3): every
  table and key is evaluated before any assignment. The only other registers
  written are the copies, above the active locals. The mutant
  `check_conflict_noidx` drops the test on the key register. It breaks the
  property with `a[a], a = x, y`.

### `exprs` (`MC_LParserExprs.cfg`)

`MC_LParserExprs` instantiates all three modules. A ghost `part` picks an
expression, a constructor, or an assignment as the input. The other models
stay in their initial states, so the state space is the sum of the three.

* **Expressions:** up to 6 tokens over `x`, `-`, `~`, `+`, `*`, `^`, `..`,
  `==` and `or`. These are six priority classes, two tokens that are both
  unary and binary, and both right-associative operators.
  `LUAI_MAXCCALLS` 4 with `BaseCalls` 1 lets groupings of depth 3 pass and
  those of depth 4 fail.
* **Constructors:** up to 6 fields of all five forms, with LFIELDS_PER_FLUSH
  2. This gives up to three flushes, record fields between list items, and
  a call that is or is not the last field.
* **Assignments:** 1 to 3 targets over 2 locals (`NACTVAR`) and 2 upvalues
  (`NUPS`), every target kind, with keys in a register or constant. Three
  targets are needed for two copies and for a copy that fixes both the table
  and the key of an earlier target.
* **Result:** 1.36 M states in about 13 s.
* **Mutants:**
  * `Expand_leftprio`, which reads the right operand at the left priority,
    breaks `ExprMatchesGrammar`: `..` and `^` become left associative;
  * `subexpr_noleave`, which has no `leavelevel`, breaks `CLevelsExact`;
  * `lastlistfield_nodec`, which drops `na--`, breaks `ArrayAsListed`;
  * `closelistfield_late`, which flushes on `>` instead of `==`, breaks
    `PendingBounded`;
  * `check_conflict_noidx`, which has no test on the key register, breaks
    `AssignMatchesManual`.

## `FdeventPoll.tla`: lighttpd's poll backend

`fdevent_poll.c` keeps `ev->pollfds` (a sequence of `[fd, events, revents]`
records), `ev->used` and the stack `ev->unused` of slots freed by
`event_del`. Each fdnode records its slot in `fde_ndx`. `event_set` reuses a
slot from the stack before it grows the array by `GROW`. `realloc` may move
the array, which the counter `gen` records. `fdevent_poll_poll` is split into
steps: `Poll` (poll(), which also saves the `pfds` pointer as `pgen`),
`Dispatch` (one slot of the walk), `HandlerReturn` and `PollReturn`.

A handler runs between `Dispatch` and `HandlerReturn`, and it may call
`EventSet`/`EventDel` up to `MaxOps` times. This is the interleaving that
matters: the walk reads the table while the handlers change it. The
`fde_ndx = -1` reset after `event_del` belongs to `fdevent.c`, which is not in
the repository, and is stated as an assumption.

Fairness is weak fairness on `Dispatch`, `HandlerReturn` and `PollReturn`.
Once the code has entered the walk it keeps running it. Whether fds are set
or deleted, and when poll() returns, is left to the environment.

## `AbstractList.tla`, `KList.tla`, `KSList.tla`: `list.h`

`AbstractList` is the promise of the header's comments, without pointers:
each usable head holds a sequence of distinct entries, and an entry is in at
most one list. `Add`/`AddTail` insert after or before an anchor, `Del`
removes, `Move`/`MoveTail` do both, `Splice` moves a whole list next to an
anchor and gives up its head unless `init` is set, and `InitHead` makes a
head usable again.

`KList` models `struct list_head`. The memory is `M == [next, prev]` over
heads and entries. Every inline function is an operator `M -> M` that makes
the pointer writes of the C code in their order, so `list_move` is
`list_add(list_del(M, l), l, head)` just as in C. The actions make one call
each, guarded by the contract of the header: an entry is added only when it
is in no list, deleted only when it is linked, and a head given up by
`list_splice` is used again only after `INIT_LIST_HEAD`.

`KSList` does the same for `struct slist_head`, with `[next, last]`. It also
models the `slist_for_each_safe` loop with a body that may call
`slist_del_after(prev, head)`. The ghost variables `orig`, `seen` and
`deleted` record the list when the loop began, the nodes the body ran for,
and the ones it removed. The loop gets weak fairness on its body and on its
exit: once a loop has started, the code runs it to the end.

Both modules are shown to implement `AbstractList` through
`INSTANCE AbstractList WITH lists <- [h \in Heads |-> Walk(h) ...]`, and
`Refinement == AL!Spec` is checked as a PROPERTY. `Walk` follows the
pointers, and a ring that does not close shows up as a `NULL` element.

## `SmartExceptionTracer.tla`: folly's exception tracer

The state is:

* `obj[a]`: the object at address `a` and its deleter field;
* `map[a]`: the meta id stored in `getMetaMap()`;
* `meta[i]`: the `ExceptionMeta` of throw `i`, with its state, saved deleter
  and reader count;
* `th[t]`: a program counter per thread.

`throwCallback` is split into `Throw`, `CbNewMeta` (make_unique and the
deleter swap) and `CbInsert` (the map insertion). Each `withWLock`/`withRLock`
lambda is one atomic step. `metaDeleter` is split into `MdFind` (find and
erase under the map lock) and `MdLock` (the meta's write lock, then the
original deleter). `getTraceWithFunc` is `ReadLookup` (the meta's read lock
taken inside the map's read lock) followed by `ReadDone`.

Reference counting and address reuse belong to libstdc++ and are modelled as
environment actions. `Share` passes an `exception_ptr` to another thread.
`Release` drops one, and the last one runs the deleter field. `FailSites`
says which allocations may throw `bad_alloc`.

The specification gives weak fairness per thread to the steps of code
already entered (`CbNewMeta`, `CbInsert`, `MdFind`, `MdLock`, `ReadDone`).
Throwing, sharing, reading and releasing are the program's choices and get
no fairness. Both properties the runs check are safety properties.

## `LuaMain.tla`: command line of `lua.c`

An argument is abstracted to the three characters that `collectargs` reads:
`c0`, `c1`, and `c2` (a character or `EOS`). `collectargs` is a RECURSIVE
operator with one call per loop iteration, and it keeps the fall-through from
`-i` to `-v` and from `-e` to `-l`. `pmain` is a sequence of steps:

1. `CollectArgs`;
2. `LuaInit`, for `handle_luainit`;
3. one `RunArg` per iteration of `runargs`, then `RunArgsDone`;
4. `HandleScript`;
5. `PmainTail`, which starts the REPL or runs `dofile(stdin)`.

`main` adds `NewState` and `MainReturn`. Running a chunk is a
nondeterministic `ok`, and the ghost `ran` records the chunks run, in order.

`Usage` is the reference: a RECURSIVE reading of argv by the usage text that
`print_usage` prints, plus the rule in `collectargs`'s comment that an option
argument is not itself an option. `Planned` lists the chunks the usage calls
for. The properties compare the code's two scans of argv with this reference.

## `LuaSignal.tla`: Ctrl-C in the REPL of `lua.c`

`doREPL` reads a line, runs it with `docall`, and prints its results with
`l_print`. `docall` installs `laction` as the SIGINT handler before
`lua_pcall` and restores `SIG_DFL` after it (lines 223-226). `laction`
restores `SIG_DFL` itself and sets `lstop` as a count/call/return hook on
`globalL`. `lstop` removes the hook and raises "interrupted!". The variable
`at` splits a line into these phases:

* `read`: `loadline`; its terminal input and compilation are abstracted to
  a compiled line, an error, or end of input;
* `set`: `docall` before `signal`;
* `vm`: `lua_pcall` before the chunk's last hook point;
* `tail`: from that point to `signal(SIGINT, SIG_DFL)`;
* `print`: `l_print`, whose `lua_pcall` of `print` is a call hook point.

`Signal` delivers a SIGINT at any step, up to `MaxSigs`. It runs `laction`
when that is installed, and otherwise kills the process. `Interrupt` is the
hook firing. It may fire in `vm` or in `print`, and while it is set the
chunk cannot pass its last hook point. The ghost `src` records where the
SIGINT that set the hook was caught, and `intr` logs each interrupt with
that cause.

The initial state is the entry to `doREPL` with `SIG_DFL` installed. The
hook may already be set: a SIGINT in the window of an earlier `docall` of
`pmain` (LUA_INIT, `-e`, or the script, before `-i`) leaves it set.

* `InterruptsHaveCause`: every "interrupted!" answers a SIGINT that no
  earlier interrupt answered. That SIGINT came either while the chunk of the
  same line ran, or in the window between a chunk's last hook point and
  `signal(SIGINT, SIG_DFL)`. That window is the race at `lua.c:224`. TLC
  reaches it: a Ctrl-C that comes just as a line finishes interrupts the
  next line, or the same line's `print`. The property admits that window
  and no other way for a hook to outlive its line. The mutant `lstop_keep`,
  whose `lstop` does not remove the hook, breaks it.

## `SsiExpr.tla`: the tokenizer of SSI expressions

`ssi_eval_expr` (`mod_ssi_expr.c:268-317`) evaluates the `expr` of an
`<!--#if -->` directive. It calls `ssi_expr_tokenizer` for one token at a
time and hands each to the lemon parser while `context.ok` holds. It stops
when the tokenizer returns 0 (end of input) or -1 (an error), or when the
parser has failed. Then it calls the parser once more with token 0.

* **State:** the expression `input`, `t.offset` (`off`), the `tokens` handed
  to the parser, `context.ok` (`ok`), the last `ret`, and `pc`.
* **Characters:** the expression is a sequence of one-character strings
  over `Chars`. A read past its end sees the terminating NUL.
  `isalpha`, `isdigit` and `isgraph` are the `<ctype.h>` classes of the
  alphabet's characters.
* **`ssi_expr_tokenizer`** is a RECURSIVE operator: blanks recurse, and every
  `case` of the switch returns a token, an error (`Fail`) or the end. The
  `$` case is `DollarVar`. It keeps `i-3` on a `size_t` of `SIZE_BITS` bits,
  and looks the name up in `CgiEnv`, then in `SsiVars`. A copy that would
  run past the expression (`Overread`) is a crash.
* **Actions:** `Tokenize` is one test of the `while` condition: the
  tokenizer runs before `context.ok` is tested, and the parser may reject
  the token it gets. `EndOfInput` is the final parser call, which may also
  reject. `Done` is the stutter at the end.
* **Left out:** operator tokens carry only their id, since their text
  (`"(=)"`...) is only logged. `line_pos` only goes to the log, and
  `in_brace` is never read. The parser is generated from
  `mod_ssi_exprparser.y`, which is not in the repository, so it accepts or
  rejects each token nondeterministically. The value of the expression and
  `ssi_val_tobool` are therefore not modelled.

`RefLex` is the lexical syntax that the cases and their error messages
describe. Blanks separate tokens. The tokens are the operators
`= != ! < <= > >= && || ( )`; `'text'`, whose closing quote must be present
("missing closing quote"); `${name}`, whose closing brace must be present
("missing closing curly-brace"), and `$name`, both replaced by their values;
and a word, which runs up to a blank or up to a delimiter listed in the
default case. A character that begins no token ends the expression (the
"foobar" message).

`TokensMatchReference` says three things. The tokenizer never copies past
the expression. The parser gets a prefix of `RefLex`'s tokens. And if the
parser accepted everything, it got all of them, and `ret` is -1 exactly
when the syntax has an error.

### `ssi_lex` (`MC_SsiExpr.cfg`): violated

The run checks every expression of up to 4 characters over
`a $ { } = & ' blank newline`, with `size_t` scaled down to 8 bits. TLC
reports the expression `"\n"` in 2 states. The tokenizer has three faults,
and each one alone violates the property. This was checked by fixing the
other two in a copy of the module; the copy with all three fixed passes
over a 13-character alphabet (274k states):

* **No progress on a non-graph character (`mod_ssi_expr.c:228`).** A newline,
  a carriage return or a byte of 0x80 or above reaches the default case.
  Its loop stops at once, and it returns an empty `TK_VALUE` without
  moving `t->offset`. Every later call returns the same token, so
  `ssi_eval_expr` loops for as long as the parser accepts values.
* **`${name}` (`:204`, `:223`).** The tokenizer copies `i-3` characters,
  which drops the last character of the name. `t->offset += i` stops on the
  `}`, which then comes back as a word. For `${}`, `i-3` wraps to SIZE_MAX
  and the copy runs past the expression. With that fault alone, TLC reports
  `${}`.
* **Delimiters inside a word (`:230-242`).** The `break`s of the inner
  `switch` leave only the switch, so `a=b` is one token. With that fault
  alone, TLC reports `{'`.

## `KeyValue.tla`: rewrite rules of `keyvalue.c`

mod_rewrite and mod_redirect keep their rules in a `pcre_keyvalue_buffer`.
`pcre_keyvalue_buffer_append` adds a rule at configuration time.
`pcre_keyvalue_buffer_process` runs the rules on a request URI in order and
expands the replacement of the first match. The callers normalise each
regex and replacement with `pcre_keyvalue_burl_normalize_key` and
`_value` before adding it.

* **State:** the rules `kv` (`[key, res, blank]`: compiled or not, the
  outcome `pcre_exec` will give, and whether the replacement is blank);
  `allocated`; `phase`; the rule `i` being tried; `ctx->m` (`m`); the
  returned handler; the chosen `pattern`; the query string `qs` (unset,
  blank or set); and the result buffer `out`.
* **Actions:**
  * `pcre_keyvalue_buffer_append` grows the array by four when `used & 3`
    is 0 and counts the entry before compiling. A compile or study failure
    returns 0, which ends the configuration (`phase = "failed"`).
  * `StartProcess` begins a request, with any query string.
  * `ProcessRule` is one turn of the loop: an error returns
    `HANDLER_ERROR`, NOMATCH goes to the next rule, and a blank replacement
    returns `HANDLER_GO_ON` with `ctx->m` set. A match picks a replacement
    pattern and runs `pcre_keyvalue_buffer_subst` in the same step, then
    returns `HANDLER_FINISHED`.
  * `ProcessEnd` returns `HANDLER_GO_ON` after the last rule.
* **Patterns:** a replacement pattern is a sequence of symbols. Most are
  single characters (`$ % { } : ?` and a digit). A modifier word is one
  symbol (`esc:`, `to` for a `to...` that is not `tolower:` or
  `toupper:`), and so are `url.path` and `qsa`.
* **Substitution:** `pcre_keyvalue_buffer_subst` is the RECURSIVE
  `SubstLoop` over `k` and `start`. `pcre_keyvalue_buffer_subst_ext` and
  its modifier loop `ExtMods` return the count the caller adds to `k`.
  The result is a sequence of items: a literal, a capture (`$n` of the
  regex, `%n` of the enclosing condition), the url path or the query
  string, each with the `burl` flags it is appended with. `burl_append`,
  which does the encoding, is in `burl.c`, which is not in the repository.
* **Normalisation:** bytes are numbers. `li_cton` keeps its unsigned
  arithmetic and the `& 0xdf`. `PercentToupper` is the loop of both
  uppercasing passes, and `PercentHighUTF8` is both re-encoding passes.

The references are `Expand`/`Braced`, the substitution as the documentation
of mod_rewrite describes it, read left to right, and `Normalized`, the
normal form the comment before `pcre_keyvalue_burl_normalize_key` states.

### `keyvalue` (`MC_KeyValue.cfg`)

The run checks up to two rules, every outcome of each, and every
replacement of up to five symbols over
`$ % { } 1 ? esc: to : url.path qsa`. The regex has no group 1 (`n = 1`),
and the condition has groups 0 and 1. It also checks every string of up to
four bytes over `%`, `4`, `a`, `F`, `g` and 0xC3. The result is a pass,
with 4.8M states in 40 s.

* **`TypeOK`:** the array never holds more rules than were allocated.
* **`RewriteAsDocumented`:** the first rule that is not NOMATCH decides the
  handler and `ctx->m`. The result is the documented expansion, braced
  captures with modifiers included, truncated at an unclosed brace. This
  ties the index arithmetic of the loop (`k += num; k++; start = k+1`) to
  the count `subst_ext` returns, for every pattern. Five symbols are the
  fewest that give `${esc:1}`, `%{to:1}`, `?${qsa}` and an unknown
  modifier followed by a brace.
* **`NormalizeAsDocumented`:** both normalisations agree with `Normalized`
  on every string. The formula has no variable, so it is evaluated once, in
  the initial state.

**`toupper:` (`keyvalue.c:176`).** `${toupper:...}` sets `BURL_TOLOWER`.
If `"toupper:"` is added to `MCSymbols`, TLC finds `RewriteAsDocumented`
violated by `${toupper:url.path}`, whose item carries `TOLOWER`. The run
leaves the symbol out so that it checks everything else; this is recorded
as a hazard in `PROJECT.json`.

**Assumptions:**
* Captures, the path and the query contain no `?`. `${qsa}`'s `strchr`
  therefore sees only literal `?`s.
* `ctx->cache` is present.
* `url.scheme`, `url.authority`, `url.port` and `url.query` follow the
  same code path as `url.path`.

## Runs of the other modules

| run | cfg | bounds | result |
|-----|-----|--------|--------|
| `fdevent` | `MC_FdeventPoll.cfg` | fds {3,4}, `GROW` 1, 2 calls per handler | pass, 584k states, 90 s |
| `fdevent_oob` | `MC_FdeventPoll_oob.cfg` | same | `DispatchMatchesPoll` violated |
| `fdevent_realloc` | `MC_FdeventPoll_realloc.cfg` | fds {3,4,5} | `NoStalePfds` violated |
| `lists` | `MC_Lists.cfg` | 2 heads, 3 entries | pass, 16k states, 21 s |
| `tracer` | `MC_SmartExceptionTracer.cfg` | 3 threads, 2 addresses, 4 throws, make_unique may fail | pass, 506k states, 46 s |
| `tracer_badalloc` | `MC_SmartExceptionTracer_badalloc.cfg` | insertion may fail | `MetaDeleterFindsEntry` violated |
| `luamain` | `MC_LuaMainRepl.cfg` | up to 4 arguments of 13 shapes, tty or not, LUA_INIT set or not; REPL sessions of 3 lines with 2 SIGINTs | pass, 963k states, 7 s |
| `luamain_exit` | `MC_LuaMain_exit.cfg` | up to 1 argument | `SuccessMeansNoError` violated |

What the runs show:

* **`fdevent`.** `SlotTableConsistent`: the slot table, `fde_ndx` and the
  unused stack stay a bijection while handlers set and delete fds during
  the walk. A live slot handed to another fd would already break it, since
  the old fd's `fde_ndx` would point at a slot it no longer holds.
  `WalkCompletes`: every walk returns to the event loop.
* **`fdevent_oob` (code bug, `fdevent_poll.c:86` and `:88`).** `event_del`
  leaves `revents` set. The ghost `polled` holds the slots whose `revents`
  poll() reported for the fd now in them, and `event_del` takes its slot
  out. `DispatchMatchesPoll` says the walk dispatches no slot outside
  `polled`. A handler that deletes another fd that poll() reported ready
  makes the walk read `fdarray[-1]` (8 states, the trace TLC gives). If the
  handler then registers an fd, for example a new socket that got the
  closed fd's number, `event_set` gives it the freed slot. The walk then
  calls the new fdnode's handler with the old fd's `revents`. That takes 9
  states, and was checked once on a copy of the model that does not count
  the `fd = -1` outcome.
* **`fdevent_realloc` (code bug, `fdevent_poll.c:81`).** The walk keeps its
  own copy `pfds` of the pointer, and a handler that registers an fd while the
  array is full makes `event_set` realloc it.
* **`lists`.** `MC_Lists` runs `KList` or `KSList`, chosen by the constant
  `part`; the other stays in its initial state, where all of its properties
  hold, so every property is checked on every behaviour.
  `KListWellFormed` and `KSListWellFormed`: the rings close, `prev` undoes
  `next`, `last` is the final node, and no entry is in two lists.
  `KListRefinement` and `KSListRefinement`: every call does what
  `AbstractList` says.
  `SafeIteration` and `LoopTerminates`: a `slist_for_each_safe` loop that
  removes some nodes sees every node exactly once, keeps exactly the rest,
  and ends.
* **`tracer`.** `MetaMapConsistent`: across address reuse, the map holds the
  live meta of the object at each address, and no entry is left over from an
  earlier exception. `DestructorOnce`: the original destructor runs exactly
  once per object. There is no liveness property for `metaDeleter`'s wait
  on the meta's write lock. A reader holds a reference while it reads, so
  the last reference is never dropped while a read lock is held, and the
  wait never blocks.
* **`tracer_badalloc` (code bug, `SmartExceptionTracer.cpp:104`).** A
  `bad_alloc` in the map insertion leaves `metaDeleter` installed with no
  entry. `metaDeleter` then dereferences `find()`'s `end()`, which is
  undefined behaviour, and the object's destructor is lost. TLC reaches this
  in 6 states.
* **`luamain`.** `ArgsMatchUsage`: `collectargs` rejects exactly the command
  lines the usage rejects, `*first` names the offending option, and the flags
  and script index are the usage's. `ChunksFollowPlan`: LUA_INIT, the -e/-l
  chunks and the script run in the planned order, and they stop at the first
  error. It also checks that `handle_script` tells `-- -` from `-`, and that
  `runargs`'s `lua_assert`s hold. `MC_LuaMainRepl` adds the REPL model, so
  that this run checks `InterruptsHaveCause` too. A ghost `part` picks one
  of the two models, and the other stays in its initial state. Three lines
  and two SIGINTs are enough for a SIGINT in one line's window that
  interrupts the next line. They also cover a second SIGINT that kills the
  process after `laction` restored `SIG_DFL`.
* **`luamain_exit` (divergence, `lua.c:610`).** `lua < bad.lua` runs stdin
  with `dofile` and ignores its status. `pmain` then pushes true under the
  comment "signal no errors", so the interpreter exits with EXIT_SUCCESS,
  while `lua - < bad.lua` exits with EXIT_FAILURE.

These bounds are enough for the following reasons:

* Two fds with two calls per handler reach every order of set and delete
  inside one walk.
* Three list entries allow a splice into the middle of a list and a move
  between lists.
* Three threads give a thrower, a reader and a second owner.
* Four throws at two addresses make each address reused.
* Four arguments cover every pair of an option and its operand, followed by
  `--` or `-`.

Every property of a passing run has a mutant in `PROJECT.json`. It is an
operator placed just before the definition it changes, and the property
catches it.

## Plan for later sittings

1. **Unbalanced assignment.** `adjust_assign` pads or drops values with
   `luaK_nil`/`luaK_setreturns`. A model needs a register-allocation
   abstraction of `luaK_exp2nextreg` in `lcode.c`.

## Not modelled, and why

* **libpcre and `burl_append` in `keyvalue.c`.** The regex match is an
  outcome chosen per rule, and the URL encoding of `burl.c` (not in the
  repository) is left to the flags on each item. The callers that stop the
  configuration after a failed append are not in the repository either.
* **The SSI expression parser.** `mod_ssi_exprparser` is generated by lemon
  and is not in the repository, so `SsiExpr` leaves the value of an
  expression out.
* **The REPL's line reading in `lua.c`.** `pushline`, `addreturn` and
  `multiline` read terminal text and try to compile it. `LuaSignal` keeps
  only their outcome. `report` and the prompt only print.
* **Code generation in `lparser.c`.** It depends on `lcode.c`, which is not in
  the repository.
