# Model checking the inline-lua compiler front end and libraries

This directory holds TLA+ models of the single-pass compiler in
`src/src/lparser.c`, which turns a stripped-down, symbol-only Lua dialect
into register-based bytecode, of the table library (`ltablib.c`), of the
iterator library (`literlib.c`), of the string library (`lstrlib.c`: the
pattern matcher, `gmatch`, `find`, `match`, `gsub` and the one-call
functions), of the auxiliary library's string buffer (`lauxlib.c`) and of
the base library's table and number functions (`lbaselib.c`: `unpack`,
`select`, `ipairs`, `tonumber`), together with the TLC configurations that check them. The front end decides, in one pass and without a syntax tree:

- which names are locals, upvalues or globals;
- which virtual register holds which value;
- when a captured local's upvalue must be closed.

## 1. The system and its parts

| Part | Source | State it keeps | Operations |
|---|---|---|---|
| Token source (lexer) | `llex.h` only (`llex.c` absent) | current token, lookahead | `luaX_next`, `luaX_lookahead` |
| Statement & block parser | `lparser.c` 946-1550 | none of its own; drives the others | `chunk`, `statement`, `block`, `localstat`, `exprstat`, `whileexpr`, `forexpr`/`fornum`/`forlist`/`forbody`, `breakstat`, `retstat` |
| Expression parser | `lparser.c` 444-933 | the expression descriptor (`expdesc`) | `subexpr`, `simpleexp`, `primaryexp`, `prefixexp`, `funcargs`, `field`, `eindex`, `constructor`, `explist1`, `body`, `parlist` |
| Assignment resolver | `lparser.c` 995-1120 | the chain of pending targets (`LHS_assign`) | `assignment`, `check_conflict`, `abort_assignment_aux` |
| Scope & register manager | `lparser.c` 150-417 | `FuncState` (`nactvar`, `freereg`, `maxstacksize`, `actvar[]`, upvalue table, block chain) and `BlockCnt` (`nactvar`, `freereg`, `upval`, `isbreakable`, break list) | `new_localvar`, `adjustlocalvars`, `removevars`, `enterblock`, `leaveblock`, `searchvar`, `markupval`, `indexupvalue`, `singlevaraux`, `open_func`, `close_func`, `pushclosure` |
| Code emitter | `lcode.h` only (`lcode.c` absent) | register high-water mark, jump lists, code | `luaK_exp2nextreg`, `luaK_exp2anyreg`, `luaK_exp2RK`, `luaK_storevar`, `luaK_reserveregs`, `luaK_blockresults2regs`, ... |
| Table library | `ltablib.c` | the table; `auxsort`'s locals between order-function calls | `sort`, `insert`, `remove` (and `concat`, `foreach`, `foreachi`, `maxn`, `getn`, `setn`) |
| Iterator library | `literlib.c` | an iterator object whose `next` is a chain of C closures; the closures' upvalues | `iter`, `ivals`, `range`; adapters `map`, `filter`, `enumerate`, `skip`, `take`, `inspect`, `chain`, `zip`; consumers `consume`, `foreach`, `count`, `last`, `nth`, `collect`, `all`, `any`, `find`, `position`, `min`, `max`, `fold`, `reduce`, `unzip`, `compare` |
| String library | `lstrlib.c` | a `MatchState` (subject, capture array, `level`) during one match; `gmatch_aux`'s upvalues (subject, pattern, next start) between calls | `match` and its helpers (`classend`, `singlematch`, `matchbracketclass`, `matchbalance`, `max_expand`, `min_expand`, `start_capture`, `end_capture`, `match_capture`), `push_captures`, `gmatch`/`gmatch_aux`; also `find`, `match`, `gsub`, `format`, ... |
| Auxiliary library | `lauxlib.c` | a `luaL_Buffer`: a char array and `lvl` partial strings on the Lua stack | `luaL_buffinit`, `luaL_addchar`, `luaL_addlstring`, `luaL_prepbuffer` (`emptybuffer`, `adjuststack`), `luaL_addvalue`, `luaL_pushresult`; argument checkers; `luaL_ref`/`luaL_unref` (a table's free list of reference keys); `luaL_gsub` |
| Base library | `lbaselib.c` | Lua values on the VM stack; each coroutine is a thread (`lua_State`) with its own status, frames and stack | `unpack`, `select`, `ipairs`, `tonumber`, `pcall`, `error`, `load`, ...; `coroutine.create`, `wrap`, `resume`, `yield`, `status`, `running` |
| Package library | `loadlib.c` | `_LOADED` (`package.loaded`), shared by every thread; `package.loaders` | `require` (over the loaders `preload`, `Lua`, `C`, `Croot`; `findfile` searches `package.path`/`cpath`, which `setpath` builds from the environment), `module`, `loadlib`, `seeall` |
| Other libraries | `lmathlib.c`, `loslib.c`, `liolib.c`, `ldblib.c` | Lua values on the VM stack | the library functions |
| Interpreter driver | `lua.c`, `etc/` | command line | `main` |

How the parts interact:

- The statement and expression parsers are one recursive descent.
- Every production calls the scope & register manager to declare, resolve
  and release locals and to open and close blocks.
- Every production calls the emitter to move values into registers.
- One register file serves both locals and temporaries: the active locals
  are `[0, nactvar)` and the temporaries are `[nactvar, freereg)`.
- Because blocks, loops, `break` and `return` are expressions here, a block
  can start while temporaries of the enclosing expression are live.
  `enterblock` therefore *adopts* them: it marks their `actvar` slots invalid
  and raises `nactvar` to `freereg`.

Behaviours that are hard to get right, and that a test hardly reaches:

- Declaration order. A local's name is recorded (`new_localvar`) before its
  initializer is parsed, and the local is activated (`adjustlocalvars`)
  after. Anything in the initializer that writes those slots changes what
  the name binds to.
- Register accounting across nesting. Each construct must leave `freereg`
  exactly where its caller expects it: block values, calls (`freereg--`),
  assignment (`freereg -= nvars`) and the abort path.
- Upvalues. `singlevaraux` threads a reference through every enclosing
  function. `markupval` must flag the declaring block, and `leaveblock` and
  `breakstat` must emit `OP_CLOSE` before a captured register is reused.
- `break` and `return` inside expressions. They run while the enclosing
  expression's temporaries are live.
- Table constructors. List items wait in registers above the table and are
  flushed by `OP_SETLIST` every `LFIELDS_PER_FLUSH` items; a record field's
  key and value must be freed so the next list item lands in place.
- The pattern matcher backtracks: `max_expand` gives characters back,
  captures are written before the rest of the pattern is tried and undone
  when it fails, and `gmatch` must advance past an empty match.
- Coroutines and modules. `coroutine.status` reads a thread's status, its
  frames and its stack top, which any earlier create, resume, yield, return
  or error left behind; `require` marks a module as loading (a sentinel in
  `_LOADED`) before running its body, and that mark is shared by every
  coroutine and survives an error caught by `pcall`.

## 2. Modules

| Module | Models | State and actions |
|---|---|---|
| `LCode` | the emitter's register effects (spec-modelled, `lcode.c` is not in the repository) | operators on a function record and an `expdesc` record `[k, info, aux]`: reserve, free, discharge, exp2nextreg, exp2anyreg, exp2RK, indexed, storevar, infix/posfix/prefix, setreturns, blockresults2regs. A value's register and `freereg` are kept; opcodes, jump lists and constants are not. |
| `LScope` | the scope & register manager | a function record with `nactvar`, `freereg`, `maxstack`, `actvar` (slot to name), `bl` (the `BlockCnt` chain as a sequence, innermost last), `ups` (upvalue table with names), `isvararg`; one operator per C function, from the record before the call to the record after it. `SingleVarAux` is `RECURSIVE` over the function chain. |
| `LParser` | the grammar functions of `lparser.c` | a pushdown machine. `stk` is the C call stack of the recursive descent: one frame per active grammar function, with a `pc` naming the point at which it resumes. `fs` is the `FuncState` chain. `rv`/`rn` carry a callee's `expdesc` and int result. `ncc` is `L->nCcalls`. `status` is parsing/error/done. Each action is one straight-line segment of one grammar function, including every scope and emitter call that segment makes (e.g. `ForBody` = `adjustlocalvars(3)`, `enterblock`, `adjustlocalvars(1)`, `luaK_reserveregs(1)`, push `block`). Where the code branches on the current token, the action chooses among the productions allowed by the `Productions` constant. Every error path is an action to `status = "error"`, because every error aborts the compile. An `exprstat` frame carries the `LHS_assign` chain as the sequence `lhs`. `Assignment` is one call of `assignment()`: reserve a register, then `,` (push `expr` for the next target), `=` (release `nvars` registers and push `explist1`) or the abort path (`AbortPrev` then `AbortLast`). `ExprstatTarget` applies `check_conflict` to a local target. `ExprstatStore` stores the last target and then, as the C recursion unwinds, every earlier one (`StorePrev`, right to left). A `cons` frame is one `constructor()` call: `ConsItem` chooses a list item, `[k] = v` or `name = v`; `CloseListField` (flush at `FieldsPerFlush` pending items), `ConsRecKey`/`ConsRecVal` (`recfield`) and `LastListField` follow the C. `ExprMethod`, `ExprIndex` and `ExprKey` are `:name args`, `.(expr)` and `eindex`. |
| `MCLParser` | model values and bounds | the names `a`, `b` |
| `LTableSort` | `sort` and `auxsort` | the table `t` (indices `0..N+1`, so reads one past either end are visible), `l`, `u`, `i`, `j`, the pivot `P`, `segs` (the ranges of the suspended recursive callers), `pc` (the point between two order-function calls), `status`, `comp` (whether an order function was given). One action per stretch of `auxsort` between two calls of `sort_comp`: `SortEnds`, `SortMedian`, `ScanI`, `ScanJ`, `Exchange`, `Partitioned`, `Return`. An order function's answer is a free choice (`BOOLEAN`); the default order is `<`, which raises on nil. |
| `LTableList` | `tinsert`, `tremove`, `tconcat`, `getn`, `maxn`, `foreachi`, `setn` | the table `t` over a window of integer keys; each call is one atomic action. `aux_getn` is `lua_objlen`, i.e. `luaH_getn`, whose code (`ltable.c`) is not in the repository: `Borders` gives any border of the table, which is all Lua promises. Ghost `ref` is the sequence the calls describe (via SequencesExt `InsertAt`/`RemoveAt`), `want`/`cwant` what the manual says the last call returns on it. `ConcatBuffer` is `tconcat`'s loop over the `LAuxBuffer` operators; `cres` is its result, `peak` the most stack slots any buffer used. |
| `LAuxBuffer` | `lauxlib.c`'s `luaL_Buffer` | no variables: a buffer is a record `[buf, stk, peak]` (the char array, the Lua stack slots above the caller's, the most slots used), and each buffer function an operator on it, so a library function that builds a string is one fold. `ToGet` is `adjuststack`'s do-while. |
| `LStrLib` | `lstrlib.c`'s one-call functions | pure operators from the arguments to the tuple of values returned: `str_len`, `str_sub`, `str_byte`, `str_rep`, `str_reverse`, `str_find_aux` (with `lmemfind` and the `match` loop of `LStrMatch`), `str_gsub` with `add_s` and `add_value`. Lua values are records `NumV`/`StrV`/`NilV`/`ErrV`, so TLC never compares an integer with a string. |
| `LBaseLib` | `lbaselib.c`'s `unpack`, `select`, `ipairsaux`, `tonumber` | pure operators. C `int` arithmetic is `CInt`, modulo `2^INLUAI_BITSINT`; `lua_checkstack` is `CheckStack` with `INLUAI_MAXCSTACK`; `StrToUL` is `strtoul` on strings of digits and spaces. |
| `LLibClient`, `MCLibs` | Lua programs using the libraries | `LTableList`'s table and calls, plus one action per string call on the string the last `table.concat` returned (`sres`, `swant`: what it returned and what `LPatternRef`'s manual reading says) and per base call on the table or that string (`bagree`: whether it returned what the manual says). `MCLibs` holds the patterns, replacements and argument sets, and composes this client with `LRuntime`'s as a disjoint union: `part` chooses in the initial state which program runs, and the other's variables stay unchanged. A third part is `LRef`'s client of `luaL_ref`. The parts share no state (`_LOADED`, the threads and the reference table are not touched by the table and string calls), so this is one run that checks all three. |
| `LRuntime` | `lbaselib.c`'s coroutine functions, `pcall` and `error`; `loadlib.c`'s `require` and `module` | `th`: per thread its `lua_status` (`st`), its Lua frames (`stk`, each a main, coroutine-body, pcall or module-body frame), `lua_gettop` when it has no frame (`top`) and whether `wrap` made it; `chain`: the threads inside `lua_resume`, the running one last; `how`: whether a coroutine was last entered by `resume` or by its wrap function; `loaded`: `_LOADED` (nil, the sentinel, a table, true, or a value a body returned); `raising`: an error unwinding. Each step the running function executes one statement, any the constants allow: `CoCreate` (create or wrap), `AuxResume` (`auxresume` through `resume` or the wrap function), `CoYield`, `Require`, `Module`, `PCall`, `Error`, `FnReturn` (return from the innermost frame: a module body's return is the rest of `ll_require`, a coroutine body's the end of `lua_resume`) and `Unwind` (`lua_error` to the innermost pcall, or the end of the thread). `lua_resume`, `lua_yield` and `lua_error` are in `ldo.c`, which is not in the repository, and follow the C API manual. What each loader answers for a module is `LPackage`'s `Found`; `Require` takes it. Ghosts: `astat` (the status the manual gives each coroutine), `runs` (bodies started per module), `failed` (the modules whose body an error unwound), `findok` (every path search so far agreed with the manual's). |
| `LPackage` | `loadlib.c`'s path search and loaders, `lauxlib.c`'s `luaL_gsub` | no variables: pure operators over strings as sequences of characters. `setpath` builds `package.path` and `cpath` from the environment variable (`EnvPath`, or `NoEnv` when unset) and the default; `pushnexttemplate`, `findfile` (`FindFrom` is its loop) and `LuaLGsub` follow the C; `loader_preload`, `loader_Lua`, `loader_C`, `loader_Croot` answer found, missing (a message) or broken (`loaderror`); `LoadersFrom` is `ll_require`'s loop over `package.loaders`. The file system (`Readable`, `Compiles`) and the dynamic linker (`CLibs`, `Exports`) are constants. `RefFindFile` is the manual's path search, written from section 5.3. |
| `LRef` | `lauxlib.c`'s `luaL_ref` and `luaL_unref` | `reg`: the table, slots 0 (`FREELIST_REF`) to `MaxKey`+1, each nil, a stored value or a free-list link; ghosts `held` (the client's live handles per key) and `used` (the largest key handed out). `Ref` takes any border `lua_objlen` may return (`RefBorders`; `luaH_getn` is in `ltable.c`, not in the repository); `Unref` frees a held key or `LUA_REFNIL`/`LUA_NOREF`; `RefNil` is `luaL_ref` of nil. |
| `LIterUser` | the client's side | the client's `f` and predicate (fixed functions), tables as functions, `Take`/`Drop` |
| `LIterAbs` | what an iterator promises | `rest`, the tuples still to be yielded; one action per library function, each a function of `rest` |
| `LStrMatch` | `lstrlib.c`'s matcher | no variables: one operator per C function. A string is a sequence of one-character strings and a `char *` a 1-based index (`Len(s)+1` is `src_end`, where `'\0'` is read). `match` takes and returns the `MatchState` record `[src, pat, level, capture]`, because the C mutates the capture array and undoes it on failure; `RECURSIVE` covers `match`, `max_expand`, `min_expand`, `start_capture` and `end_capture`. `gmatch_aux(s, p, pos)` returns the new upvalue 3 and the tuple pushed. `With(v, F)` applies `F` to the value of `v`, so a recursive result used several times is evaluated once also when TLC collects coverage. TLC does not cache `LET` values in that mode. |
| `LPatternRef` | a reference matcher, from the manual's section 5.4.1 | the pattern is parsed into items, a class into a set of characters; `Succ` gives the list of all successes in the manual's order of preference (`*`/`+` longest first, `-` shortest first, `?` one before none), and `RefGmatch` the tuples gmatch should yield. It shares only the byte codes and `<ctype.h>` predicates with `LStrMatch`. |
| `LIter`, `MCIter` | `literlib.c` | `it`, the object's pipeline: stage 1 is the source closure (`values_aux`, `range_aux`, `iter_wrap_stateless` over `next` or over `gmatch_aux`), stage k the adapter closure wrapping stage k-1, with its upvalues as record fields. Each `*_next` closure is an operator from the pipeline to the pipeline and its results; `Call` dispatches on the stage. Each library call is one action; a consumer's loop is a `RECURSIVE` operator, since nothing else runs during it. `Remaining` maps the upvalues to the tuples they are meant to yield (for a gmatch source, `RefGmatch` from its position), and `AbsSpec` is `LIterAbs!Spec` under that mapping. `pending` is `Remaining` of the current pipeline, set by every action, so the mapping is a variable. `tabs` holds `gmatch_aux`'s and `RefGmatch`'s results for every client pair and start position. Both are pure functions of their arguments, so `Init` computes them once and no action changes them. This keeps TLC's coverage accounting from re-walking the recursive matchers at every call site of the recursive `Call` and loop operators. |

Ghost state, used only by properties:

- `decl`: the name the source declared at each active slot.
- `opened`: the registers whose upvalue may still be open on the path being
  compiled. `pushclosure` adds the captured locals. `OP_CLOSE` at `a`
  removes those at or above `a`.
- `brkopen` per loop block: the open set carried by break jumps.
- `retok`: the last `retstat` returned its own values.
- `abortok`: the last aborted assignment left one value.
- `storeok`: at the `=` of the last assignment whose targets are all
  assignable, every register an indexed target reads lay below `freereg`
  and was not a local that a later target overwrites.
- `listok`: every `OP_SETLIST` emitted so far found its pending items in the
  registers just above the table (`InPlace`).

## 3. Runs

| Run | cfg | Productions | Properties | Result |
|---|---|---|---|---|
| loops | `MCLoops.cfg` | while, break, local, exprstat, name, func | `TypeOK`, `BreaksCloseUpvals`, `OpenUpvalsActive` | pass |
| exprs | `MCExprs.cfg` | local, exprstat, name, block, binop, call, field, unop, vararg, nil, cons, index, method; MaxRegs 4, MaxFrames 5, FieldsPerFlush 1 | `RegisterOrder`, `ListItemsInPlace` | pass |
| control | `MCControl.cfg` | for, forlist, return, break, exprstat, name, func, local, while, multi; 2 targets per assignment | `RegisterOrder` | pass |
| name_binding | `MCNameBinding.cfg` | local, block, exprstat, name, for, forlist; names {a, b} | `NameBinding` | violation |
| assign_targets_clobbered | `MCConflict.cfg` | local, exprstat, name, field, multi; 2 targets per assignment | `TargetsKept` | violation |
| actvar_bound | `MCActvar.cfg` | local, block; 4 expressions per list, MaxVars 2 | `ActvarInBounds` | violation |
| return_in_expr | `MCReturn.cfg` | local, return | `ReturnsOwnValues` | violation |
| abort_extra_value | `MCAbort.cfg` | local, exprstat, name | `AbortLeavesOneValue` | violation |
| table_sort | `MCTableSort.cfg` | n = 7, values {1, 2, 3}, with and without an order function | `PartitionBounds`, `SortedPermutation`, `TypeOK`, `SortCompletes` | pass |
| sort_writes_past_end | `MCSortOrder.cfg` | n = 5, any order function | `StaysInArray` | violation |
| libraries | `MCLibs.cfg` | 5 calls of 23 kinds, values {1, 23}, positions {-1, 0, 1, 2, 3, 5}, keys up to 4, buffer array 2 chars, `INLUA_MINSTACK` 6, 16-bit ints; or 8 statements over coroutines {c1, c2}, modules {A, B}, 3 frames per thread; or any refs and unrefs with keys up to 5 | `MatchesSequence`, `ConcatJoins`, `BufferWithinLimit`, `StringCallsAsManual`, `BaseCallsAsManual`, `CoStatusAsManual`, `ResumeChainSimple`, `LoadedOnce`, `RequireAsManual`, `FindFileAsManual`, `RefsUnique`, `NoLeak` | pass |
| iter_refinement | `MCIter.cfg` | `iter(ivals(t))` for t in {<<1, 2>>, <<2, 1, 1>>} and `iter(s:gmatch(p))` for four subject/pattern pairs, up to 2 adapters, 5 library calls, counts {1, 2} | `AbsSpec` | pass |

The properties:

- `RegisterOrder` is chunk's assertion (`maxstacksize >= freereg >= nactvar`),
  checked in every state, in every function and for every open block
  snapshot.
- `OpenUpvalsActive`: no register with a possibly open upvalue is a free
  register or an unnamed slot.
- `BreaksCloseUpvals`: break paths carry no open upvalue at or above the
  loop's first register.
- `TargetsKept`: in a multiple assignment, a register that an indexed
  target reads (its table, its key, or `check_conflict`'s copy) is still
  intact when the target is stored. The values are evaluated first and
  stored after, right to left (spec section 4.4).
- `ListItemsInPlace`: every `OP_SETLIST` a constructor emits finds its
  pending list items in the registers `x+1 .. x+tostore` right above the
  table at `x` (`closelistfield`, `lastlistfield`, and `recfield` freeing its
  key and value keep them there).
- `BreakableUncaptured` is `leaveblock`'s assertion that a loop block never
  has `upval` set. It is checked by `MCBreakable.cfg`, outside the run list
  (see below).

Every property of a passing run has a mutant in `PROJECT.json`: the same
model with one definition replaced by a plausible bug, which TLC must reject.

- `LeaveBlockNoClose`: no `OP_CLOSE`.
- `LeaveBlockFreeAll`: `freereg = nactvar`, the line left commented out in
  `leaveblock`.
- `BreakToNoClose`: the skipped blocks' upval flags are ignored.
- `ForBodyNoReserve`: the declared variables' registers are not reserved.
- `OverflowLate`: `luaK_checkstack` is off by one.
- `CloseListFieldNoReset`: `closelistfield` does not reset `tostore` after
  a flush.

Library properties:

- `PartitionBounds` is auxsort's comment invariant `a[l..i] <= P <= a[j..u]`
  at the head of each partition round (default order).
- `SortedPermutation`: when sort returns, `t[1..n]` is sorted and has the
  values it started with (a bag comparison against the ghost `t0`).
- `SortCompletes` (temporal): with the default order, sort returns.
- `MatchesSequence`: while every `insert` position is in `1..#t+1`, the table
  is exactly the sequence the calls describe, with nothing outside it, and
  every `remove` returned the element at its position.
- `ConcatJoins`: while the table is a sequence, `table.concat` with and
  without bounds returns the manual's join of `ref` (or raises on a nil in
  the range), through every buffer path: `addchar` at a full array,
  `adjuststack`'s merges and `addvalue` of a field longer than the space
  left.
- `BufferWithinLimit`: no buffer, in `concat`, `gsub`, `rep` or `reverse`,
  ever holds more than `LIMIT + 1` Lua stack slots; `adjuststack` is what
  keeps it within the `INLUA_MINSTACK` slots a C function may use.
- `StringCallsAsManual`: `len`, `sub`, `byte`, `rep`, `reverse`, `find`
  (plain and pattern), `match` and `gsub` (string and table replacements,
  with and without `maxn`) on the concat result return what `LPatternRef`,
  written from the manual, says.
- `BaseCallsAsManual`: while the table is a sequence, `unpack(t)`,
  `unpack(t, i, e)` with `(i, e)` in {(INT_MIN, INT_MAX), (1, INT_MAX),
  (0, 2), (3, 2)}, `select(k, unpack(t))` for k in {"#", 2, -1, 0},
  `ipairs(t)` and `tonumber(s, b)` for b in {2, 16, 37} return what the
  manual says. `(INT_MIN, INT_MAX)` has 2^16 elements, which `e - i + 1`
  wraps to 0: only the `n <= 0` test turns it into the error.
- `CoStatusAsManual`: in every state, `coroutine.status` of every created
  coroutine is what the manual says (suspended before its first resume and
  after a yield, running, normal while it has resumed another, dead after
  it returned or raised), computed by `costatus` from the thread's status,
  frames and stack top.
- `ResumeChainSimple`: no thread is inside `lua_resume` twice: `auxresume`
  refuses every coroutine that is running or normal, whichever mix of
  `resume` and wrap functions leads there.
- `LoadedOnce`: each module's body runs at most once, across module cycles,
  coroutines that require the same module, and a retry after its body
  raised inside a `pcall`.
- `SentinelMeansLoopOrError`: `ll_require`'s message "loop or previous
  error loading module" is right. The sentinel is in `package.loaded[name]`
  only while the module's body runs in some live thread, or after an error
  unwound the body. The first case is a `require` cycle, which may pass
  through coroutines resuming each other. A body that returns, with or
  without a value and with or without calling `module`, never leaves the
  sentinel behind. The history variable `failed` records the bodies an
  error unwound.
- `FindFileAsManual`: every path search `require` made, through `setpath`'s
  `;;` expansion, `pushnexttemplate`'s scan (empty templates, the last
  template at the end of the path) and `luaL_gsub`'s substitutions (two
  marks in one template, dotted names, `loader_Croot`'s root), found the
  file the manual's search names.
- `RefsUnique`: `luaL_ref` never hands out a key the client still holds,
  and every held key still holds its value, whatever order the refs and
  unrefs come in.
- `NoLeak`: every key `luaL_ref` has handed out is held or on the free
  list threaded through the table, so a freed key is reused before the
  table grows.
- `AbsSpec` (refinement): every sequence of library calls on one iterator
  yields and returns what the same calls on its sequence of tuples would.
  With a gmatch source that sequence is `RefGmatch`'s, so the run also
  checks `lstrlib.c`'s matcher against the manual's semantics: a
  `max_expand` that does not retry with fewer repetitions, or a
  `start_capture` that does not undo `level`, is rejected by it (checked
  by hand; the listed mutant of `AbsSpec` is `iter_take_next_late`).

Their mutants: `SortMedianNoUpper` (median of three without the `a[u]<a[i]`
exchange), `PartitionedOffByOne` (recurse on `[l, i-2]`), `ScanINoInc` (the
i scan without `++i`, caught by `SortCompletes`), `PartitionedSkipUpper` (`l = i+2`), `RemoveFromNoClear`
(`tremove` without `t[e] = nil`), `AddValueNoInsert` (`luaL_addvalue`
without `lua_insert(L, -2)`), `KeepMergingPastLimit` (`adjuststack` merging
while `lvl - toget + 1 > LIMIT`), `str_gsub_norest` (gsub without adding
the rest of the subject), `UnpackNoOverflowTest` (unpack without
`n <= 0`), `costatus_noinit` (a coroutine with no frame is dead, without
the `gettop` test), `AuxResumeDeadOnly` (`auxresume` refusing only a dead
coroutine), `RequireNoSentinel` (the body called without storing the
sentinel), `AfterBodyNoTrue` (the sentinel not replaced by true when the body returns nil),
`LuaLGsubFirst` (`luaL_gsub` replacing only the first mark), `LuaLRefNoIncr`
(`luaL_ref` without `ref++`), `LuaLUnrefNoLink` (`luaL_unref` clearing
the slot instead of linking it to the old head),
`iter_take_next_late` (`i > n` for `i >= n`).

The violation runs are the findings:

1. A block expression in a local declaration's initializer rebinds the
   pending local (`@ a = (@ b)` binds slot 0 to `b`).
2. `enterblock` writes `actvar[]` past its `INLUAI_MAXVARS` entries.
3. A `return` inside an expression list returns the wrong registers
   (`<- 1, <- 2, 3`).
4. The abort path leaves two registers for a local or an index into a
   temporary (`@ a; a`, `a.f`), which contradicts the spec's "assignment
   abort idempotence".
5. `table.sort` with an order function that is not a strict weak order
   (e.g. `function() return math.random() < 0.5 end`) can write the pivot
   to `t[n+1]` and leave a nil inside `t[1..n]`: the `i>u` check at
   `ltablib.c:227` runs only after a true answer, so the i scan stops at
   u+1 on a false answer for `(nil, P)`, and `set2(L, u-1, i)` at 243 then
   swaps `t[u-1]` with `t[u+1]`. The error message at 227 says an invalid
   order function is reported instead.
6. A multiple assignment overwrites a register that one of its targets
   still needs. `assignment` reserves one register per target as the chain
   grows. A later target's table register, or `check_conflict`'s copy of a
   local, lies above the first reservation. `fs->freereg -= nvars`
   (`lparser.c:1066`) releases those registers as well, and the first value
   is loaded over them before the stores run. In `a, g.x = 1, 2` the
   register holding `g` receives 1 before `g.x = 2` is stored. In
   `t.x, t = 1, 2` the copy of `t` is lost the same way, so `check_conflict`
   never protects anything. TLC finds the first case in an 11-state trace.

`leaveblock`'s assertion at `lparser.c:327`, that a loop block has no
captured local, fails as well (`tlc -config MCBreakable.cfg MCLParser`
reports `BreakableUncaptured` violated, in about 30 s). Here is how: a
block in a for's bounds declares a local in the for's pending control slot
(finding 1), and a closure in the loop body captures that name. The
breakable block that owns the slot is then flagged. It has the same root
cause as finding 1, so its hazard is covered by `NameBinding`, and the
configuration is not one of the runs.

Three disagreements between the iterator code and its comments were found
while modelling it. They are hazards in `PROJECT.json` rather than runs,
because a project keeps at most 12 runs. Each has a configuration here
that shows it: `tlc -config MCIterTake.cfg MCIter` (and likewise
`MCIterRange.cfg`, `MCIterChain.cfg`) reports `AbsSpec` violated.

- `take(0)` yields one value (`iter_take_next` compares `i >= n` after it
  has already fetched the value it returns).
- `range(a, b)` never yields `b`: `range_aux` stops when the *next* value
  passes `stop`, so `range(3)` yields 1, 2 although the comment calls `stop`
  the final value.
- `chain` never clears its second `next`. With `iter(next, t)` as the
  second iterator, the chain yields nothing once and then starts `t` again.

## 4. Bounds and why they are enough

- `MaxRegs` (MAXSTACK) is 5 or 6, and `MaxVars` (INLUAI_MAXVARS) is 5, or 2
  in `actvar_bound`. These are enough for a numeric for (four registers)
  plus one temporary. They also make the stack-overflow error reachable:
  every run reaches it, which is why `OverflowLate` is caught.
- `MaxStmts` bounds the statements of the whole program (2 to 4). A
  per-chunk bound would multiply across nesting levels.
- `MaxFrames` (6 or 7) bounds the parser's stack. A production that opens
  a new nested construct (block, loop, function literal, operator, call) is
  offered only below this depth. Productions that close a construct are
  always offered, so every parse can finish. Depth 7 is what the smallest
  capture-inside-loop-then-break program needs.
- `MaxNames` (1) is the number of names per declaration. `MaxExps` (1 or 2,
  4 in `actvar_bound`) is the number of expressions per list. `MaxTargets`
  (2 in `control` and `assign_targets_clobbered`, 1 elsewhere) is the
  number of targets in one assignment chain. Two targets are enough for a
  later target to overwrite an earlier one's register, and for
  `check_conflict` to copy.
- Names are model values, and one name is used unless a property needs
  two.

Each scenario in the findings and each mutant's counterexample needs 2 to
4 statements and at most 3 levels of nesting, and lies within these bounds.

Libraries:

- Sort: n = 7 gives three levels of partitioning, both recursion arms and
  every early exit (`u-l == 1`, `u-l == 2`). Three values give equal
  elements, which stress the scans' stopping conditions. With an order
  function the control does not depend on the values, so one value (and
  nil) is enough; n = 5 already reaches `i = u+1`.
- Insert/remove: positions -1 and 0 below the array, 5 beyond `#t+1`, and
  keys up to 4, so shifting, holes and several borders all occur.
- Concat and the buffer: values 1 and 23 and separators "" and " " give
  fields of one and two chars. With a 2-char array (`LUAL_BUFFERSIZE` is
  `BUFSIZ` in the code) every concat of two or more fields fills the array,
  a two-char field meets a non-empty array (`addvalue`'s second branch),
  and `INLUA_MINSTACK` 6 gives `LIMIT` 3, which three levels reach.
- String calls: the subjects are the concat results (up to 6 digits and
  spaces). The five patterns cover a `+` run, two captures, an anchor, an
  item matching the empty string and a plain string; the replacements cover
  `%1`/`%2`, `%0` and a table. Five calls per behaviour keep the run near
  80 s with coverage.
- Base calls: `INLUAI_BITSINT` is 16, a configuration `inluaconf.h`
  selects, so `INT_MIN..INT_MAX` is within TLC's integers and its length
  still wraps; `INLUAI_MAXCSTACK` is the code's 8000, below `INT_MAX`.
- Coroutines and modules: two coroutines are enough for one to resume the
  other and for the second to try to resume the first (normal) or itself
  (running); 8 statements reach create, resume, a nested resume and a
  yield back, or a require cycle A to A inside a pcall followed by a retry.
  `INLUA_PATH` is `./?.l;;;?/i.l` with the default `?.x`, so `setpath`
  replaces the first `;;` and leaves an empty template; `INLUA_CPATH` is
  unset, so `cpath` is its default `?.s;?/?.s`, two marks in one template.
  Module A is found by the Lua loader at the last template, after two
  that name no readable file and the empty one, which is skipped; module B (`b.c`) has no Lua file and its C
  file `b/c/b/c.s` is no library, so `loader_C` raises before `loader_Croot`
  is asked. 3 frames per thread allow a pcall around a require around a
  body. The runtime part has 43,915 states, the references part 415, and
  the whole run 108,688.
- References: keys up to 5 let three keys be live while two are freed in
  either order, and the table grow again after the free list is used up.
  `lua_objlen` may return any border, but `luaL_ref` asks for it only when
  the free list is empty. Then every key it handed out is held (`NoLeak`),
  so the border is unique. The choice is kept because it costs nothing
  and is what the code may see.
- Iterators: two tables, one with a repeated value, so `filter`, `find`,
  `min`, `max` and `collect` all have something to decide. Two adapters per
  object and five calls reach every adapter under every other one, followed
  by consumers. Counts 1 and 2 exercise `take`'s `i >= n` and `skip`'s loop.
- gmatch: `()a*()` on `baa` has empty matches at the start and the end and
  a non-empty one between; `()%b()()` on `a(b)` fails at the first position
  and balances from the second; `()(%l)%u?()` on `aAb` has a string capture
  and both branches of `?`; `()[%l]*()a()` on `aba` needs `max_expand` to
  give back a character after a position capture, so `start_capture`'s undo
  matters. Every pattern starts and ends with a position capture, so every
  tuple has integers where `map`, `filter`, `min` and `fold` look.
- Constructors: `FieldsPerFlush` (LFIELDS_PER_FLUSH, 50 in the code) is 1,
  so a two-item constructor already flushes once before its last item.
  `MaxFrames` is 5 in `exprs`, which keeps the run within its time; a block
  value as the last list item needs 6 to 8 frames, so `lastlistfield`'s
  block case is not reached there.

## 5. Fairness and liveness

`table.sort` is one C call on one thread. Nothing else runs while it does,
and an order function returns, so `LTableSort!FairSpec` assumes weak fairness
of its next-state relation. `SortCompletes` is checked under it.

For the parser, none is assumed. The compiler is single-threaded and synchronous (spec
section 5). There is no scheduler to be fair about, and every property here
is a safety property. The model's behaviours are finite: they are bounded
by the program-size bounds and end in `done` or `error`. `Terminated` lets
a finished compile stutter, so deadlock checking stays on. A state where no
action is enabled while the compile is still `parsing` would be reported.

## 6. What is not modelled, and why

- `lcode.c` and `llex.c` are not in the repository.
  - The emitter is modelled from the spec as register effects only.
  - The token stream is the environment.
  - Jump lists and patching (the spec's jump-list closure property) need
    `lcode.c` and are left out.
- Table library: `foreach`, whose order is `lua_next`'s, and callbacks
  that change the table. A table's hash part and its `next` order are in
  `ltable.c`, which is absent.
- Iterator library:
  - `compare` and the optional comparison functions of `min`/`max` are
    not modelled;
  - neither are the explicit tables passed to `collect`/`unzip`;
  - a second iterator for `chain`/`zip` is fresh and unadapted, and the
    client does not call it itself;
  - `range` with step 0 never ends and is left out;
  - values are small integers, and the client's functions are fixed.
- String library: `format`, `char`, `upper`, `lower`, `dump` and the
  repository's `string.at`; `gsub` with a function replacement (a call
  into Lua) and position captures in a replacement. Malformed patterns
  raise a Lua error and are not given to the model. The C stack depth of
  `match`'s recursion is not modelled. `add_s` turns a `%` at the end of a
  replacement into a `'\0'`; the manual is silent on it and no
  replacement of the run ends in `%`.
- Auxiliary library: the argument checkers and error helpers (wrappers
  over the C API), `luaL_findtable`, `luaL_loadfile`/`luaL_loadbuffer`
  and `luaL_newstate`.
- Base library: everything but `unpack`, `select`, `ipairs`, `tonumber`
  with a base, `pcall`, `error` and the coroutine functions. Base 10 goes
  through `strtod` in `lobject.c`, which is absent. `lua_resume`,
  `lua_yield` and `lua_error` (`ldo.c`, absent) follow the C API manual:
  a yield inside a `pcall` or a module body raises ("attempt to yield
  across metamethod/C-call boundary"), as does a yield from the main
  thread. Values passed through `resume` and `yield`, and the message a
  wrap function adds with `luaL_where`, are not modelled: no property
  depends on them. The arguments
  of `unpack` are converted with `(int)luaL_checkinteger`, which truncates
  a number outside the int range; the run keeps its bounds inside it.
- Package library: which files `readable` opens and `luaL_loadfile`
  compiles, and which libraries and functions `ll_load`/`ll_sym` find, are
  constants (file-system I/O and dynamic linking); `ll_register`'s cache
  of library handles is not modelled, nor is `mkfuncname`'s `luaopen_`
  name (the module stands for it). `module`'s name-conflict error
  (`luaL_findtable` meeting a non-table global) and the fields `modinit`,
  `setfenv`, `dooptions` and `seeall` write are not modelled; nor are
  `loadlib` and `gctm`. A body's return value is always a true value: a
  body returning `false` makes `ll_require` store `false`, and the next
  `require` of the name runs the body again.
- `liolib.c`, `loslib.c`, `ldblib.c`, `lmathlib.c` and the interpreter
  driver wrap the C library, the C API and the operating system.

## 7. Plan

Next sittings, in order:

1. A body returning `false` in `LRuntime`, with a property saying what
   the manual promises of it.
2. An `end_capture` undo case and a `-` pattern in the gmatch set.
3. The constructor's block-valued last item.
4. An abstract `LexicalScopes` specification for `LParser`, shown
   implemented with `INSTANCE ... WITH`.
