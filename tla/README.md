# C Survival Kit in TLA+

A verification of the C Survival Kit (`survival_kit/`): its emulation of
exceptions and scope guards with `setjmp`/`longjmp`, the containers and strings
that emulation stands on, and what is built with them: streams, a parser, the
shared state of threads.  TLA+ modules are written from the C source and its
macros, TLC checks them on small instances, and the proof system TLAPS checks
theorems about them for every value of the constants.

    tlc -config MCFeatureEmulation.cfg MCFeatureEmulation
    tlapm InheritanceTableProofs.tla

## 1. The system

| component | files | state | operations | proper behaviour |
|---|---|---|---|---|
| exception machinery | `feature_emulation/try_catch.h`, `throw.h`, `trace.h`, `exception.c`, `thread_context.c`, both `init.h` | per thread: `exc_jmp_stack`, `try_jmp_stack`, `exc_instance_stack`, `debug_info_stack`, `entry_check_count`; per function: the locals of `SKIT_USE_FEATURE_EMULATION` | `sTRY`, `sCATCH`, `sEND_TRY`, `sTHROW`, `SKIT_THROW_EXCEPTION`, `sTRACE` | a throw lands in the innermost open construct, in a function that is active; the context lives exactly as long as a construct is open |
| scope guards | `scope.h`, `compile_time_errors.h` | `scope_jmp_stack`; per function `scope_guards_used`, `exit_status`, `scope_fn_exit` | `sSCOPE`, `sSCOPE_EXIT/SUCCESS/FAILURE`, `sEND_SCOPE_GUARD`, `sEND_SCOPE`, `sRETURN` | every guard is visited once, the last first, however its function is left |
| inheritance table | `inheritance_table.c` | parent of each index, owner of each index | register, re-register, `skit_is_a` | ids are stable and unique in any order of registration; `skit_is_a` is ancestry |
| exception registry | `exception.c` | names and default messages, parallel to the table | `skit__register_exception` | each code has a message, no write outside the arrays |
| linked stack, free stack | `templates/stack.c`, `templates/fstack.c` | linked nodes, ends, lengths | push, append, pop, dup, reverse, alloc, walk | they are sequences; nodes keep their place |
| library and thread initialisation | `init.c`, `init.h` | `skit__init_called`, a pthread key, buffers per thread | `skit_init`, the entry and exit of a thread | a thread with a context has its buffers |
| signal handling | `signal_handling.c` | the process's handler, a saved one per thread | push and pop of a handler | the former handler comes back |
| trie | `trie.c` | radix tree of nodes with small or large tables of branches, iterator count | get, set, iterate, remove (a stub) | a map from keys to values; prefix iteration in order |
| strings | `string.c` | loaf (owner, on the stack or the heap), slices with 28-bit lengths | resize, append, buffered append, store, assign; find, trim, compare, partition, escape | blocks have one owner; a slice keeps its text while the loaf moves |
| arrays, bag | `templates/array.c`, `bag.c` | elements in a loaf; fields in a block | put, append, grow, filter; get, set | sequences; fields do not overlap |
| streams | `streams/` | a table of functions per class; text and cursor, file, socket, indentation | open, close, `readln`, `read`, `append`, `appendf`, `slurp`, `flush`, `rewind` | the text once and in order; what is opened is closed |
| parser | `parsing/` | cursor, match, message; a keyword index shared by threads | combinators as macros, keyword lookup, traces | backtracking restores everything; the index is built once |
| small things | `flags.c`, `path.c`, `datetime.c`, `regex.c`, `math.c`, `misc.c`, `cstr.c`, `memory.c`, `macro.c`, `assert.h` | none of their own | conversions | they invert |

**Interaction.**  Everything but the templates uses the exception machinery, and
each thread has a context of its own.  A context is five free stacks; `sCATCH`
asks the exception registry, through `skit_is_a`, whether a code matches; a free
stack is two linked stacks that exchange nodes.  Arrays, text streams and the
trie keep what they hold in loaves; an indenting stream passes everything on to
another stream; a parser reads a slice, asks a trie for keywords, and its index is
shared by all threads.

**What is hard here.**  One construct is spread over several macros which meet
again through the return codes of `setjmp`, and control leaves it in as many as
six ways: by its end, by a throw from its body, a throw from its handler, a
return, a `break`, and a throw out of an untraced callee.  Each way pops stacks
that all functions of the thread share.  Nothing in the language checks the
balance.  No unit test reaches more than two nested constructs with one of those
exits.  Elsewhere it is memory that moves under slices, state that a stream
carries from one call to the next, macros of a parser that share two variables
with all macros around them, and state that threads fill on first use.  The list
of such places, line by line, is in `PROJECT.json` ("hazards"), with the
properties that watch them.

## 2. Modules

    IsA ── InheritanceTable ── ExceptionRegistry
     │            │                     │
     │            └──── InheritanceTableProofs (of both)
     └── FeatureEmulation ── implements ── StructuredExceptions
                  └ FeatureEmulationProofs ── FeatureEmulationControl ── FeatureEmulationRefinement
    StackList ─┬─ Stack  ── implements ── AbstractStacks
               │    └─ StackProofs (of both)
               └─ Fstack ── implements ── AbstractFreestack
                                        (how FeatureEmulation sees a stack)
    KeyOrder ── Trie ── implements ── AbstractMap
                 └ TrieProofs
    StringFunctions ─┬─ Conversions ─┐
                     ├─ Peg ─────────┼─ Texts
                     │        Bag ───┤
                     │               └─ UnitTests (with LoafTests, StreamTests)
                     └─ Streams ── StreamCalls ── held against ── AbstractStream
                            └ StreamTests
    Loaf ─┬─ LoafTests
          └─ LoafProofs
    Threads ── ThreadsProofs

### FeatureEmulation

The machinery for one thread that runs *any* program made of the macros; the
next action of the program is a free choice within the rules the library states.

* `frames`: the active functions with their locals (`skit_thread_ctx`, which
  caches the pointer to the context, `skit__try_catch_nesting_level`,
  `scope_guards_used`, `exit_status`, `scope_fn_exit`).
* `blocks`: the constructs control is inside of, in order: the truth that the
  jump stacks should mirror.  An `sTRACE` keeps here the stack positions that it
  saves in locals of its function.
* `ctx`: the thread context.  A jump is the construct it resumes and the depth
  of the control stack there; `exc_nodes` with `exc_used` is the free stack of
  exceptions, cells above the length included, because `sCATCH` uses them.
* `pc`: where a macro is between two of the program's statements: `"propagate"`
  (in `skit_propogate_exceptions`), `"land"` (in the code after a `setjmp` that
  returned non-zero), `"visit"`/`"visited"` (in a scan of the guards), `"break"`,
  `"leaving"`, `"dead"` (the library stopped the program) and `"crashed"`
  (undefined behaviour: a jump to a function that returned, an empty stack).

| action | code |
|---|---|
| `Call`, `Return` | a function that uses the macros; `sRETURN` and `sEND_SCOPE` |
| `sTRACE`, `sTRACE_End`, `LandInTrace` | the three parts of `SKIT_TRACE_INTERNAL`, with reconciling |
| `sTRY`, `EndOfTry`, `EndOfCatch`, `BreakOut`, `ThrowBreak` | `sTRY`, `SKIT__TRY_END_OF_BLOCK_WRAPUP`, the break path of `sEND_TRY` |
| `sCATCH`, `LandInTryUnhandled`, `LandInCatch` | the `switch` on the code of the `setjmp` |
| `sTHROW`, `SKIT_THROW_EXCEPTION` | both throws |
| `skit_propogate_exceptions`, `LandAtBottom` | the jump, and the end of an uncaught exception |
| `FirstGuard`, `NextGuard`, `RunGuard`, `PassGuard`, `sEND_SCOPE_GUARD`, `EndVisit`, `EndScan` | the scan and its visits |
| `LandInScope`, `LeaveScope`, `LandInGuard` | the handlers of unplanned exits and of a throw in a guard |

The constant `Uses` switches on what a program does beyond plain use, so that a
run can show what follows from each: a `break` out of `sTRY` or `sCATCH`, guards
in the function that made the context, a throw that leaves a guard.

Excluded, because the library's compile-time checks exclude it
(`compile_time_errors.h`): `return`, `goto` and `break` out of guards, `return`
out of an `sTRY`, nested guards.  Excluded because no source does it: the first
guard of a function inside an `sTRY` (listed as a hazard).  Locals keep their
values over a `longjmp`, as in the library's build at `-O0`.

`StructuredExceptions` is what the macros emulate: a stack of calls, each with its open
statements and its waiting guards, and a throw that unwinds that stack.  It has no
jumps, no context and no `sTRACE`.  `ImplementsStructuredExceptions` maps `frames`,
`blocks`, the entries of `scope_jmp_stack` and the codes in `exc_nodes` to it, and a scan
or a propagation to `"throw"` or `"return"`.  Where a throw goes, which guards run
on which exit, in which order and how often, and which code arrives are properties of
that module that the jumps have to reproduce.  What it leaves to the program is the
code of a throw, and so of a rethrown exception (section 5 has the reason).

### InheritanceTable, IsA, ExceptionRegistry

`skit_register_parent_child_rel` is one action, the implicit registration of the
parent and the address comparison of `skit_inher_id_is_initialized` included.
The variables start with any value of `InitialIds`, as C variables do: also with
a value that is some other variable's index.  `skit_is_a` is `IsA.tla`, the walk
with its `last_parent`, as a recursive function.  `ExceptionRegistry` extends the
table with the arrays that `skit__exc_resize` grows; writing beyond an array
sets `overran`.  The names array is treated exactly as the messages array and is
not repeated.

### StackList, Stack, Fstack and what they implement

`StackList` has the operations of `templates/stack.c` on a heap of nodes with
`next` pointers, `Stack` the state machine of several lists over one heap.
`AbstractStacks` is sequences; `ImplementsSequences` is the refinement.  `Fstack`
is `templates/fstack.c` over the same operators; `Turned` and `Walked` are one turn of
the loops of `stack_reverse` and `stack_walk`; `AbstractFreestack` is an array
of cells with a boundary that push and pop move; `ImplementsArray` is the
refinement, and is what allows `FeatureEmulation` to model a free stack as a
sequence and a length.

### Trie and AbstractMap

`Trie` is the radix tree of `trie.c` with a heap of nodes: linear nodes (a string
of at most `PREALLOC` characters to one child), multi-nodes (a character to each
of a few children) and table nodes (an entry for every character).

* `nodes`, `root`, `length`, `iterator_count`: the fields of `skit_trie_node` and
  `skit_trie`; `longest` is the length of `key_return_buf`, from which iterators
  take the size of what they allocate.
* `opened` and `iters`: the iterators that exist and their frames, the index of the
  previous frame, the key written so far and the sizes of both allocations.

`skit_trie_next_node` and `skit_trie_find` are the lookup with its three kinds of
nodes and, without regard to case, its backtracking; the `split` operators map a
heap to a heap, one for each function of the source.  `skit_trie_set` is one
action with an alternative for each way it ends; a call that throws because
of an open iterator changes nothing and is a stutter.  `skit_trie_iter_new`,
`_next` and `_free`, `skit_trie_ctor` and `skit_trie_dtor` are an action each;
`_next` runs the recursion of the source up to the next value.

`AbstractMap` is what `trie.h` promises: a map, requests that obey the flags "c",
"o" and "i", and iterators that yield the keys of a prefix once and in order, over
a map nobody writes to meanwhile.  `Contents` and `Remaining` read the map and what
an iterator has left out of the nodes; `ImplementsMap` is the refinement.

The refinement holds for programs that never hold three keys of which each is a
prefix of the next (without regard to case); `trie_chained` shows what a lookup
does when they do.  `MCRequests` respects that, for every subset of its keys.

The keys that get and set hand back are left out, as the contents of
`key_return_buf` influence nothing else.  They deserve a model of their own: a table
node writes the caller's character there instead of the stored one
(`trie.c:324`), so a lookup without regard to case can return a key of mixed origin.
Left out too: `skit_trie_remove` (a stub that only refuses under iterators), drawing, and
`skit_trie_enforce_valid_flags`, whose condition is inverted and which rejects nothing.

### StringFunctions, Conversions, Bag, Peg and Texts

These have no state of their own, so they are operators and functions.  A text is
a sequence of bytes, and a slice is its text: where that matters, it is `Loaf` that
keeps offsets.  `StringFunctions` is the part of `string.c` that reads slices:
`skit_slice_of` with negative indexes, comparing (with signed characters where the
code has them), trimming, truncating, matching, finding, partitioning, escaping.
`Conversions` has flags, paths, dates and times (`SKIT_GEN_DATETIME_PARSING_FUNC` as
an interpreter of formats: elements, optional parts, what is assigned although the
parse fails), `skit_ipow` and the state machine of `regex.c`.  `Bag` lays fields out
in a block.

`Peg` is the parser.  A grammar is an expression, one constructor for each macro, and
`Eval` runs the macros' code over the state they share: `match`, `new_cursor`, the last
message and the calls to actions and to `branch_discard`.  The built-in rules, keyword
lookup with its suffixes, and the quoting of lines in a trace
(`skit_peg_get_line_bounds`, `skit__peg_on_entry`, `skit__peg_on_exit`) are there too.

`Texts` is the state machine that drives them: two texts, typed one character at a
time on a keyboard with the characters that a question needs.  Each property is a
conjunction of what the functions promise about any two texts.  `UnitTests`,
`LoafTests` and `StreamTests` are the repository's unit tests of these
components, as assumptions TLC evaluates at the start of the run `texts`: the model
passes the tests the code passes.

### Loaf

`Loaf` is the memory of strings and arrays.  `heap` maps addresses to blocks; a loaf
is a handle with its length, at the block `at`, whose characters lie in the block or,
once they have outgrown a block of the caller's, in one of their own.  `slice` is one
slice that the program keeps, `stride` the size of an element: the arrays of
`templates/array.c` are loaves with all lengths multiplied, and the actions of both
are the same.  A new block takes a free address, no matter which, and holds junk.  Sources of a call are a
literal, a loaf, a part of one, and the loaf itself; what C forbids (`memcpy` of
overlapping ranges, a slice of a freed loaf) the actions' guards leave out.

### Streams, StreamCalls and AbstractStream

A stream is a record with its class, a method an operator of the stream and its
arguments that yields the stream and the result.  The C library's `FILE` (text,
position, end-of-file and error flags that stay set, what is on the disk) and the
socket (what the peer sends, what was sent, whether it is open) are parts of the
record, marked external.  `os` says what the system does with one call.  The
indenting stream holds another stream.

`StreamCalls` is a program that makes any sequence of calls on a stream of any class
and an operating system that gives descriptors, refuses them, delivers bytes in any
pieces, hangs up and resets.  `laid_out` is the text an indenting stream should have
produced, kept apart from the stream, and `short_rest` whether it was given a text in which no more
characters follow a newline than the newline has; both are history variables, which no guard reads.

`AbstractStream` is what `stream.h` promises: a text, a position, and results that are the text from the
position to where the method says it ends, a null slice at the end, and nothing done by a call that throws.
Its actions are methods, not classes, and it makes no allowance for what a class does otherwise.  The code does
not implement it.  `StreamCalls` therefore states one promise for each method that breaks one (`LinesAsPromised`,
`BlocksAsPromised`, `ScansAsPromised`, `SlurpsAsPromised`: TLC violates each, sections 3 and 5), and
`ReadsGoOn`, which holds for files in modes `"r"` and `"a+"`: every step is one of `AbstractStream` or one of seven departures.  A departure is
an action of its own that says in which class and state it happens, and what exactly is returned and
what becomes of the position:

| departure | where |
|---|---|
| `ExtraByte` | `readln` of a file's last line, if it has no newline (`pfile_stream.c:242`) |
| `EmptyForNull` | `read` at the end of a file whose flag is not set (`pfile_stream.c:335`) |
| `Unassigned` | `read_fn` at the end of a file or connection (`pfile_stream.c:418`, `tcp_stream.c:230`) |
| `WholeText` | `slurp` of a text stream (`text_stream.c:393`) |
| `ShortRecv` | `read` and `slurp` of a connection give fewer bytes than they should, the next ones (`tcp_stream.c:168`) |
| `LostAfterError` | a read of a file that failed a write takes its bytes and throws (`pfile_stream.c:348`) |
| `SilentFailure` | `appendf` to a file that is read-only returns (`pfile_stream.c:501`) |

With any one of them taken away TLC finds `ReadsGoOn` violated.

### Threads

Threads between two calls are `"idle"`; every step in which another thread can see
something is an action: the steps of `skit_init`, each mutex, each keyword that is
added to an index, the search after the mutex was given back.  `EarlyThreads` may come before
`skit_init` has returned, all others only after it.  An index of the caller's may be
destroyed and made again while no lookup uses it.  Any thread of `Tracers` pushes and pops the handler at any
time.  Two history variables, which no guard reads, keep the thread that pushed when no other had (`first`) and
whether it popped when another had not (`overlapped`).

## 3. What is checked

| run | what it shows |
|---|---|
| `exceptions` | for every program within the bounds: the jump stacks are exactly the open constructs of active functions (`JmpStacksMirrorControl`), the context is freed with the last construct and no earlier (`EntryChecksBalanced`), exceptions are stacked exactly while they travel (`PendingExceptions`), guards belong to active functions (`GuardsBelongToActiveFrames`), the program sees exceptions and guards as a language has them (`ImplementsStructuredExceptions`), no undefined behaviour (`NeverCrashes`), every throw ends (`UnwindingEnds`) |
| `inheritance` | the table in any order of registration: ownership (`OwnersHoldTheirIndex`), ids that never change (`IdsNeverChange`), `skit_is_a` is ancestry (`IsAIsAncestry`) |
| `exception_registry` | with parents first, every code has its message (`EveryCodeHasAMessage`), no array is overrun (`NeverOverruns`) |
| `stack` | two linked stacks are two sequences (`ImplementsSequences`), their ends agree with their nodes (`EndsAgree`); a free stack of the same nodes is an array with a boundary (`ImplementsArray` of `Fstack`, here `FreeImplementsArray`), and for every start and end a walk of it visits one unbroken range, which is exactly said (`WalksOneRange`, here `FreeWalksOneRange`) |
| `trie` | the tree is a map (`ImplementsMap`, `GetFindsTheValue`, `SetObeysFlags`) whatever the order in which keys share, split and fill nodes; the shape the splits assert and the tests for a table rely on (`RadixShape`); iterators stay within what they allocate (`IteratorsFit`); the trie stands still under them (`WritesWait`) |
| `texts` | for all texts of the keyboards: finding, trimming, partitioning and joining lose nothing (`SlicesKeepTheirText`), comparison is an order and respects case or not (`ComparisonIsLexicographic`), flags, paths, times, escapes and bags come back as they went (`ConversionsInvert`); a parse accepts what its grammar means (`MatchAgreesWithGrammar`), the actions that survive are those of the branches taken (`DiscardsUndoAbandonedActions`), a trace quotes the line it is at (`TracesQuoteTheLine`) |
| `strings` | under any order of calls on two loaves: the text ends where its terminator is (`LoafTerminated`), each block has one owner (`EveryBlockHasOneOwner`), each call leaves the text its comment gives it, whatever moved (`CallsWriteWhatTheySay`) |
| `streams` | any sequence of calls: indents do not depend on how a text is cut into appends, if none had a short rest (`IndentIndependentOfCuts`), descriptors are neither lost nor closed twice (`HandlesAreKept`), newlines are on the disk (`NewlinesReachTheDisk`), every call does what `stream.h` promises or is one of seven departures, each exactly said (`ReadsGoOn`) |
| `threads` | no lookup reads an index that is being filled (`LookupsSeeTheWholeIndex`), a thread with a context has its buffers (`EnteredThreadsHaveBuffers`), a lookup that began ends (`LookupsEnd`); however two threads push and pop the tracing handler, the former handler comes back when both have popped, unless the first to push popped before the other (`HandlersComeBack`) |

Three runs show where the code departs from what it says of itself; each is a finding in
`PROJECT.json`, with the quoted line.  Section 5 has the others that TLC shows, each with the change of a
constant or the property that it takes:

| run | what happens |
|---|---|
| `exceptions_guards_at_root` | an exception thrown by an untraced callee into a function that made the context and has guards: the scan frees the context, and the exception goes on without it |
| `trie_chained` | a key that ends within a node's string is taken for the key that ends at the node: `get("xab")` finds the value of `"x"` |
| `streams_lines` | a last line without a newline comes with a null byte that the file does not have (`LinesAsPromised`) |

### Bounds

`exceptions` (668,120 states) has three active functions, at most seven functions
and open constructs together, four entries of `scope_jmp_stack`, one `break` per
function, two exceptions in flight and three codes (two roots and a child).
That is enough for a function with a guard, called through a trace, from a
handler, which throws while the first exception's guards run, and for a guard
whose body opens an `sTRY` of its own.  `MaxFrames`, `MaxDepth`, `MaxBreaks`,
`MaxGuards` and `MaxExceptions` occur only in guards of the program's own actions
(and in the size of `exc_nodes`), never in a step of the macros.

`inheritance` has four variables, hence chains of three parents, two trees and
implicit roots, with initial values below the table, at index 0 and at an index
given out later.  The stacks have four nodes, hence three in a list and one that
moves; nodes are symmetric, as they are only compared.  A program may give its nodes, once its stacks are
empty, to a free stack with whatever `next` they have (`stack` has 1,769 states).

`trie` has five characters (NUL, two digits, a letter in both cases), nodes of
three characters, keys of up to four and at most five stored keys: a string of
four characters takes two linear nodes, a fourth branch makes a table and a fifth
is added to one, branches split off at the start, in the middle and at the end of a
string.  There is one iterator, opened, advanced and freed at any moment; several
meet only in `iterator_count`, which `TrieProofs` treats for any number of them.
`MaxLength` bounds the keys the program sets.

`texts` types a first text of up to six characters and a second of up to three, from
eight alphabets.  A function of a slice distinguishes a character by its class (white
space, delimiter, letter of either case, byte above 127, part of a newline) and by
whether it is at an end: four characters put one of each class inside and at both
ends.  Lines take six, for a newline of two characters on either side of a short line.

`strings` (64,930 states) has two symmetric loaves, one slice, elements of one and two
bytes, texts of up to three characters (`MaxLength`, which bounds what any two loaves have
together), two addresses for structures and two for characters: a block that grows has one place to move to, and the other loaf
competes for it.  Buffers of the caller's are of every length within the bound, so that a
loaf leaves its buffer, with any number of characters in it.  A byte is the terminator, junk
or the one byte of the literals, which is enough to tell what a call wrote from what was there;
the theorems of `LoafProofs` are for all bytes.

`streams` (393,223 states) has a stream of each class, the indenting one over a text
stream; texts of up to three characters (`MaxText`) of a letter and a newline; buffers of one and
three characters (`Blocks`) and chunks of three where the code has 1024 (`Chunk`), so that a
text fills one exactly, overflows it, and takes two; modes `"r"` and `"a+"`; two descriptors, from 3 on.
The program never connects what is connected; `fclose` succeeds; formats' arguments have no newline.
Texts appended to an indenting stream have rests of no, one and two characters after a newline.  
`streams_lines` has one file of one character, so that the trace is of nothing else.

`threads` (227,103 states) has three threads, one of which may come before `skit_init` has returned,
two keywords, hence an index that is neither empty nor full for a while, the index of the process
and one of a caller's, and one lookup of each thread.  A third lookup thus comes when the index was
filled by the first and is made anew, or is of the other index.  Two threads (`Tracers`) push and pop the handler:
that is two overlapping in either order, or nested, at any step of the third.

**Deadlock** is checked everywhere but in `texts`, where the typing ends.  A program that
was stopped stutters in `FeatureEmulation`.

**Fairness.**  `UnwindingEnds` needs `WF_vars(Machine)`: a macro that has started runs
on, as straight-line C does.  The program is not assumed to finish a handler, a
guard or a function.  `LookupsEnd` needs weak fairness of each thread's own steps
within a lookup: a thread that holds a mutex gets to release it.  Nobody has to
begin a lookup, and nothing is assumed about which thread gets a mutex: as each
thread has finitely many lookups, the others cannot hold it for ever.

## 4. What is proved

`InheritanceTableProofs`, for every finite set of variables and any integers as
initial values:

* `TableIsSound`: `Spec => [](TypeOK /\ OwnersHoldTheirIndex)`.  Typing alone is
  not inductive: a re-registration writes at the child's id, which is an index
  only because `skit_inher_id_is_initialized` says so, and the id of an owner
  could be overwritten when another variable is added.  The invariant therefore
  joins the types, the ownership (the owner of index *i* holds *i*) and the
  domains of the two arrays; ownership makes an added variable a non-owner, so
  giving it an index touches no owner.
* `IdsStay`: `Spec => IdsNeverChange`, from that invariant.
* `CodesHaveAncestors`: `~ RootMayMove => (Spec => []IsAIsAncestry)`: `skit_is_a`
  answers for tables of any size whether one code is the other or above it.  The invariant
  added is `Tree`: index 0, once there, is a root, and no walk up goes round.  From it,
  by induction over the steps of a walk (`Induction`, from the well-foundedness of `<` on the
  numbers): a walk as long as the table stays at the root it meets (`WalkEnds`); what it
  meets is the least set closed under parents (`AncestorsMet`); and the loop, which stops when
  a parent equals the one before, a comparison that begins with index 0, has seen all of it
  by then (`AncestorsFound`).  Both parts of `Tree` are guards of the registration: a program
  that makes a cycle has no tree, and the hypothesis is what section 5 shows to be needed.

`FeatureEmulationProofs`, for every table of codes, catch lists, guards, uses and
bounds:

* `TypeCorrect`: `Spec => []TypeOK`.  The types say more than shapes: an `sCATCH`
  block has a caught exception, the number of exceptions stays between 0 and
  `MaxExceptions`, every local pointer is one of three.  The strengthening
  carries what `pc` implies about the ends of the stacks and about room for the
  exception of a break, and that a landing finds its target on a jump stack.

`FeatureEmulationControl`, for every such program whose uses beyond the plain ones are
at most `BreakInTry` and `CalleeEscapesGuard`, however many functions, constructs,
guards and exceptions it has:

* `JmpStacksMirror`, `EntryChecks`, `PendingCounted`, `GuardsBelong`, `Crashless`:
  `PlainUses => (Spec => []P)` for the five safety invariants of the run `exceptions`.

`PlainUses` is no more than is needed: each of the other four uses makes one of these
properties, or `UnwindingEnds`, fail (`exceptions_guards_at_root` and section 5).  The
hypothesis is on the constant `Uses`, and the run `exceptions` satisfies it.

None of the five is inductive, nor are they together.  A mirror of the jumps says nothing
of what an `sTRACE` saved in its locals; the balance of entry checks breaks at the end of a
construct of a function whose pointer dangles; and a throw out of a scan is only safe
since the guards that wait are those of the innermost function.  `CInv` joins to the typing:

* `Nested`: the open constructs are in the order of the functions, the scan of a
  function is the last of its own constructs;
* `StacksFit`: `exc_jmp_stack`, `try_jmp_stack` and `scope_jmp_stack` list the
  constructs, and each construct remembers the positions below it;
* `ScopesFit`: which functions have an open scope, and where their guards begin;
* `PointersFit`: which functions see the context, which see none;
* `Counted`: the entry checks owed, the nesting levels, the exceptions pending;
* `ThrowsFit`, `ThrownClear`: an exception that travels is one which the constructs around
  the guards of interrupted functions do not catch below those guards;
* `LandsRight`, `BreaksRight`: a landing and a break are of the innermost function;
* `AtRest`, which is all that remains where the library has stopped the program.

Macros pass through states where a check is counted and not yet owed; the last parameter
of `Core` is that difference, so that the parts of a macro have lemmas of their own and
meet where it is 0.  `FeatureEmulationProofs` has a lemma for each conjunct and each way
in which constructs or stacks change; `FeatureEmulationControl` has one for each action,
from which `CInvInductive` follows.  TLC checks `CInv` in the bounds of `exceptions`.

`FeatureEmulationRefinement`, for the same programs:

* `StructuredlyThrown`: `PlainUses => (Spec => ImplementsStructuredExceptions)`.  The
  macros do what `StructuredExceptions` says: every step of a macro is one of its steps,
  or is not seen there.

The mapping reads a call's statements and guards off `blocks` and `scope_jmp_stack` with a
filter.  That such a filter is defined, and what a construct or guard more or less does to it, is
proved once, by induction on its length (`KeptNext`, `StatementsGrow`, `GuardsOfPush`); from there on
two states are related through `Seen`: these calls are what is shown of these functions,
constructs and guards.  A lemma for each way in which calls change (`Begins`, `Finishes`,
`Calling`, `Cutting`, `Registering`, `Visiting`) leads from the stacks to the calls, one for each
action of `StructuredExceptions` (`IsThrow`, `IsUnwind`, ...) from there to its step, and
one for each action of the macros (`ThrowRefines`, `PropagateRefines`, ...) puts them together.
`CInv` gives most of what these need: that a jump leaves only functions without statements
and guards (`Cutting`), that a landing is in the innermost function, that the guard visited
is one of the function that scans.  Two facts it does not give, and `MInv` adds:

* `ExitsFit`: a scan goes on after a return exactly if `exit_status` is `success`: the macros
  choose a guard by `exit_status`, `StructuredExceptions` by what will be resumed;
* `Waited`: an open scope whose function does not scan has a guard waiting.  Without it a
  function could return through a scan that has nothing to visit, which is two steps of the
  macros that show as a `Return` that should have been one.

`InheritanceTableProofs` also, for all codes, initial values and orders in which a
parent is registered before its child (`ParentsFirst`: the order in
which `skit_init` runs the registrations of its modules):

* `MessagesFit`: `RegSpec => []NeverOverruns`, and `MessagesThere`: `RegSpec =>
  []EveryCodeHasAMessage`.  The invariant adds to that of the table that the array
  has a message at each index of the table and at no other: then a new code finds
  the array one short, and `skit__exc_resize` makes exactly the room it needs.
  Without `ParentsFirst` the implicit registration of a parent adds an index the
  array does not follow (section 5).

`LoafProofs`, for any number of loaves, literals, addresses and sizes of elements:

* `OneOwner`: `Spec => []EveryBlockHasOneOwner`.  The invariant, `Owned`, is about a heap
  and loaves given as parameters: a function of `string.c` is a composition of
  operations on one loaf and the heap, between which the program's variables are not up to
  date, and each operation has a lemma of its own (`WriteFits`, `EmplaceFits`, `ResizeFits`,
  `FreeReleases`).  It adds to the property that no loaf owns a block that is free and that a
  second block was allocated with `malloc`.  That an address is left for every loaf
  without a block is the pigeonhole principle (`Pigeons`); the assumption is that the heap has as many
  addresses of each kind as there are loaves.
* `Terminated`: `NoWrap => (Spec => []LoafTerminated)`, and `CallsWrite`:
  `NoWrap => (Spec => []CallsWriteWhatTheySay)`.  The invariant is `Settled`: every block has its
  owner and the size its loaf says, with the null byte behind it, literals are what they
  were, and the slice that the program keeps lies in a loaf.  `Local` carries the proof:
  an operation touches blocks of its own loaf and free ones, so that by `Owned` the other loaves and
  the literals keep their characters (`LocalKeeps`).  What a call leaves is said per
  character (`Continues`, `Written`, `Resized`), and equality of texts only at the end.
  `NoWrap` bounds constants: no literal and no element has 2^26 bytes or more, nor do two loaves together.
  Without it the properties do not hold, as lengths wrap at 2^28 (section 5) and a buffered append
  asks for half as much again as the sum of two; the run satisfies it.

`Settled` was model-checked in the bounds of `strings` before it was proved.

`StackProofs`, for any finite set of nodes, any values and any number of stacks:

* `StacksFit`: `Spec => []EndsAgree`, and `StacksAreSequences`: `Spec =>
  ImplementsSequences`.  The invariant, `Shape`, says of each struct that there is a list of nodes
  without a repetition which `front` and the links lead through to a NULL, with `back` and
  `length` as they should be, and that no two structs share a node.  `EndsAgree` alone
  is not inductive: two lists that run into each other satisfy it, until something is
  pushed on one of them.
* `FreeStacksAreArrays`: `Free!Spec => Free!ImplementsArray`, and `WalksAreRanges`:
  `Free!Spec => []Free!WalksOneRange`, where `Free` is `Fstack`, of which the module makes an
  instance over the same heap.  The latter is for every start and every end, those included where the code
  departs from `fstack.h`, for which the property says what it walks instead.  `FreeShape` says of `used` and `unused` what `Shape` says of a
  program's stacks; the cells of the abstract array are `unused` behind the reversed `used`.

The loops of `stack.c` are recursive functions of the number of turns taken.  That they
are defined for every number of turns (`WalkLoop`, `TurnLoop`, `CopyLoop`), and what holds after each
(`WalkedTo`, `TurnedTo`, `CopiedTo`), is shown by induction: `Least` and
`Induction` state it for a *set* of numbers, from the library's theorem on minimal elements, so
that no operator has to be instantiated.  That as many turns as there are nodes suffice is the
pigeonhole principle (`ChainFits`).  Only the lemmas on lists look at links
(`Pushed`, `Appended`, `Popped`, `Reversed`: what an operation does to one list, and to
nothing else in the heap); the two refinements and `WalksOneRange` follow from these and from
facts about sequences.

`TrieProofs`, for all keys, requests and prefixes and any finite set of iterators:

* `IteratedTrieStands`: `Spec => WritesWait`.  The guards look at `iterator_count`
  and the property at the open iterators, so the invariant (`CountInv`) says that
  the one counts the other, and that a destroyed trie has no iterators; without
  the latter the constructor, which sets the count to 0 without looking, would
  break it.

`ThreadsProofs`, for any threads, keywords, indexes and number of lookups:

* `WholeIndexes`: `Spec => []LookupsSeeTheWholeIndex`.  Lookups read the index
  after they gave its mutex back, so holding the mutex cannot be the reason.  The
  invariant (`IInv`) says that an index whose suffix table is set has all its keywords unless
  the thread that owns its mutex is filling it, that the owner is the thread whose
  `pc` says so, and that `destroy` finds no reader.
* `EnteredInitialised`: `OneEarly /\ Spec => []EnteredThreadsHaveBuffers`, under the
  assumption that exactly one thread comes before `skit_init` has returned.  The
  invariant (`EInv`) says that only this thread can be within `skit_init`, and that what
  the key tells of a thread is true of its buffers.
* `HandlerRestored`: `Spec => []HandlersComeBack`.  The actions let threads push and pop in any
  order; the property excepts, by `overlapped`, the orders that lose the program's handler.  Until then
  (`HInv`), if any thread has pushed, the first one has and it is the one that saved the program's handler;
  who pushed after it saved the tracing handler and restores that.

All follow from the named assumptions on the constants only (`...Assumption`), which
TLC evaluates in the runs, and from `PlainUses`, `OneEarly`, `NoWrap` and `~ RootMayMove` where the theorems state them.

**Only model-checked:** the refinement of the trie; the rest about the trie; all about texts and streams, whose
properties are about what folds and recursive functions on sequences compute; and the two
liveness properties.

## 5. Where the code departs from what it says

What the violation runs show is in section 3.  What follows was met while
translating; "TLC" marks what a change of a constant shows.

Exceptions and guards:

* a `break` out of `sTRY` in a function with guards: the nesting level stays at 1,
  the scan is skipped, and the scope handler throws to itself for ever
  (`try_catch.h:255`, "This acts as if we first leave the TRY-CATCH and then
  thrown.").  TLC: `Uses = {"BreakInTry", "BreakUnderGuards"}` violates `UnwindingEnds`;
* a `break` out of `sCATCH` pops one of the two jumps of its statement
  (`try_catch.h:252`).  TLC: `Uses = {"BreakInCatch"}` violates `JmpStacksMirrorControl`;
* the caught exception sits in a freed node, and the next throw overwrites it while
  the block still uses it (`try_catch.h:214`), although a popped node's data
  may be used "as long as no other freestack functions are called on the stack during
  the pointer's usage" (`templates/fstack.h:184`).  TLC: `CaughtExceptionIntact` is violated;
* a throw written in a guard starts a second scan and never gets to the guard's
  own jump point (`scope.h:322`; `scope.h:192`, "We set another jump point to
  catch any exceptions").  TLC: `Uses = {"AnyEscapesGuard"}` violates
  `GuardsBelongToActiveFrames` and `NeverCrashes`.

Registration:

* re-registering a code under a parent without an index, then registering that parent,
  writes beyond the message arrays (`exception.c:117`; `inheritance_table.h:5`, "allows
  out-of-order initialization and reassignment of parents").  TLC: `ParentsFirst = FALSE`
  violates `NeverOverruns`;
* once index 0 of a table has a parent *p*, `skit_is_a(0, p)` is 0
  (`inheritance_table.c:167`).  TLC: `RootMayMove = TRUE` violates `IsAIsAncestry`.

Containers:

* `fstack_walk` from a node below the top of the used part begins at the top
  (`templates/fstack.c:180`), and if the end comes before the start it goes on to the last node
  (`templates/fstack.c:174`; `fstack.h:197`, `204`).  TLC: `WalksTheRange` is violated;
* `skit_trie_enforce_valid_flags` rejects nothing, as its condition is inverted
  (`trie.c:91`); a table node hands back the caller's character instead of the stored one (`trie.c:324`);
* `put` on an array's buffer grows it in bytes (`string.c:610`), so that the length can stop being a
  multiple of the elements' size, and the next element is put out of line
  (`PutAppendsItsElement` in `Loaf`).

Text:

* `skit_slice_rtrimx` and `skit_slice_rtrim` never trim a byte above 127, which they read as
  a negative number; their counterparts on the left do (`string.c:1624`);
* `skit_slice_take_head` with an empty delimiter makes no progress (`string.c:1969`);
* `string.h:413` promises a 0-byte after the new slice; `skit_slice_buffered_resize` writes none;
* lengths and offsets have 28 bits and wrap beyond (`string.c:120`);
* joining paths: a second part `.//x` becomes `/x` (`path.c:185`), a first part of `//` becomes nothing;
* 12 o'clock am stays 12 (`datetime.h:341`);
* `SKIT_PEG_non_whitespace` compares the cursor that `parse_whitespace` returns with 0
  (`parsing/peg.c:300`);
* for a text that begins with a newline, the bounds of the line at 0 are 1 and 0 (`parsing/peg.c:773`);
* the number of a keyword is received in an `int` through a `void**`
  (`parsing/peg_lookup.h:185`).

Streams:

* the indenting stream leaves out the indent when exactly one character
  follows a newline, and puts it in the middle of the line at the next append
  (`streams/ind_stream.c:189` adds the newline's length twice; `stream.h:380`).  TLC:
  `NewlinesAreIndented` is violated.  `appendf`, which tests
  before it advances, is right, but takes newlines only from the format, not from its
  arguments; an empty append writes the pending indent;
* a text stream slurps its whole text wherever its cursor is, where `stream.h` says
  "starting at the cursor" (`stream.h:308`; TLC: `SlurpsAsPromised` is violated); its `readln` ends a line at a CR too, files only at LF;
* a last line without newline that fills the chunk exactly comes back with a
  0-byte more (`pfile_stream.c:242`, run `streams_lines`); at the end of a file the first `read_fn` returns a
  slice that was never assigned (`pfile_stream.c:418`, `tcp_stream.c:230`; TLC: `ScansAsPromised` is violated), and the first
  `read` an empty slice where `stream.h:115` says null (TLC: `BlocksAsPromised` is violated);
* a read of a file after a failed write takes its bytes, and then throws for the error that the write left
  (`pfile_stream.c:348`);
* a file in mode `"r+"` appends at its position, not at its end; `appendf` asks the
  flush condition about the format, not about what was written (`pfile_stream.c:501`), and
  reports nothing on a stream that is read-only; a stream opened again loses the
  former name (`pfile_stream.c:726`);
* `send` may take a part of the bytes; the rest is neither sent nor reported
  (`tcp_stream.c:291`); a shutdown that fails throws before `close`, and closing is never
  completed (`tcp_stream.c:511`).

Threads:

* `skit__init_called` is set before the modules are initialised (`init.c:38`), so a second thread
  that comes meanwhile passes by and runs without its buffers (`init.h:106`).  TLC: `EarlyThreads = {t1, t2}` violates
  `EnteredThreadsHaveBuffers`;
* two threads whose pushes and pops of the handler overlap without nesting leave the library's
  handler installed, as each saved what the process had (`signal_handling.c:115`).  Nothing in the sources says
  otherwise, so this is no finding; TLC: `HandlersComeBack` without `~overlapped` is violated.

## 6. Not modelled

* Formatting: traces of exceptions and debug frames, dumps, drawn tries, messages of
  parses and of failed date formats.  No property here is about wording.
* Conversions between numbers and text (`string.c:1123`-`1174`), the elements
  `nanoseconds` and `frac_of_second` of date formats, regular expressions other than what
  `regex.c` was written for (`read_regex` of streams).
* Allocation failure, values passed through `sRETURN`, exceptions that are kept outside the stack
  (`skit_exc_new`).
* The keys a trie hands back, in `key_return_buf`, which all users of one trie
  share, threads included; `skit_trie_remove`, a stub.
* Threads: a throw while an index is filled, which leaves its mutex locked; the
  parser module's initialisation flag, read without a lock; the cached standard streams; the handler
  itself, which prints and ends the process.
* VMS.

The exception machinery has no state that threads share but the registry, which is filled
before threads start; it is modelled for one thread.

## 7. Plan

In order of importance.

1. Proofs: `HandlesAreKept` of streams; the keyed fields of the trie's iterators.
2. The keys that the trie hands back, as a part of `Trie`.
3. A throw while an index is filled, in `Threads`.
