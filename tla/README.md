# Verification of the CS 252 programs

The repository holds the independent programs of a systems-programming course.
This directory models the ones that have state a test can hardly drive: a heap
allocator (`lab1`), a backup script (`lab2`), a shell with its generated scanner and
parser and its line editor (`lab3`), three small concurrent programs (`lab4`) and a
web server (`lab5`). TLC checks the models on small instances; for every value of
their constants TLAPS proves the safety properties, and most of the refinements, of
the allocator, the backup script, the shell's parser, session, line editor, processes
and pipelines, the bounded buffer, the counters and the web server.

    tlc -workers 2 -config Malloc.cfg MCMyMalloc     # a run
    tlapm MyMallocProofs.tla                              # the proofs of a module

## The system

| part | state | operations | what is hard |
|---|---|---|---|
| allocator, `src/lab1/myMalloc.c` | boundary tags in the heap, doubly linked free lists, `lastFencePost`, `osChunkList` | `my_malloc`, `my_free` (and `my_calloc`, `my_realloc`, compositions) | coalescing with either neighbour, growing the heap by arenas that may continue the last one, stale headers, one mutex |
| backup script, `src/lab2/backupdir.sh` | numbered copies of a directory | compare, copy, rotate | the directory changes meanwhile; copies that fail; scripts that are killed |
| shell: line editor, `src/lab3/read-line.c` | line, cursor, history | keys, completion, recall | the terminal's cursor is moved blindly; fixed arrays |
| shell: lexer, `src/lab3/shell.l`, `lex.yy.cc` | flex's buffer and tables | tokens, refills, push-back of expansions | tokens across reads; pushing back in front of what is read; the end of the input |
| shell: parser, `src/lab3/shell.y`, `y.tab.cc` | Bison's stack, lookahead, error status; the one `_currentCommand` | shift, reduce, recover; `source` parses again inside `execute` | what one line leaves for the next; globals shared by nested parsers |
| shell: processes, `command.cc`, `shell.cc` | children, `_backgroundPids`, `_lastReturnCode` | fork, wait, `sigchldHandler` | the handler between any two steps, merged signals, reuse of pids |
| shell: pipelines, `command.cc` | descriptors 0, 1, 2, their copies, pipes | redirections, pipes, forks, putting everything back | early returns, failed calls, descriptors that children inherit |
| bounded buffer, `src/lab4/bounded-buffer.cc` | ring, two semaphores, mutex | `enqueue`, `dequeue` | every interleaving of the statements |
| counters, `src/lab4/count.cc`, `count_spin.cc` | a shared `long`, a mutex or a spin lock | `increment` | lost updates, mutual exclusion, spinning |
| web server, `src/lab5/myhttpd.cc` | connections, statistics, log, descriptors, CGI children | four modes of accepting, `processHTTPRequest`, `zombieHandler` | clients that block, threads that fork, copies of memory after fork |

The parts of one program meet in shared state. Shell: `LineEditor` hands lines to
`mygetc`, `FlexScanner` makes words of what `mygetc` returns, `YyParse` makes
commands of tokens, `ShellSession` decides what is executed, `ShellPipeline` and
`ShellJobs` are the two sides of executing it (what its processes have open; when
they end and who reaps them). Each layer is checked against the specification the
next one starts from: `EditedLine`, `ShellWords`, `ShellGrammar`. Web server: the
handlers meet in `statsMutex`, in the log and in the descriptors a script inherits.
The programs do not interact with each other.

What makes each part correct: the heap is tiled by blocks whose tags agree, the
free lists are the free blocks, clients' regions are disjoint (allocator); the
newest backup is the directory as the script left it and only the oldest go
(backups); the line is edited in place and the terminal shows it (editor); tokens
are the longest matches of one stream, however it is read (lexer); what is executed,
skipped and reported is what the grammar says (parser); a command is what its line
says (session); every child is reaped, a job is noted, the
return code is the command's (processes); the shell's descriptors come back, end of
file reaches every reader, and no FIFO is left at the end (pipelines); FIFO, no lost slot, no deadlock
(buffer); no lost increment (counters); every client that plays its part is
answered, whatever the others do, and the statistics tell the truth (web server).

## Modules

| module | models | notes |
|---|---|---|
| `AbstractHeap` | what an allocator promises its clients | disjoint regions, large enough, that neither move nor change |
| `MyMalloc` | `allocate_object`, `deallocate_object`, `allocate_chunk`, `init`, the free lists | refines `AbstractHeap` |
| `Snapshots`, `BackupDir` | a row of copies; the script, one action per file | refinement |
| `EditedLine`, `LineEditor` | a line with a cursor; the arrays of `read-line.c`, the terminal, the history, completion | refinement |
| `FlexTables` | flex's tables and the automaton that walks them | pure operators |
| `ShellRules` | the rules of `shell.l` as longest matches; what the actions compute | pure operators |
| `ShellWords`, `FlexScanner` | tokens of one unbounded stream; the buffer of `lex.yy.cc` | refinement |
| `ShellGrammar` | the grammar's actions, folded over the tokens of a line | pure operators |
| `YyParse` | the tables and the engine of `y.tab.cc`, error recovery, nested parsers | checked against `ShellGrammar` |
| `ShellSession` | command table, dispatch, `source`, line by line | |
| `ShellJobs` | fork, wait, background jobs, `sigchldHandler` | kernel's side external |
| `ShellPipeline` | descriptors of one command, its children, pipes, and the shells and FIFOs of its `<( )` | programs external |
| `BoundedQueue`, `BoundedBuffer` | a FIFO queue; the buffer, one action per statement | refinement |
| `CounterParameters`, `LockedCounter`, `SpinCounter` | the two counters | `SpinCounter` refines `LockedCounter` |
| `HttpServer` | `main`, pool, `processHTTPRequest`, statistics, log, scripts | clients, scripts external |
| `MC*` | the inputs and bounds of the runs | |
| `MyMallocProofs`, `BackupDirProofs`, `LineEditorProofs`, `ShellJobsProofs`, `ShellPipelineProofs`, `HttpServerProofs` | theorems about the module of that name | see Proofs |
| `GrammarProofs`, `Lab4Proofs` | theorems about `YyParse` and `ShellSession`; about the bounded buffer and both counters | |

**MyMalloc.** Addresses and sizes count 8-byte words. `mem` maps the addresses of
intact headers to size, state and left size; a header disappears from it when
client data or list pointers overwrite it (`Clobber`, `InsertMem`), and a load
where no header is may return anything (`StatesAt`). `want` is the size of the
call that holds the mutex: a call runs from `CallMalloc` to the action that resets
it, each turn of the `while (1)` loop is one action (`Fit`, or a growth). `my_free`
is `Free`, with all its merging, or `InvalidFree` for a pointer that is no
allocation. `fault` says how the program went wrong: `aborted` (the double-free
check), `wild` (an access through a header that is none), `overrun`. `seam` is
auxiliary: it turns TRUE when growth keeps an allocated left neighbour. That growth
is made right but records a wrong left size, and what the code does with it later is
wrong (see below): blocks that clients hold overlap in the end, which the run
`malloc_seam` shows. So the structural properties speak of the heap with `~seam`, and
the refinement and the completeness of the search of every step up to and including
that growth. Nothing but `TypeOK` and `CallsReturn` is checked after it.

**BackupDir.** A file's contents are one value; `diff`, `cp` and `rm` go file by file,
in any order, while the directory is edited; a file may fail to be copied, and the
script may be killed between any two files. `others` counts directories named like a
backup whose suffix is no number.

**LineEditor.** `line_buffer` and `line_length` are arrays and lengths as in the code;
`shown` and `column` are what a terminal makes of the characters written to it: one
row as long as any line. On a real terminal a line longer than its row wraps, and a
backspace does not go back over the wrap; that is outside the model.
One action per key; completion walks a small tree of directories. `EditedLine` has
the text left and right of the cursor, and the list of earlier lines.

**FlexScanner, FlexTables, ShellRules, ShellWords.** The tables of `FlexTables` are
those of `lex.yy.cc`, and `Match` runs them; the tokens of `ShellWords` are the
longest matches of the regular expressions of `ShellRules` on one stream. That both
agree is part of `ImplementsShellWords`. `FlexScanner` has the buffer `ch` with its
capacity, the scanning position, refills of at most `YY_READ_BUF_SIZE` characters,
growth, the shift of `yyunput`, the pending end of file, and `yyinput` as `$(` and
`<(` use it. An expansion pushes back text out of a small set (values of variables,
home directories, a tree of files, outputs of commands). A wildcard is turned into an
extended regular expression character by character, as in `wildcardToRegex`, and that is
matched by a small matcher of its own (`Regexec`), so that a character left unescaped
shows. `regcomp` and `opendir` do not fail, and no wildcard has a backslash in it.

**YyParse, ShellGrammar.** `yypact`, `yydefact`, `yytable`, `yycheck` and the others are
copied as functions; an action of `YyParse` is one turn of `yybackup`, `yydefault`,
`yyreduce` or the error recovery. `execute` on a sourced file starts a second parser
on the same globals. `Parse` of `ShellGrammar` is what the grammar says a line does,
including what had been reduced when an error is met.

**ShellSession.** A line is the sequence of its lexemes, parsed by `Parse`. `rest` is a
stack of inputs, one for each nested `yyparse`; `Source` is where `YY_INPUT` really
reads (at a terminal `mygetc` ignores `yyin`). `current` is `_currentCommand`.
`spoiled` records that the table may hold more than the next line puts there: after a
syntax error and inside `source` the code executes something else than the line, and
`RunsWhatItSays` says nothing of such commands, only that no others go wrong.

**ShellJobs.** `pc` is where `execute` is; the handler's `Deliver`, `Scan`,
`Announce` happen between any two of its steps. Pids are handed out again as soon
as they are free. A process exits with a code or is killed by a signal, which counts
as 1. `waitpid` that fails, as the handler was first, leaves `status` unset: any value;
of that code `ReturnCodeUnlessTaken` says nothing. A job the handler reaps before
`execute` has noted it is outside `JobsAreNoted`: its end is not announced, and its pid
stays in the set.

**ShellPipeline.** `fd` is what each descriptor variable of the shell refers to; a
child has a copy of it. A pipe is at end of file when no process holds its write
end, and a writer dies when none holds the read end. `mayFail` is the set of calls
that may fail in a behaviour: opening a file, `pipe`, `fork`, and any call that makes a
`<( )`, upon which the shell exits. `dup` and `dup2` do not fail. A `<( )` is a shell
with the cleanup list as it was when the `<( )` was lexed; it blocks in the opening of its FIFO
until a program of the command, or `execute` for `< <( )`, opens it. A `join` copies
the `<( )` it has as arguments, one by one, and a pipeline may have several. When its
command has ended, the shell of a `<( )` removes the FIFOs of the earlier ones without
waiting for their shells, which are not its children. In `cat <(a) | cat <(b)` and in
`cat <(a) < <(b)` the first FIFO may so be gone before it is opened, and its shell and
the `execute` that waits for it hang: `FifosRemoved` says that nothing else removes a
FIFO too early, and `EverythingEnds` is about one program that opens every FIFO in order.

**BoundedBuffer, LockedCounter, SpinCounter.** One action per statement. `Check` is the
consumer's `assert`, which stops the consumer if it fails; with one producer and one
consumer, as in `main`, it never does (`NoAssertFails`). The
narrowing of `long` to `int` in `increment` is kept (`ToInt`). `SpinCounter`'s `at`,
`rounds` and `local` are `LockedCounter`'s `pc`, `i` and `c`, its `holder` the mutex.

**HttpServer.** `pc[r]` is the statement of `processHTTPRequest` connection `r` is
at; `memory` and `mutex` exist once per process, as fork copies them; `fds` is what
each process has open. A section under `statsMutex` is one action, except
`updateStats`, which is two. `load` says what each client asks for and whether it
ever ends its request (`silent`), sends the body it announces (`short post`) or reads
the answer (`deaf`, `deaf cgi`). A client that leaves is answered by what it had sent:
with 401, or served if its Authorization header was in it. `frame` counts the
frames a stream has come to; a file, a directory or a frame is one descriptor,
`Document(r)`, which other threads' scripts inherit like every other.

## Runs

| run | instance | shows |
|---|---|---|
| `malloc` | three arenas of 12 words that continue each other, or two that stand apart; `sbrk` may fail; blocks of 7, 10 and 11 words | structure of the heap and lists, coalescing, growth only when needed, refinement, up to and including the first growth beside an allocated block, with an exact fit, a gap and a request larger than an arena; every call returns, before it and after |
| `malloc_seam` | two arenas of 18 words; blocks of 4, 6 and 10 words | a violation: after a growth beside an allocated block, blocks that clients hold overlap |
| `buffer_many` | 2 producers, 2 consumers, 2 slots, 2 calls each | a FIFO queue: no slot claimed twice or lost, no item twice; no deadlock |
| `count_spin` | 6 iterations of 2 threads, an `int` that ends at 12 | the spin lock is a mutex, exact count, both threads end |
| `backup` | two files with two contents each, numbers up to 2, 1 or 2 backups to keep, up to one other directory; `rm` does not fail | a finished script tells the truth; copies are added and removed in order |
| `parser` | all lines of up to 5 lexemes, two in a row, one of them sourced | executed, skipped and reported as the grammar says; nothing read too early; nested end of file; recovery ends |
| `scanner` | all texts of up to 3 characters of the classes the tables tell apart, longer ones with expansions; a buffer of 7, reads of 3 | longest matches of one stream; it ends; a terminal's line is scanned without the next one |
| `editor` | lines of up to 3 characters in an array of 5, 2 lines of history, 3 lines entered | the array is the edited line; the terminal shows it |
| `session` | three lines out of plain, malformed and `source` ones, piped and at a terminal | a command is what its line says unless the line before spoiled the table; nested `source` unwinds |
| `jobs` | 2 pids, pipelines of up to 2, unbounded many commands, processes that exit or are killed | the return code unless the handler took the process, jobs noted, no zombie stays, the prompt comes back |
| `pipes` | pipelines of up to 3 programs, all redirections, up to two `<( )` of one program or of two, failing calls | descriptors restored, pipes connect, FIFOs removed at the end and before only by a later `<( )`, end of file gets through |
| `http` | twelve loads of 2 or 3 connections, four modes, pool of 2, streams of 2 frames; `pipe` and `open`, or `fork`, may fail | statistics the handlers share, descriptors, zombies, everybody answered who can be |

Bounds. The second arena meets every kind of neighbour of a growth: none, a free block,
an allocated one; the third a heap that has grown in each of these ways. A block of 7
words leaves a gap when it starts an arena, one of 10 fits exactly there, one of 11
passes the arena's end, and all are split off what merged arenas hold. The proofs cover
every number and size of arenas. The buffer has fewer slots than items,
so the ring wraps and both semaphores reach 0. Two pids let one command's process
be reaped while another's is forked, and a third fork fail. Pipes hold 2 units and
`print` writes 3, so writers block. Two connections make signals merge and statistics
race; a third is added beside a client that blocks a thread of the pool. Two large
posts, and a script of a client that does not read beside a post, must be answered in
iterative and fork mode only: see below.

The parser's five lexemes let an error occur within three tokens of another, and
beyond. The scanner's reads are shorter than its tokens, so that every token is cut
somewhere, and the buffer is just longer than the longest token, so that it is moved,
shifted and grown. In the editor a line can be full, the history drops its oldest
line, and a longer line is recalled over a shorter one; a line of up to one character
is entered three times (two characters were tried too). Backups need three numbers:
one damaged by a killed script, one good, one being made.

`CHECK_DEADLOCK FALSE` is used where the program may stop: after `abort` or a wild
access (allocator), after the one command of a behaviour (pipelines), when all
clients have been served (web server), at the end of the input or after an error that
ends the shell (scanner), when the terminal has hung up or the last line has been
entered (editor).

Fairness. Allocator: the call that holds the mutex keeps running (nothing in its
loop blocks). Threads, processes, handlers: weak fairness of each one, which the
kernel's scheduler gives. `ShellJobs` also assumes that every process ends. The
scanner keeps scanning and its input keeps coming or ends; the parser, the session and
the editor are one thread each. Clients
of the web server connect, but leave only if they like; scripts end when they have
their input.

## Proofs

| module | theorem | says |
|---|---|---|
| `MyMallocProofs` | `HeapInvariant` | `HeapInv` holds in every state (it speaks of `~seam`) |
| | `HeapTypes`, `TagsAgree`, `NoOverlap`, `ListsAreTheFreeBlocks`, `AlwaysCoalesced`, `InvalidFreesCaught`, `NoWildPointer` | the invariants the runs check (`TypeOK` under `~seam`), for every arena size, number of lists, request and behaviour of `sbrk` |
| | `HeapKeepsPromises` | while no growth has kept an allocated neighbour, and in the step that does, every step is one of `AbstractHeap` or none |
| | `SearchIsComplete` | so far, the heap grows only when no free block is large enough |
| `BackupDirProofs` | `BackupInvariant`, `BackupEnds` | what a finished script says is true, and no more than `max` backups are left |
| | `BackupIsSnapshots` | over all scripts, killed and failed ones too, the directories are a row of copies |
| `LineEditorProofs` | `EditorKeeps`, `ScreenIsRight` | the terminal shows the line in the array, whose indices stay in range |
| | `EditorIsALine` | every key is a step of a line edited in place, or none |
| `ShellJobsProofs` | `JobsInvariant`, `ReturnCodeIsRight`, `JobsNoted`, `WaitFailsOnlyWhenTaken` | what `execute` and the handler believe of the processes is so |
| `ShellPipelineProofs` | `PipelineInvariant`, `DescriptorsAreRestored`, `PipesAreConnected`, `FifosAreRemoved` | descriptors, pipes and FIFOs of a command, for pipelines of any length, any number of `<( )` in any of its programs, and every failing call of `Calls` |
| `GrammarProofs` | `Invariance`, `ParsesAsGrammar`, `ReportsOnce`, `EndsAtItsEnd` | Bison's tables do what the grammar says, an error is reported once and the shell ends with its input, for lines of any length and any depth of nested parsers |
| | `SessionRunsWhatItSays` | what a session executes is what its line alone makes, for any scripts and any depth of `source` |
| `Lab4Proofs` | `BufferInvariant`, `BufferTypes`, `BufferIsQueue` | the threads implement a FIFO queue, for any number of threads, calls and slots |
| | `NoAssertFails` | with one producer and one consumer, as in `main`, the consumer's `assert` holds |
| | `CountExact`, `NoIncrementLost` | `count.cc` counts exactly, for every number of iterations |
| | `SpinImplementsMutex`, `SpinNoIncrementLost` | every step of `count_spin.cc` is a step of `count.cc` or none; so it counts exactly |
| `HttpServerProofs` | `ServerInvariant`, `StatsAreRight`, `DescriptorsAreClosed` | statistics and descriptors, in every mode, for every load and every interleaving |

Assumptions. Those of the modules: an arena has room for its two fenceposts and a block
(`ArenaAssumption`); the counters stay within an `int`; the array of the editor has room
for a newline and a NUL, the history for a line, and no key or name contains the
characters `read_line` treats apart (`EditorAssumption`); what the parser uses for no
token, the end of file and the newline is no lexeme of a line (`ParserAssumption`).
The bounds named in the
modules (`HeapLimit`, `MaxNumber`, `MaxEntered` ...) are arbitrary numbers. Two
theorems assume more:

- `HeapKeepsPromises`: `RequestsFit`. A request rounded up to words fits the heap's
  limit, as `AbstractHeap` bounds the sizes it counts.
- `EditorIsALine`: `NamesAreWords`, no command or file has a blank in its name. The code
  completes such a name unquoted, into two words, and the next completion starts from
  the second one; `EditedLine` completes words.

Why the invariants are what they are:

- Allocator. No property is inductive alone. That tags
  agree after a free depends on the neighbours' headers being intact and being blocks;
  that an unlink is safe depends on the lists holding exactly the free blocks; that a
  free merges at most one block on each side depends on no two free blocks being
  neighbours; that `Free` is only called on blocks depends on clients holding exactly
  the allocated ones. Growth depends on the last fencepost being the last block, whose
  left size leads to a block. `HeapInv` is the conjunction of these, under `~seam`. Its
  proof has a lemma for each action; merging is proved once for a tiling and used for
  `Free` (on one side or both) and `GrowMerge`. The refinement adds that the break stays
  under the limit (`BreakBounded`). That the first-fit search comes to every listed block
  speaks of reachability; `SearchInv` says it without recursion: a block on a list is
  in every set that has the list's sentinel and with each block the next.
- Backup script. `BackupInv` has one part for each place of the script. `Differing` and
  `Filling` say what is known of the files looked at so far, unless the directory was
  edited meanwhile; `Removing` that the excess counted is still the excess. For the
  refinement, the row in the order of its numbers is shown to gain its last element or
  lose its first.
- Line editor. `EditorInv`: while a line is edited its length and cursor are in the array
  and the terminal's row is the line, blanks behind it (`Good`); between two calls the
  row is blank; the history holds lines that fit, `history_index` is within it and so
  `saved_line` fits. What `write` does is a fold over the text written; the proof goes
  through a `Run`, the states between the fold's steps. That a set of numbers closed under
  successor is all of them is derived from the well-foundedness of finite subsets, so that
  no induction scheme over operators is needed. The refinement maps the array to the text
  in front of the cursor and behind it; for completion it needs that the new word starts
  with the old one, or with the old one less the second of two slashes at its start.
- Processes. `JobsInv`: a pid that is waited for, or noted, cannot be handed out again before
  it is reaped (`WaitedIsFree`, `StillThere`, `JobsExist`), and is not both foreground
  and job (`ForegroundIsNoJob`, `FoundIsNoJob`). Without these a reused pid would give
  `${?}` another command's code.
- Pipelines. `PipelineInv`: what the shell has open follows from where `execute` is
  (`ShellHolds`), what a child has from its place (`ChildrenHold`); the cleanup list has
  every FIFO and every shell that lives (`Listed`); a shell inherited only earlier names
  (`Earlier`), so that a FIFO that is gone unopened was removed by a later one's shell
  (`RemovedByLater`).
- Parser. `Inv`: on every stack each two neighbours are an edge of the automaton (`Edges`,
  found by following the tables), so that a reduction lands where the tables say
  (`TypeInv`); the parsers below the innermost all wait inside rule 5 (`Outer`). For
  each state of the innermost one, `Agrees` says what the command table, the simple command and the
  value on top of the stack are, given what the grammar has made of the lexemes shifted
  so far (`Taken`). A state without lookahead may lag behind the grammar by a
  reduction, or know by its lookahead which one the grammar will make; `Agrees` lists
  these. The actions of the grammar are a fold over the line, of which the proof needs
  only that one more lexeme is one more step (`AfterOne`); the
  community module's fold is a recursion over the set of indices, which the proof builds
  one index at a time (`FoldExists`). `Status` is a function of
  the state (`LocalInv`), which is what makes reports single.
- Session. `SessionInv`: between commands a table that is not spoiled is empty, and what
  is about to be executed from one is what its line makes of the empty table. That an
  empty line leaves the table as it was needs that no other line comes back to the
  grammar's start (`ParseType`).
- Buffer. `BufferInv`: mutual exclusion; free slots, claimed slots and items add up to the
  ring (semaphore values plus the threads between their `wait` and their `post`); the
  items lie between `head` and `tail`.
- Counters. `CountInv` says that a thread between lock and unlock holds the mutex, that what
  it read is still the count, and that the count is what the threads have added; the
  proof of `SpinImplementsMutex` needs only that the lock word is 1 exactly while
  somebody holds the lock.
- Web server. `ServerInv`: a connection is in the queue once and nowhere else (`Queue`), what
  is open for a request follows from its step (`Belongs`; of a script's pipe only where
  forks do not fail), and the shared statistics are
  those of the requests counted and timed so far, except between the two halves of
  `updateStats`, where somebody has `statsMutex` (`Adds`).

Only model-checked:

- Liveness, out of reach of the prover: `CallsReturn`, `AllThreadsEnd`, `SpinBothEnd`,
  `SessionEnds`, `ScanEnds`, `TokensAreUsed`, `ZombiesAreReaped`, `PromptReturns`,
  `EverythingEnds`, `ZombiesReaped`, `EveryoneAnswered`.
- `TypeOK` of the allocator after growth beside an allocated block. What else holds
  there is not checked at all, except that `malloc_seam` shows what does not.
- `ImplementsShellWords` and `LineBeforeRead` of the scanner: flex's automaton and the
  longest matches it is compared with are recursive definitions over texts.

## Where code and words differ

Unless it says otherwise, each of these is a behaviour the models have, and the properties leave it out, so that
they hold of everything else: `~seam` (allocator), `~spoiled` (`RunsWhatItSays`), `~taken`
(`ReturnCodeUnlessTaken`), `~cut` (`EndsWithItsInput`), `again`, `lost` and `fatal`
(`ScanEnds`), `Drains` (`EverythingEnds`), `mode # "fork"` (`StatsAddUp`), failing forks
(`DescriptorsClosed`, of a script's pipe, and `EveryoneAnswered`), `Serves` and `Unheld`
(`EveryoneAnswered`), `others < max` (`EndsAsItSays`). A property does not show these
behaviours; the states that the names mark do. Allocator:

- The block that starts an arena beside an allocated block gets that block's size as
  its left size, although the old fencepost lies between the two (`myMalloc.c:175`).
  Its left neighbour is then looked for 16 bytes into the allocated block. When that
  has been freed, given out again in smaller pieces and freed in part, a free block may
  lie just there: `my_free` joins it to one that is no neighbour
  (`myMalloc.c:236`), and the sum of both sizes is given out over a block another
  client holds. `malloc_seam` finds such a sequence of calls; lab1/README:38 says "Heap
  structure invariants preserved".
- `free_size` is unsigned (`myMalloc.c:178`), so a request larger than an arena that
  follows an allocated last block gets memory past the break; `test_malloc_too_large`
  expects an error. In the runs these are the states with `fault = "overrun"`.
- A remainder below a block belongs to nobody (`myMalloc.c:187`);
  `osChunkList` keeps fenceposts that were merged away (`myMalloc.c:82`), which
  `verify_tags` later reads: `verify()` may fail on a heap that is in order.

Shell:

- `source` parses with its own command still in the table, so the file's first line
  becomes an argument list after it and `source` runs again; `test_source` expects the
  lines once. `source` of an empty file ends the shell.
- When `sigchldHandler` reaps a foreground process first, `${?}` is computed from an
  unset `status`.
- A child inherits the read end of the pipe it writes and never gets SIGPIPE;
  `yes | head` leaves `yes` behind.
- `$(` or `<(` without its parenthesis is read for ever at the end of the input:
  `yyinput` returns 0 and the loop waits for -1 (`shell.l:216`, `lex.yy.cc:1845`).
- A file named `*`, a variable that holds its own name, `~nosuchuser`: what is pushed
  back is matched again, for ever (`shell.l:435`, `shell.l:513`).
- An expansion longer than the buffer, `$(seq 1 9000)`, and a word of `YYLMAX`
  characters end the shell (`lex.yy.cc:1760`, `lex.yy.cc:373`).
- `echo <(echo a)`, whose program never opens the FIFO, hangs the shell, and so does
  the command after one that `execute` left early (`command.cc:222`). The shell of a
  second `<( )` removes the first one's FIFO (`shell.l:282`, `command.cc:349`): in
  `cat <(a) | cat <(b)` and `cat <(a) < <(b)` perhaps before it is opened, and then the
  shell hangs too.
- When no fork succeeds, `execute` calls `waitpid(0)` (`command.cc:321`) and waits for
  any shell of a `<( )`.
- `ctrl-_` hands over a NUL and the rest of the line (`read-line.c:476`); completing a
  word of 256 characters overflows (`read-line.c:185`); after a hang-up `mygetc`
  follows a null pointer.
- After a syntax error what was reduced stays in the table: `a >` and then `b` runs
  `a | b` (`shell.y:39`; lab3/README: "Robust handling of malformed or incomplete
  commands"). `spoiled` marks these commands.
- `2>` redirects stdout (`shell.l:207`; lab3/README: "Error redirection using 2>").
- When the fork of a pipeline's last program fails, the shell waits for one that
  writes to a pipe only the shell could read (`command.cc:313`).

Web server:

- In fork mode `/stats` always says one request, as each child counts in its own
  memory (`myhttpd.cc:181`). A failed fork leaves the connection open for ever
  (`myhttpd.cc:182`).
- In thread and pool mode two bodies of 8192 bytes or more at the same time may hang:
  neither is read, both scripts wait for end of file, and each has inherited the
  write end of the other's pipe (`myhttpd.cc:963`). A script whose client does not read
  keeps the connections that were open at its fork from end of file. A client that
  announces a body and does not send it blocks its thread (`myhttpd.cc:945`), like one
  that never ends its request. `EveryoneAnswered` leaves such loads out where they take
  every thread or another client's descriptor (`Serves`, `Unheld`); the other loads, and
  these in the other modes, are answered.
- When `fork` fails for a script its pipe stays open (`myhttpd.cc:1013`);
  `DescriptorsClosed` says that nothing else does.

Backup script:

- Directories like `dir.old` count as backups and are never removed: with as many as
  are to be kept, the new backup is deleted again (`backupdir.sh:67`); README:34 says
  the oldest go. `rm` is not checked (`backupdir.sh:79`): a directory that cannot be
  removed counts as removed, and the next one goes; in the model `rm` does not fail.
  Two scripts at a time (README:37 suggests cron) copy into each other's
  directory; the model has one at a time.

## Not modelled

Allocator: `my_calloc` and `my_realloc`, sequences of the two calls the model already
makes in any order, which touch no shared state but through these; the heap after a
growth beside an allocated block, but for what `malloc_seam` shows; sizes near `SIZE_MAX`; printing and test scaffolding. Shell: the
pipes between the shell and the child of a `$( )`, which block both when the command
or its output is long (`shell.l:376`); NUL characters; a backslash before a wildcard
inside `expandWildcard`; the growth and overflow of `yyparse`'s stack; the effects of
`cd`, `setenv` and `unsetenv`. `pwcheck.sh` and `procinfo.sh` keep no state.
`deadlock.cc` takes its two mutexes in one order, so that it is a counter under one
lock; the other samples of `lab4` print. Web server: what the answers say (paths,
authorization, listings), the size of the log's page (`myhttpd.cc:643`),
`pthread_create` that fails (the code then detaches an uninitialised handle), `accept`
that fails. The CGI
samples and documents, the daytime server and the `dlopen` sample.

## Plan

What a continuation would take up: the pipes of a `$( )` in `ShellPipeline`; two backup
scripts at a time, and an `rm` that fails; what still holds of the allocator after a
growth beside an allocated block; what can be proved of `LineBeforeRead` without the
recursion of the tables.
