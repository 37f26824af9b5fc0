# A TLA+ model of the coding-harness tracing hooks

The repository traces coding assistants (Claude Code, Cursor, Gemini CLI, Copilot,
Codex, Kiro, opencode, omp, Antigravity, Devin).  An assistant fires an *event* (a
prompt, a tool call, a stop); each event starts a short-lived *hook process* that
reads JSON from stdin, reads and writes a few files under
`~/.arize/harness/state/<harness>`, sends zero or more OTLP spans to Phoenix or Arize
and exits.  A hook never raises: an error is logged and the assistant goes on.

A trace is the work of many processes that share nothing but files.  Events overlap,
come late or twice, their hooks are killed, their files cannot be read or written.
That is where this code is hard to get right and hard to test, and it is what the
modules in this directory are about.

## 1. Inventory

| Component | State | Operations | Hard behaviour |
|---|---|---|---|
| `core/common.py` `FileLock` | the lock path, inode locks, a descriptor per process | enter, exit | deadline, breaking the lock by unlinking its path, death of a holder, removal of the lock file by others |
| `core/common.py` `StateManager` | `state_<session>.json`, a dict of strings | `get`, `set`, `delete`, `increment`, `init_state` | read-modify-write by several processes; `init_state` and SessionEnd work without the lock |
| Cursor `tracing/cursor/hooks` | per conversation: active turn, terminal markers, no-generation sentinel; per generation: root id, stacks | a handler per event, about a dozen locked operations in `adapter.py` | late, duplicated and overlapping stops, rotated generation ids, deferred root spans, orphans |
| Claude Code `tracing/claude_code/hooks` | session dict: current trace, tool observations, pending subagents | prompt, tools, subagents, stop, session start and end, notifications | export that may fail and is retried, acknowledgement of exactly what was sent, fail-safe closing of a turn without a stop |
| Claude transcript, span renderer | none (transcripts of the session and of its sub-agents) | parse, merge sub-agents, render | records of one answer in pieces, calls that come twice, results without a call, nested sub-agents |
| Gemini `tracing/gemini/hooks` | session dict: current trace, model call accumulators | before/after agent, model, tool; session start and end | chunks accumulated by separate `get` and `set`, pending model call, turns without an end, removal of the lock file |
| opencode `tracing/opencode` | session dict: open turn, marks of what was sent and closed | `reconcile`, `close` under one handler lock | snapshots handled in any order, messages that are not final, child sessions, fail-safe closing |
| Codex `tracing/codex` | none (rollout file) | one notification | a file that is still written, counts that repeat |
| omp `tracing/omp` | session dict: trace, last answer | four events, a detached process each | the last `turn_end` and `agent_end` race |
| Copilot, Kiro | session dict: trace, counters, calls | prompt, tools, stop | tools side by side, counters used as slot names, turns without a stop |
| Antigravity | session dict: watermark | pre-invocation, stop | sending before marking, a transcript that grows, results without a call id |
| Devin | a file of emitted requests | stop, session end | sending before marking, a file or database that cannot be read |
| `core/event_model.py` | a list of events, diagnostics | `validate` | ids that come twice, parent cycles, repeated validation |
| `core/common.py` sending and settings | none | `send_span`, `resolve_backend`, `redact_content`, `build_span` | precedence of settings; one HTTP request |
| `core/config.py`, `core/setup`, `*/install.py` | `config.json`, the settings file of each harness | setup, uninstall, uninstall --all | files that are no JSON, commands that die between two edits, one failing step of several |
| `install.*`, `core/cli.py` | none | dispatch, download | none |

Interaction: every harness that keeps a session dict does so through `StateManager`,
which takes a `FileLock` for each update; Cursor takes a `FileLock` itself in each
function of `adapter.py`; everybody sends with `send_span`.  Two hooks of a session
interact through the files only, so that "one locked operation" is the natural
grain of an action, and the lock itself is one layer below.

What makes each part correct:

- *FileLock*: it excludes; it never leaves an inode locked behind it; nobody waits for ever.
- *StateManager*: an update is atomic and none is lost.
- *Cursor*: a turn's root is sent at most once, and is sent once the turn is closed; a
  stop closes its own turn; a generation's end is reported once; late events stay out of
  later turns; a span's parent and trace belong to one turn; data is sent in one span.
- *Claude Code, opencode, Antigravity, Devin*: what was sent is marked as sent and
  only that; what was not sent is sent later; a span is in the trace of its own turn.
- *Gemini, Kiro, Copilot, omp*: a turn's spans carry the turn's ids and are under its
  root; accumulated data is neither lost nor sent twice.
- *Codex, the transcripts, the event graph*: what is reported is what the files say.
- *Setup*: what is registered with an assistant can be found and removed again.

The hazards behind these, each at its line, are in `PROJECT.json` under "hazards".

## 2. Plan

1. `FileLock`, `StateManager` over it, and its abstract specification `AtomicState` (done).
2. `CursorTurn`, with the abstract specification `TurnDelivery` (done).
3. `ClaudeTurn`: prompt, tools, subagents, stop with retry, fail-safe closing, SessionEnd,
   and the check-then-act of `ensure_session_initialized` (done).
4. `OpencodeReconcile`: snapshots in any order, marks, closing, child sessions (done).
5. `GeminiTurn`, `OmpRun`, `CopilotTurn`, `KiroTurn`: turns kept in a dict without a
   lock around the handler (done).
6. `AntigravityMark`, `DevinFlush`: watermark and marks (done).
7. The readers and what they build: `CodexRollout`, `EventModel` with `EventGraph`,
   `ClaudeTree` (done); `Install` for setup and uninstall (done).
8. Proofs: the lock, the dict, and that it implements `AtomicState` (done); the safety of
   `CursorTurn` and its refinement of `TurnDelivery`, the safety of `ClaudeTurn` (done); the safety of
   the other harnesses, the readers, the event graph, the tree of a turn and setup (done).
   With that every safety property of a run that holds has a theorem.

The modules are written to be proved about: constants carry named assumptions, an
action is one operation, invariants are conjunctions of named parts, and no module
declares a RECURSIVE operator.

## 3. Modules

| Module | Models | Notes |
|---|---|---|
| `FileLock` | `core/common.py` 755-863 | fcntl and msvcrt share one specification |
| `StateData` | the dict and its three updates | pure |
| `StateManager` | `core/common.py` 894-1038 | EXTENDS `FileLock` and `StateData`: the composition |
| `AtomicState` | what `StateManager` promises | abstract |
| `CursorTurn` | `tracing/cursor/hooks` | one conversation |
| `TurnDelivery` | what the Cursor hooks promise | abstract |
| `ClaudeTurn` | `tracing/claude_code/hooks` | one session |
| `SessionDict` | a session dict as seen by a harness | `Get`, `Put`, `Drop`, ... on top of which the next modules are written |
| `OpencodeReconcile` | `tracing/opencode` | one session, with the plugin |
| `GeminiTurn`, `OmpRun`, `CopilotTurn`, `KiroTurn` | `tracing/gemini`, `omp`, `copilot`, `kiro` | one session each |
| `AntigravityMark` | `tracing/antigravity/hooks` | one conversation and its transcript |
| `DevinFlush` | `tracing/devin` | one directory, its sessions and the database |
| `CodexRollout` | `tracing/codex/hooks` | one rollout |
| `EventModel` | `core/event_model.py`, `span_renderer.py` | pure: findings, safe parents |
| `EventGraph` | the life of an `EventGraph` | EXTENDS `EventModel` |
| `ClaudeTree` | `transcript.py`, merging of sub-agents | EXTENDS `EventModel`: the composition |
| `Install` | `core/config.py`, `core/setup`, `*/install.py` | config.json and two settings files |
| `Positions` | | the elements of a sequence, and those at some of its positions; used by `CursorTurn`, `DevinFlush`, `OpencodeReconcile` and `EventModel` |
| `Harnesses` | | puts the modules from `OpencodeReconcile` to `Install` side by side, and has their properties |
| `StateManager_proofs`, `CursorTurn_proofs`, `ClaudeTurn_proofs`, `HarnessTurns_proofs`, `HarnessItems_proofs`, `HarnessRecords_proofs`, `HarnessTrees_proofs`, `Positions_proofs` | | theorems |
| `MCFileLock`, `MCStateManager`, `MCCursorTurn`, `MCClaudeTurn`, `MCHarnesses` | | instances for TLC |

### FileLock

A lock belongs to an inode, the path is a way to find one.  `path` is the inode the
lock path names, `fd[p]` the inode process `p` has open, `holder[i]` the process whose
descriptor locks `i`, `pc[p]` the place in `__enter__`.  `Open` is `open(path, "w")`;
`Lock` the successful non-blocking lock; `Timeout` the failure after the deadline,
which closes the file and either raises or goes on to break the lock in three
steps (`Unlink`, `Reopen`, `LockReopened` or `LockRefused`), because any other process
may run between them.  A failed try before the deadline changes nothing and is no
action.  An inode is free for reuse when neither the path nor a descriptor refers to it.

`mode` is fixed in the initial state: whether the caller breaks the lock
(`break_on_timeout`), whether an open file can be unlinked (POSIX) or not (Windows), and
whether somebody deletes the lock file (Gemini's SessionEnd, the stale-state sweeps
of six adapters).

### StateManager

Each process is either outside, at the lock, or inside `read`/`done`; `buf` is the dict
it has read.  `Enter` is a step of `FileLock`, and when it ends in "idle" the exception
reaches the caller's `except`, which drops the update.  `init_state` is two actions
without the lock (`InitCheck`, `InitWrite`).  `WriteFails` is the exception of `_write`.
`life` says whether a behaviour has `init_state` at work (`fresh`) and whether
SessionEnd deletes the file (`ends`).

### CursorTurn

| Variable | File |
|---|---|
| `active` | `active_<conversation>.json`: root span id, generation, aliases, responses, thought hashes |
| `markers` | `terminal_<conversation>`: generations that ended, bounded |
| `nogen` | `terminal_nogen_<conversation>` exists |
| `roots` | `root_<generation>` |
| `stacks` | `orphan_llm_<generation>.stack.json`, `shell_<generation>.stack.json` |
| `ev`, `hook` | per process: its event, its program counter and local variables |
| `used`, `spans` | history: generations seen, spans sent |

An action is one function of `adapter.py`, atomic because it holds its FileLock, or
one span sent; the operators under "Where a handler goes on" (`First`, `Handle`,
`AfterClaim`, `AfterFlush`, `AfterMark`, ...) are the conditions between two of them,
evaluated on local variables.  A handler runs through these stages:

    prompt        flush [mark root llm clean] (reset | saveRoot) save
                  save fails: root llm clean mark
    sessionEnd    flush [mark root llm clean] end clean wipe
    stop          get [check readRoot] claim [clear] [pop] [root] llm stop clean [mark]
    response      get [check alias readRoot] append | late push | send
    thought       get [check alias readRoot] hash send
    before/after  get [check alias readRoot] push, pop send
    tool          get [check alias readRoot] send
    sessionStart  send saveRoot

The root span id of a turn is the name of the hook of its prompt: ids are random in
the code, hence unique.  A trace id is a hash of the generation and is modelled by
the generation itself.

`mode` chooses the environment of a behaviour: the kinds of events that occur, the kinds
that Cursor starts one after the other (`serial`), whether prompts have new
generations (`fresh`), whether hooks die and whether files fail.  Runs check the
delivery properties in the worst environment and state the others where they
are promised: `Steady` (prompts and session ends in order, nothing fails, stops do as
they like) and `Orderly` (stops, too, one at a time).

Abstractions: `last_activity_ms` is left out (no guard reads it); a prompt always
has text, so that a closed turn has its LLM span; MCP hooks have the shape of the
shell ones; a conversation without an id keys its turn by generation and is not
modelled; deletion by glob deletes the files of that generation only; FileLock is
taken to exclude here, its failures being the subject of `FileLock`.

### ClaudeTurn

| Variable | In the code |
|---|---|
| `data` | `state_<session>.json`: session, `trace_count`, the open turn (`current_trace_id`, `current_trace_span_id`, `trace_start_line`), the pending command, `high_fidelity_span_ids`, the tool buffer with `pending_subagents` |
| `log` | Claude Code's transcript: per line the tool or subagent it is about |
| `ev`, `hook` | per process: its event, its program counter and local variables |
| `spans`, `before` | history: payloads handed to `send_span` with their outcome; the turn that was open when a command was typed |

No handler holds a lock from its beginning to its end.  A `get` reads the file
without a lock, a `set`, an `increment`, a `ToolBuffer` mutation, `_buffer_subagent` and
`_acknowledge_exported_turn` are one locked update each: these, the parsing of the
transcript and the sending of a payload are the actions.  A handler runs through
these stages:

    session       ensure [setSession setCount]
    expand        stash
    prompt        ensure [setSession setCount] pending
                  [trace span number parse ... ack] recheck
                  count open openSpan openLine
    stop          trace span number parse [tools agents] command [ids setIds] send [ack]
    failure       trace span number send [ack]
    pre           start                      (with a transcript)
    post          lookup [start] result      (with a transcript), trace span note
    agent         trace [descriptor], span note
    note          trace span note
    end           remove

`hook[h].lines`, `.found`, `.command`, `.ids` are what `_handle_stop` has read by then; the
property that matters, that `ack` removes what was sent and nothing else, is about
the distance between those reads and the update.  `Parse` decides between the tree
(transcripts whose answers have uuids) and the bare root of the legacy fallback.
A trace id and a new span id are the name of the hook that drew it: ids are
random in the code, hence unique.  An observation is the pair of the hooks whose start
and whose result it holds; that is what its equality in the acknowledgement can tell apart.

`mode` is the environment: the kinds of events, those Claude Code starts one
after the other (`serial`; it waits for its prompt, stop and session hooks), the
kind of transcript, and whether exports fail (`down`), hooks die (`crashes`) and updates are
lost (`faults`: no lock, or the file cannot be written).

Abstractions: the four `pending_command` keys are one (a command sets and a stop
reads them together in every environment whose prompts wait for each other; that a
second expansion without one of them keeps the first one's value is lost here); keys that
only feed span contents are left out; a transcript line is an answer, a call or a
result; a tool whose hooks do not occur in an environment writes no lines there;
`init_state` is the subject of `StateManager`; a subagent has a type and a transcript
of its own.

### The small harnesses

`OpencodeReconcile`, `GeminiTurn`, `OmpRun`, `CopilotTurn`, `KiroTurn`, `AntigravityMark` and
`DevinFlush` have the same four variables: `store`, the dict (or file of marks) on disk;
`hooks`, per process its event, where it is and its local variables; `world`, what the
assistant has done so far, and the circumstances of the behaviour; `sent`, the spans
handed to `send_span`.  `Fire` (in opencode `Fetch`, with the plugin's snapshot) starts a
hook on an event that the assistant may fire by then; every later action is
one access of the dict or one span sent, in the order of the handler.  `Step` is their
disjunction and includes `Crash`, the death of a hook anywhere.  The name of a hook
stands for the random ids it draws, for the text it carries and for its time.

- *opencode*: a hook works through its snapshot under the handler lock, so that it sees no
  writes of others; `todo` are the items of the snapshot it has still to come to (a prompt, an answer,
  a tool, a child), `steps` the rest of the updates and sends about the item it is at.  It reads the
  dict when it comes to an item, and may die between any two steps.  Snapshots are taken at one time and handled at another, in
  any order (`Fetch`, `Enter`); a hook may give up waiting for the lock (`GiveUp`).
- *Gemini*: `overlap` is a circumstance of a behaviour: hooks of AfterModel run side by side
  or one after the other.  Everything else waits for its predecessor.
- *omp*: every event is a process of its own; in behaviours with race "last" agent_end
  comes while the last turn_end is still running.
- *Copilot*: calls overlap; `named` says whether calls have no id, so that two
  calls of one tool share the key of their start time.
- *Kiro*: `Increment` and `ReadBack` are the two steps that give a call its slot.
- *Antigravity*: `Parsed` is `parse_transcript`; `Built`, a recursive function over the records, is
  `_build_turn`, which `ToolSteps` ends with the calls given up; the dict's set of the session's keys is several steps here, because the
  watermark is one of them.
- *Devin*: the database is a sequence of nodes, of which several may show one generation; an
  access of the file or the database may fail, within `MaxFails`.

Abstractions: the several sets of `ensure_session_initialized` are one step (not in
Antigravity; their interleaving is in `ClaudeTurn`); keys that only feed attributes
(start time, prompt, model) are left out; Antigravity sends the spans of a turn in one
step and Devin a generation with its tool calls; the sweeps of stale files are left out, the
removal of lock files being in `FileLock`; handlers that change nothing but left-out
keys (Gemini's BeforeTool and SessionStart, Copilot's session start) are left out.

### CodexRollout

`world` is the rollout, a sequence of records that Codex appends while the hook is on
its way.  `Extract` goes through it with `AddRecord`, one operator per kind of record, and `Gathered` is
what it has got by each place; a hook reads the
file in one step and sends one payload.  What it finds is judged against
`Places`, the part of the file between two starts.  Settings records, timestamps and
token counts without a total are left out; shell calls and custom calls are one kind
(their ids are different sets); texts are told apart by their place.

### EventModel, EventGraph, ClaudeTree

`EventModel` has the two walks of the code over a graph of events: `CycleFrom` follows the parents of an
id as `validate` and `_safe_parent_event_ids` do, `Findings` is what `validate` reports and
`SafeParent` the parent the renderer uses.  `EventGraph` adds events and findings
and validates, several times, in any order: `by` stands for the identity by which
`validate` tells its own findings from those of others.  `Loops` is the reference definition: the
smallest sets of events that have the parents of their members (`Closed`), without following anybody.

`ClaudeTree` is where the graph comes from: `Parsed` goes through the lines of one file with
`AddAnswer` and `AddResult`, `MergeAgent` inserts the graph of a sub-agent, `Merged` does so for
one pending sub-agent after the other, `Tree` is what a stop renders.  The environment writes the transcripts of the session and of nested
sub-agents; in half of the behaviours (`odd`) message ids may be missing, usages differ
between the records of an answer, and calls and results come twice.  A stop is one step
here; that its reads are apart is in `ClaudeTurn`.

### Install

`store` has config.json and the settings file of one harness of each kind: one whose
installer reads a file that is no JSON as empty (Claude Code, Cursor), one whose
installer gives up (Gemini).  A file has a `text` (none, empty, ok, broken) and the
keys that are in it: entries, "logging", our hooks ("own"), what the user has there ("users").
A command is a `plan` of edits; an edit is `Read`, `Truncate`, `Write`, because a command may die between
them.  `Break` is the user who leaves a file that is no JSON.

## 4. Runs

| Run | Question | Bounds | Result |
|---|---|---|---|
| `file_lock` | Does the lock exclude, clean up, and end every wait? | 3 processes, 4 inodes, 8 modes | holds, 22,778 states |
| `state_manager` | Are updates atomic, in every mode that excludes? | 2 processes, 3 inodes, 3 updates of 2 keys | holds, 1.7 million states |
| `init_state` | Does `init_state` keep what is stored? | 2 processes, 1 update | **violated** |
| `cursor_stops` | Do stops close their own turn, once, and do late events stay out? | 4 hooks, 2 generations | holds, 0.7 million states |
| `cursor_fair` | Is a closed turn sent? | 3 hooks, 2 generations | holds |
| `cursor_delivery` | What survives crashes, failing files, reused ids, any order? | 3 hooks, 2 generations, caps of 1; closings, joiners and overlapping stops as three environments | holds, 0.7 million states |
| `cursor_late` | Do late events stay out whatever overlaps a stop? | 5 scripted hooks | **violated** |
| `claude_turn` | Are turns and observations kept until sent, retried under the same ids, and apart from each other? | 3 hooks in nine environments, 4 in two of them; 1 tool, 1 subagent, 2 transcript lines | holds, 0.9 million states |
| `claude_command` | Is a command reported with its own turn? | 4 hooks, no failure, everything in order | **violated** |
| `harnesses` | What do the other harnesses report, what do graph, tree and setup make of their inputs? | below | holds, 1.1 million states |
| `opencode_output` | Is the output of a root an answer of its own turn? | 3 snapshots, 2 turns | **violated** |
| `codex_usage` | Is a total that was reported before summed again? | 5 records, 2 turns | **violated** |

Why the bounds are enough.  *Locks*: three processes are a holder, a hook that breaks
the lock and one that is refused or comes in behind them; each has one descriptor, and
with the path's own inode four inodes let every one of them be distinct.  *State*: two
processes make every interleaving of one read-modify-write with another, a third
update observes the result; two keys tell a lost update from an overwritten one.
*Cursor*: an incident takes a prompt, the racing pair that goes wrong and, for
late events, one more; caps of one make every cap bite at the second entry, and
`cursor_delivery` has a marker cap of one to include forgotten markers.  The hooks
and generations are symmetric in the runs with SYMMETRY; `cursor_fair` and `cursor_late`
use the constraint `StartedInOrder` instead, which keeps one representative of each
permutation of the interchangeable hooks and is sound for liveness because it only
orders the naming of hooks that have not begun.

*Claude*: a prompt, the stop that exports it, and a third hook that changes what the
stop has read (a result, another prompt, a second stop); a fourth for a failed export
that is repeated after something new arrived, and for a command with two prompts.  Two
transcript lines are a call and its result, or one line before the turn and one in it.

*The small harnesses.*  `Harnesses` puts eleven state spaces side by side; the variable
`harness` says which one a behaviour belongs to, so that the run is eleven separate
checks and a property is about one of them.  `MCHarnesses` adds the bounds.

| Module | Bounds |
|---|---|
| `OpencodeReconcile` | 3 snapshots, 2 turns of one answer each, one of which runs a sub-agent, 1 death |
| `GeminiTurn` | 5 events, 1 death |
| `OmpRun` | 5 events, 1 death; 2 where nothing overlaps |
| `CopilotTurn`, `KiroTurn` | 6 events, 1 death |
| `AntigravityMark` | 3 hooks, 5 records, answers of up to 2 calls, 1 death |
| `DevinFlush` | 3 flushes, 3 nodes, 2 sessions, 1 death or 1 failing access |
| `CodexRollout` | 1 notification, 5 records, 2 turns |
| `ClaudeTree` | 4 records (3 where some are odd), 2 sub-agents, 2 messages, 2 turns |
| `EventGraph` | 3 events with any ids and parents, 2 validations, 1 finding of others |
| `Install` | 4 commands, 2 harnesses, 1 death, 1 broken file |

A turn takes a prompt, a call with its result and a stop, or a prompt, two chunks and the
end; five and six events leave room for the prompt of another turn before or after, or for a
second call.  Three snapshots are a newer one, an older one and a close.  Three events
are the smallest cycle with a tail; two validations are the first and one that
has to replace it.  Five records are two turns with their starts, a count each and a
repeated one, or a turn with a call whose output comes after the next start.

The constraint `Bound` explores a rarer circumstance (a death, an overlap, a sub-agent, a
second session) with one hook or record less than the plain case, and not two of them together where
that is too many states; so it bounds the instance and says so.  The action constraints only drop
orders of steps that commute or names that are interchangeable.  `FirstFirst`: hooks
begin in the order of their numbers.  `InOrder`: a hook that is at its first, private step
moves on at once; inside opencode's handler lock nobody else can write; the
transcript of Antigravity, the database of Devin and the rollout of Codex are written while no hook runs,
unless the behaviour is one with overlaps (a hook reads them in one step, so that what is
written before and after that step is all that matters); a sub-agent of Claude Code
writes its file before those that wait for it go on; ids of events are used in their order.

Deadlock is checked for the lock.  It is not checked where a behaviour may end: every
Cursor or other hook handles one event, and the updates of `StateManager` are bounded by `MaxOps`.

Fairness.  `file_lock` assumes weak fairness of each process inside `__enter__` and
none of the holder, which may hang.  `cursor_fair` assumes weak fairness of the steps
of each hook: a process that was started is scheduled by the operating system and
its handler has no loop that waits for another one; events themselves need not come.

### What the violated runs show

- `init_state`: the first hook of a session can wipe what the second has just stored.
- `cursor_late`: a stop marks late aliases after everything else, and during that window
  an event of the closed turn joins the next one.  If stops do not overlap with prompts
  (`Orderly`) this cannot happen, which `cursor_stops` checks.

- `claude_command`: a turn that was interrupted has no Stop and stays open.  The
  expansion of the next command arrives before the prompt it belongs to, whose fail-safe
  exports the old turn with the new command and deletes it.
- `opencode_output`: the close snapshot of turn 1 is fetched after the user has typed
  the next prompt.  Walking it, the hook takes the answer of turn 1 as final, then meets prompt
  2, closes turn 1, opens turn 2, and sends the root of turn 2 at once, with that answer.
- `codex_usage`: rate limits arrive between two turns' model calls and repeat the last
  total; the walk compares totals within one turn only.

More things the models taught, stated as conditions of properties rather than
as defects: overlapping prompts, or the clean-up of a session end that races a
prompt, make a turn disappear unsent (`TurnDelivery` allows it only when `lossy`); and a
stop closes another turn than its own only if prompts overlap.  In Claude's hooks two
prompts that overlap can both open a turn (`TurnKeptUntilSent` asks for serial
prompts); a prompt that dies or loses an update while it opens its turn leaves it
without a starting line, and the lines of earlier turns are billed again
(`TurnsShareNothing` is stated without crashes); a second session start
that finds no session yet resets the count of turns (it asks for hooks that wait); lines written
between the parse of a stop and the next prompt are in no payload; a result recorded
after the tree of its turn was sent stays in the buffer until the session ends.  In the Cursor
hooks the duplicate check of a thought needs the active turn: a redelivery that was
resolved before the turn closed is sent again.  Of two hooks that break a hung lock
together the second gets BlockingIOError from the reopened file and drops its update.

The small harnesses:

- *opencode*: a child session that has gone when the turn closes still gets its agent span
  (`Finalizers`); after a death spans are sent again, under the same id.
- *Gemini*: overlapping chunks lose text, but never move it into another turn.
- *omp*: a last turn_end that agent_end overtakes may open a trace that agent_end then
  clears by half: its spans stay without a root, which `RunsReported` allows where events race.
  After two deaths a root may carry the answer of the run before: one hook dies between its removals
  of the trace and of the answer, the next start between opening its trace and emptying the
  answer.  With one death only the death of the start of the answer's run does that.
- *Copilot*: a prompt overwrites a turn that was not stopped, whose root is never sent; calls
  without an id share the key of their start.
- *Kiro*: calls that run side by side take each other's slots; with calls in order the
  slots hold, whatever refused calls have left in them.
- *Antigravity*: a PreInvocation that comes before the request of its turn is in the
  transcript stores a watermark below a turn that the version before had sent, and the next Stop sends that
  turn again (`world.early`); records that are written after the Stop of their turn
  are never sent.
- *Devin*: a mark that cannot be read counts as absent, so that a generation is sent
  twice and never dropped; a flush takes the most recent session of the directory, which may
  be another than the one that stopped.
- *Codex*: what reaches the file after the hook has read it is not reported, an output after the next
  start is lost, and of two searches side by side one takes the other's id.
- *Event graph*: after a merge the finding "missing_parent" of a sub-graph stays among the
  diagnostics.  *Transcripts*: a sub-agent of a sub-agent whose id sorts before its
  parent's is not matched and stays pending, since descriptors are taken in the order of their ids.
- *Setup*: Claude's and Cursor's installers overwrite a settings file that is no JSON, Gemini's
  refuse; an uninstall over such a file leaves the hooks and removes the entry; a
  full uninstall goes on after a failing harness and deletes the runtime its hooks call; a command
  that dies over config.json leaves an empty file, and every harness is forgotten.

## 5. Proofs

`StateManager_proofs` proves, of `FileLock`, `TypeOK`, `NoStrandedLock` and `MutualExclusion` for any set of
processes, inodes and modes.  `MutualExclusion` alone is not inductive; the invariant
adds that a lock holder is inside on that very inode (`NoStrandedLock`) and that, in
the modes that exclude, every open descriptor refers to the inode of the path.

Of `StateManager` it proves `StateTypeOK` and, from it and mutual exclusion, that every
change of the stored dict is one update applied to the stored dict (`UpdatesAreAtomic`,
`ImplementsAtomicState`).  The invariant says that what a process inside has read is
still what is stored.

`Positions_proofs` has the lemmas about sequences and numbers that the others need.  `SelectSeq` is
defined by recursion over sequences, about which the provers know nothing.
`ElementsAt(s, I)` counts instead: its n-th element is the one at the n-th smallest position
of `I`.  `ElementsOfPositions` says that it is a list of `Cardinality(I)` elements, those at the
positions of `I`, in their order.  `CursorTurn` and `DevinFlush` filter with it.

What a walk has got after n records is proved by the least n for which it fails: `UpTo` and
`Between` say that a set of numbers which has the first and with each the next has them all, and
`Recursion` that a function whose values are given by the value before exists and has them.  These need no
theorem with an operator as its parameter, so that the readers can be reasoned about.  The lemmas about
`Append`, `\o` and `Tail` (`AppendAny`, `ConcatAny`, `TailAny`) say what elements a sequence has and
where, without a type for them.

### Cursor

`CursorTurn_proofs` holds for any number of hooks and generations and any caps, and, where a property does not exclude it, with crashes and failing files.

- `RootAtMostOnce`.  The invariant (`TurnInvariant`) has three parts.  `StateType` types the
  state.  `Resolved` says which local variables are set at which stage.  `OneOwner` is the
  argument: a turn belongs to the disk (`active`) or to one hook that is closing it, never to
  two, and a root that has been sent belongs to a hook past the sending.  Every
  action moves ownership in one direction, since removing the turn and reading it are one
  locked operation.
- `ParentsShareTrace` says something of spans only.  `TracesAgree` carries it back to where
  a parent comes from: the active turn, the saved roots, the stacks and every hook's copies
  name a prompt or session start of their own generation.
- `SourcesUsedOnce` needs to know where a response or a command is before it is
  sent.  `SourcesApart` gives it one home: its own hook, the active turn, a hook
  that will send it, one entry of one stack, or one span.
- `CursorTypeOK` in full, from `Grounds`: the three invariants above, and that the ids of a turn
  and the markers are lists without repetition of generations that events have carried.
- `StopOncePerGeneration`, from `OneClaim`: the ids that a stop has claimed, or a stop span reports,
  are marked, and two claims share none.
- `StopsItsOwnTurn`, from `StopsInv`.  Where prompts and session ends come one after the
  other, no turn is open behind the flush of one of them (`SteadyOrder`); the generation of a prompt
  that is over is marked, belongs to the open turn or is about to be marked
  (`EndsMarked`); and an id that may still become an alias is of no prompt's generation.  Hence the turn
  that a stop finds when it clears under an id it has claimed is the one it resolved to.
- `LateEventsStayOut`, from `LateInv`: the ids that a root span reports are marked, or the stop
  that sent it still has its turn in hand and will mark them, and while it has, no turn is open.
- `ImplementsDelivery`, from `DeliveryInv`: under the refinement mapping `Status` each step
  of a hook is a step of `TurnDelivery` or none.  The invariant adds that the turn a hook
  has in hand will be sent by that hook or has been (`MineSent`), so that it is not let go
  unsent unless the hook dies, and that where prompts come one after the other a turn is stored
  over none (`SteadyOrder`), so that only lossy environments lose one.

The three theorems about stops and late events have the hypothesis `Few`: events have carried no more
generations than the marker file has room for.  Beyond that the promises stop, because the code
pushes out the oldest marker and then accepts a stop or an event of that generation;
`cursor_delivery`, with a marker cap of one, explores that.  `StopOncePerGeneration` and
`LateEventsStayOut` are proved in each state of any behaviour in which `Few` holds so far, since `used` only
grows.

### Claude Code

`ClaudeTurn_proofs` holds for any number of hooks, tools and subagents, any transcript and
in every environment.

- `TurnKeptUntilSent` and `ObservationKeptUntilSent`.  A step that takes the turn away is an
  acknowledgement, a session end, or a prompt that opens a turn over an open one; the inductive
  invariant (`TurnInvariant`) says what excludes the bad cases: a hook at "ack" has sent
  its turn with its observations, successfully (`SentBeforeAck`); where prompts wait for each
  other one is running at most (`OnePrompt`), and no turn is open while one is about to open
  its own (`NoneOpen`), because only a prompt opens turns.  The second follows from
  `SentBeforeAck` and the comparison in the acknowledgement: what it removes is still
  what was found when the tree was built.
- `StableIds` and `TurnsShareNothing` relate the payloads of the whole history.  `SerialInv` relates
  each of them to the state instead: the ids in the trees of the open turn are stored
  (`IdsStored`); the lines of other turns are below the start of the open one, their numbers below
  its count, their commands gone, but for an acknowledgement that is due
  (`TurnsInOrder`); and the one hook that is waited for exports the open turn with the stored ids and
  lines behind its start (`HoldsTurn`, `KeepsOrder`).
- `StopCloses` is an action property that follows from the same invariant and the stages
  from which a stop or a prompt can end.

### The small harnesses, the readers, setup

`HarnessTurns_proofs` (Kiro, Copilot, Gemini), `HarnessItems_proofs` (Devin, opencode),
`HarnessRecords_proofs` (Antigravity, Codex, omp) and `HarnessTrees_proofs` (the event graph, Claude's
tree, setup) prove properties of `Harnesses`, whose behaviours are those of one harness each.

- `StepsReportedOnce` (Devin).  What a hook has looked up is in the file or in its list
  (`Known`), what it has passed in its list has been sent (`Out`); so the file and the flushed
  steps are a part of what was sent, whatever fails.  In steady behaviours the converse: what was sent is in the
  file or in the part of one hook's list that it has still to write.
- `WatermarkHolds` (Antigravity).  The turns up to the watermark, and up to the mark of a hook in
  its loop, have been sent by this version or the one before; in calm behaviours what was sent
  is not above that mark.  A watermark below a turn of the version before comes from an early
  PreInvocation only.
- `CallsPaired` (Antigravity).  `AnLog` says of any transcript that can come about where the calls of
  a turn are and that a result is of a call before it.  `Built` after e records has in its steps and in its
  pending calls together each call so far, in their order, each step with the result it got
  (`AnWhole`); a payload is that at the end of its turn, and the transcript only grows (`AnPairs`).
- `OneSpanEach` and `SpansInPlace` (opencode), from `OpInv`.  A hook inside the lock is
  described by what it has still to do: the steps of the item it is at, which come in one fixed order
  of kinds (`OpOrdered`), and its items to come.  An id is reserved before its span is sent and never
  changed (`OpReserved`); while nobody dies, what is sent is marked, or the mark is among the steps due
  (`OpMarked`).  A turn is closed by steps that all come, root first, then mark, then removals (`OpCloses`),
  opened when the one before is closed (`OpOpens`), and its root has one id and its trace is its own
  (`OpTurn`); spans are in the trace of their turn unless that turn was closed before (`OpPlaces`).  For
  `SpansInPlace` a child whose answer was sent is remembered until its agent span is sent
  (`OpChildren`), and every answer or tool to come has its prompt in the dict or before it in
  the items (`OpItems`).
- `SlotsHold` (Kiro), from `KiInv`.  An event belongs to the turn of the last prompt
  before it (`TurnOf`), and no event of a turn comes after its stop (`KiLog`).  Events wait for each
  other except those of calls that overlap (`KiAlone`), so the dict has the ids of the last prompt
  whose hook lived until its stop clears them (`KiOpen`), and what a hook has read stays
  that of its turn (`KiReads`).  Without overlaps the slot under the counter is that of the
  last call, from its second write to the end of its result (`KiSlots`).  What was sent repeats what was read
  (`KiSent`, `KiReported`).
- `TurnReported` (Copilot), from `CoInv`, which has the same parts (`CoLog`, `CoAlone`, `CoOpen`,
  `CoReads`, `CoSent`, `CoReported`) and two more.  The start of a call is in the dict from the end of its
  first hook until its result reads it, because calls with an id have keys of their own (`CoStarts`).
  The counter is the number of results of the turn that have counted themselves (`CoCounts`): each
  increment is one locked update, and since stop waits for the results, what it reads
  is the number of them all.
- `RunsReported` (omp), from `OmInv`.  Only the last answer of a run and its end run side by side
  (`OmAlone`), and each event has one start before it (`OmLog`, `RunOf`).  While no hook dies the
  dict has the trace of the run from the end of its start until its agent_end clears it, and an
  overtaken answer that opens a trace does so after that (`OmOpen`); agent_end holds the last answer
  on its way to the root (`OmEnds`), and a trace that has a root is about to be cleared
  (`OmRoots`).  Where nothing overlaps, a span's trace has a root or is open (`OmRooted`).  With
  deaths: the answer in the dict is of a run in which the open trace was opened, or the start of that
  run or the opener of the trace died (`OmAnswers`, `Fits`).
- `TurnsGetRoots` and `TextOnceInItsTurn` (Gemini), from `GeInv`.  A hook goes from place to place
  without a lock, and its copies of the trace and the call are still those of the dict, because
  what may run beside it (tools; chunks beside chunks) writes other keys (`GeKnows`).  `GeTurns`
  says how far the closing of a turn has come: its root is sent before the trace is
  forgotten, and a trace that a hook knows is open or has its root.  `GeTexts` and `GeSent` say that all
  text of a call that may still be sent was heard in the open turn; `GeOnce` counts: without
  overlaps a chunk is in the text of the call or in one span, and in both only until the flush
  that sent it clears.

- `TurnAsRecorded` (Codex), from `CxInv`.  Starts and searches are numbered, totals do not fall and an
  output is of a call before it (`CxLog`).  After n records a walk has nothing but the number
  of starts, or what lies between the start of its turn and the next one, or the end of what it has
  seen (`CxWalk`): the calls there in their order with their outputs (`CxCalled`), each model call
  counted once (`CxCounted`), and no id taken by two searches, because the id that waits is above all that were
  taken (`CxSearched`).  A payload stays what the records up to its reading say, since
  the rollout only grows (`CxFound`).
- `DiagnosticsSayWhy` (event graph), from `GrInv`: the diagnostics are the findings of others and those
  of the last validation.  What needs a proof is that the walks are right, for graphs of any size.
  A walk up from an id either ends or comes back to where it was after as many steps as there are events, by
  the pigeonhole principle; what it goes round is a smallest closed set, so that the cycles which
  `validate` reports are exactly the `Loops`, and cutting each at its earliest event leaves no loop.
- `TreeAsRecorded` (Claude's tree), from `TrInv`.  Messages and calls are of one file each (`TrLog`) and
  numbered as they come (`TrNumbered`), a sub-agent is of one call (`TrWorld`).  For one file, `TrPart` says which events its first n lines have
  given: one answer per message with all its lines, a tool per call below its answer or below the root,
  each result at the first tool of its call.  Each of the two kinds of line is shown to go
  from the n-th `TrPart` to the next.  A merge is an insertion behind a tool; it moves
  the places and adds the events of one file (`TrWhole`), and sub-agents merged later leave what was
  merged before in place.  As no edge of such a tree leads nowhere or into a loop, `SafeParent` cuts none.
  An exported tree is told about as long as nothing more has been written, and two trees
  share no sub-agent, because its descriptor goes with the first (`TrExports`).
- `NothingLeftBehind` (setup), from `InInv`.  One command runs at a time, and the rest of its plan
  says what holds already (`Due`): before hooks are registered their entry is in config.json, before an entry is
  removed the hooks are gone, before config.json is wiped every harness has been asked.  An edit under way
  will write what it read plus its own change (`Edits`); a file that is no JSON or torn by
  a death is excluded by name (`Sound`, `Users`).

### Assumptions, and what is only model-checked

Assumptions: the named ASSUMEs of the modules (the extra values differ from the real
ones, caps are positive, bounds are numbers, sub-agents are listed once), which TLC evaluates on the
instances.  The bounds on events, records, deaths and hooks in the modules stay constants in the
theorems, so that they hold for every value of them; the constraints of `MCHarnesses` are not assumed.

Only model-checked: liveness (`NoEndlessWait`, `ClosedTurnIsSent`), which is out of the reach of the
provers, and the properties of the five runs that are violated.

## 6. Not modelled

- Sending (`send_span`, OTLP encoding, `redact_content`, `build_span`): data and one HTTP
  request per span.  Its failure is modelled where the code looks at it (`ClaudeTurn`).
- Backend resolution: a fixed order of lookups in one process.
- The contents of spans: names, attributes, texts, times, token sums other than Codex's and
  the usage of a merged answer.
- Prompts of setup, skills, status, update, migration of an old config.yaml, CLI dispatch and
  install scripts: no state shared with anything but what `Install` has.  The installers of the
  other harnesses have the skeleton of `Install`, with files of another format.
- Benchmark and scripts: development tools.
- The mkdir fallback of `FileLock`: both platforms the hooks run on have one of the two
  other implementations.
