# A formal model of EvuHarness

EvuHarness is a TypeScript library for chat sessions with language models: it stores
sessions, runs turns (a provider call, tool calls, gates at which a person decides), streams
events to clients, and brings a React interface to them. This directory holds TLA+ models of
the parts of it where interleaving, failure and order decide whether it is correct, the TLC
runs that check them on small instances, and proofs that TLAPS checks for every size.

The models are translations of the code under `src/packages`. `PROJECT.json` says for each
definition which lines it stands for, lists the hazards of the code with the line where each
bites, and records the runs, the mutants that show a property can fail, and the theorems.

## Contents

1. [The system](#the-system)
2. [The modules](#the-modules)
3. [What each run shows](#what-each-run-shows)
4. [Bounds, fairness and assumptions](#bounds-fairness-and-assumptions)
5. [What is proved](#what-is-proved)
6. [Disagreements with the documentation](#disagreements-with-the-documentation)
7. [The plan](#the-plan)
8. [What is not modelled](#what-is-not-modelled)

## The system

All of the harness runs on one JavaScript event loop: code between two `await`s is never
interrupted, and anything may run at an `await`. The browser has a loop of its own. Several
processes may share one durable store.

| Component | State | Operations | Hard part | What makes it correct |
|---|---|---|---|---|
| session lock (`session-cache.ts` `runExclusive`) | a promise chain per session, the sections held by the current async context | run a section | a chain built from promises, tails dropped by the last caller, re-entry | first come first served, one section at a time, no leaked tail |
| session cache (`session-cache.ts`) | LRU map of records, with an optional TTL | get, upsert, delete, clear, locked read-modify-write | a store call between every check and act; the store may throw; eviction | behaves as one atomic register per session |
| turn admission (`turn-loop.ts` `runTurn`, `cancel`) | live turn, follow-up queue and start lock of each session | send, cancel, request abort | sends that replace the live turn race with each other and with cancels | one live turn; every send taken once, in order; nobody waits forever |
| turn execution and gates (`turn-loop.ts` `executeTurn`, the decision routes; `gate-waiters.ts`) | the waiters; the pending rows, mode, messages and transcript of the stored record | tool approval, plan, mode switch, question, and their decisions | a gate exists in memory and in the store; decisions race cancels and each other; restarts | a decision resumes the call it was about, or has no effect |
| sessions and grants (`harness.ts`, `grants.ts`, grant stores, `server/auth.ts`) | rows, receipts (one-shot) and standing grants by scope, memory rows | create, delete, set, decide, edit memory; add, list, consume once, clear | a receipt must be spent once; a session goes away under its turn; scopes | no call that asks first runs unless somebody allowed it; what is set or deleted stays so |
| turn thread (`turn-loop.ts`, `mode-pinning.ts`, `session-record.ts`) | messages and transcript | per-round writes, cancelled and partial rows | the thread must be one a provider accepts, whatever interrupts a round | results follow calls; thread and transcript agree |
| settings (`settings-store.ts`, `harness.ts`) | one settings row | seed, patch, list models, choose for a session, pin for a turn | whole documents put back with no lock; optional fields; old rows | defaults exist; a patch keeps what it does not name; what is shown applies |
| compaction (`context-compaction.ts`, `rolling-compaction.ts`) | summary and cursor per session | compact, reset | called every round, must be idempotent; tool results stay with their call | what is sent is well formed, and no text gets lost |
| modes, tools, policy (`modes.ts`, `tools.ts`, `mcp-permissions.ts`) | registries fixed at start | select tools, approval rule, compose a prompt | two places that answer one question | a mode offers only its tools, the rule shown is the rule met |
| provider client and wire (`openai-client.ts`, `protocol/sse.ts`, the chat route, `ui/client.ts`) | stream buffers | stream, decode, frame, decode again | chunks split events anywhere; calls come in mixed fragments; timers and aborts | every event taken once and in order |
| session hook (`ui/hooks/use-harness-session.ts`) | the view, follow-up queue, readers and poll loops | send, stop, decide, reload, switch | answers that arrive after the person moved on | sends go once, in order; nothing is left waiting |
| composer (`ui/components/Composer.tsx`, `ui/composer`, `use-context-menu.ts`) | editor, React value, menu, file reads | type, paint, pick, attach, send | three copies of a draft that change at different times | the draft survives paints; the menu is that of the caret |
| settings dialogs (`ui/components`) | drafts | edit, save, choose | what an absent field means | saving changes what was edited |
| context menus, skills | catalogs, a reload cache | list, resolve references | failing resolvers | mostly formatting |
| outbound clients (`mcp-client.ts`, `ssrf.ts`, web tools) | none | requests | I/O | – |
| durable stores (`packages/sqlite`, `packages/postgres`) | tables | rows, transactions | several processes | a write takes effect or throws |
| server (`packages/server`) | none | routes, guard, event stream | a disconnected client leaves its turn running | maps errors to statuses; asks for the capability |
| apps, deployment, scripts | – | wiring | – | – |

How they interact: a route asks the guard and calls the turn controller, which queues the send
and, when its turn comes, runs `executeTurn`. Every record the turn reads or writes goes through
the session cache, and every read-modify-write of a record is a section of the session lock. A
gate writes a pending row through the cache, opens a waiter in the registry and suspends the
generator; a decision route finds the row in the store and settles the waiter in memory.
Decisions leave grants, which later calls consume. A turn is pinned to what the settings row and
the session's record say when it starts. Its events go through the chat route to the browser,
where the hook reads them, and falls back on polling the session when there is no stream.

## The modules

| Module | Role | Code |
|---|---|---|
| `SessionLock` | the promise-chain lock, used by the cache (drops settled tails) and by turn starts (does not) | `session-cache.ts`, `turn-loop.ts` |
| `FifoLock` | what a lock promises: callers line up, the first in line is inside | abstract |
| `SessionCache` | the cached store over a store that may throw | `session-cache.ts` |
| `SessionRegister` | what a store promises: each operation takes effect at one moment within its call, or fails without effect | abstract |
| `TurnAdmission` | `runTurn` and `cancel` | `turn-loop.ts` |
| `SerialTurns` | what the controller promises: an inbox, a turn that takes all of it, one at a time | abstract |
| `TurnGates` | one turn's gates and tool calls, the waiters, the decision routes, restarts | `turn-loop.ts`, `gate-waiters.ts`, `grants.ts` |
| `TurnLife` | what admission and execution expect of each other | abstract |
| `TurnThread` | what the turns of a session write: thread and transcript | `turn-loop.ts`, `session-record.ts`, `mode-pinning.ts` |
| `Compaction` | what of the thread is sent: rolling summary, cursor, truncation | `rolling-compaction.ts`, `context-compaction.ts`, `harness.ts` |
| `Grants` | grants as a bag, and the operators on it | `grants.ts`, `stores.ts`, sqlite and postgres grant stores |
| `Sessions` | several sessions from creation to deletion, people with capabilities, gated memory tools | `routes.ts`, `auth.ts`, `harness.ts`, `turn-loop.ts`, the session, grant and memory stores |
| `SettingsDoc` | the settings document and the pure functions on it | `settings-store.ts`, `protocol/settings.ts`, `model-catalog.ts`, `provider-override.ts` |
| `ToolPolicy` | tools of a mode, approval rules, prompts | `modes.ts`, `tools.ts`, `mcp-permissions.ts`, `agents.ts`, `prompts.ts`, `harness.ts` |
| `SettingsForms` | what the dialogs send, the provider menu, the status bar | `ui/components`, `ui/provider-override.ts`, `ui/k-notation.ts` |
| `Settings` | when the harness reads and writes the row | `harness.ts`, the settings stores |
| `SseFrames` | frames of server-sent events, encoded and decoded | `protocol/sse.ts` |
| `Streaming` | an answer from the provider to the person | `openai-client.ts`, `turn-loop.ts` `streamProvider`, `routes.ts`, `ui/client.ts` |
| `ClientSession` | the session hook against a server | `use-harness-session.ts` |
| `ComposerText` | drafts as text and as editor contents, triggers, menu items | `composer/serialize.ts`, `add-menu.ts`, `protocol/menus`, `core/context-menus` |
| `Composer` | the composer and its menus in time | `Composer.tsx`, `use-context-menu.ts` |
| `MC…` | instances for TLC | |
| `…_proofs` | theorems about the module of that name | |
| `Harness_proofs` | theorems about `Compaction` and `Settings`, which the harness reads on its way to a turn | |
| `Ui_proofs` | theorems about `ClientSession`, `Composer` and `Streaming` | |

`SessionCache` and `TurnAdmission` each contain an instance of `SessionLock` over their own
variables and take its steps as parts of theirs. `TurnAdmission` and `TurnGates` split the
turn: the first shows only that a turn works, waits, ends, and when it is told to stop; the
second shows one turn after another from the inside. Both are shown to implement `TurnLife`,
which is what justifies looking at them separately. `TurnThread` looks at a third side of the
same turns, what they store, and leaves gates and admission alone; `Sessions` a fourth, what a
decision in one session permits there and elsewhere; `Streaming` looks into one provider call.
These modules write the record in single steps (or, for the plan and mode-switch decisions of
`TurnGates`, hold it over several); that is what `SessionCache` and `SessionLock` show of a
section.

`Settings` extends `SettingsForms`, which extends `ToolPolicy`, which extends `SettingsDoc`: the
last is the document, the others read it. `Composer` extends `ComposerText`, `Streaming` extends
`SseFrames`, `Sessions` extends `Grants`: in each pair one module has the functions, the other the
time at which they are applied.

### SessionLock

`tails[s]` is the promise stored for session `s`, named by the call that put it there
(`NoCall` is an absent entry); `previous[c]` the promise call `c` awaits; `phase[c]` where the
call is. `Enqueue` is the stretch up to `await previous`, `Enter` its return, `Leave` the
`finally` block. `ticket` and `arrivals` are history: the order of arrival, which the
refinement of `FifoLock` and the proofs read. Re-entry from inside a section (`held`) runs
without queueing, and is in `SessionCache` as the nested calls of a "modify".

### SessionCache

One action per stretch between awaits: `Hit`, `Miss`, then the store's answer (`InnerGet`,
`InnerUpsert`, `InnerDelete`, or `InnerThrows`), then the cache's reaction (`Fill`,
`StoreCopy`). `recency` is the order of the Map the code re-inserts into. A record is told apart
by the set of writes it carries, which is enough to see a lost or resurrected one. With a TTL
an entry may be taken as expired whenever it is looked at.

### TurnAdmission

A send is `SendDuringTurn` or `SendWhenIdle` (up to its first await), `Replaced` (the turn it
cancelled has finished), `StartTurn` or `StartEmpty` (behind the start lock), and for the starter
`DecideTerminal` and `EndTurn`. `AbortLive` is the synchronous part of `cancel()`. A cancel with
no live turn (`CancelNothing`) does not stop a send that is queued or starting, as in the code.
`RequestAborted` is the listener on the request's own signal, which exists only while the turn
that request started is live. `sent` and `past` are history.

### TurnGates

`at` is the place of the turn in `executeTurn`; each place is an await. `rows`, `mode` are the
fields of the stored record, `waiters` the registry, `snapshot` what a gate read before it
writes (`latest`, `latestBefore`: outside the lock). A decision call goes through `stage`;
`lock` is held from `EnterSection` to `SettleLocked`, as `withSessionLock` around
`decidePlan` and `decideModeSwitch` does, while `decideToolApproval` and `answerAskUser`
(`FindRow`, `SettleFound`) take none. The four kinds of gates share the actions; where they
differ (which rows they clear, what a rejection does, who resumes where) the actions say so.
`Crash` keeps what is stored, that is `rows`, `mode`, `receipts`, `standing`, and loses the rest.
`accepted`, `minted`, `ran` and `lastMode` are history for the properties.

Writing the pending row and opening the waiter is one step: the turn resumes from the write
before any call that was queued for the record can have read it, since such a call has the
await of the lock and that of its read still before it.

### TurnThread

`messages` and `transcript` are the two lists of the stored record; `record` is the variable of
that name in `executeTurn`, what the last write returned and what the next round sends; `loaded`
is the record as the turn found it. A message is told apart by the turn, round and call it belongs
to; a row by its kind, the calls whose results it lists, and whether it is partial, cancelled or
complete. `at` is the place in the loop, `tools` is `turnTools`, `content` whether the last stream
had text. The kinds of calls that write alike are one action: `TakeTool` and `ToolReturns` stand for
tools, skills and denied gates, `RaiseGate` for plans and mode switches, `RaiseQuestion` and
`QuestionAnswered` for `ask_user`, whose exchange is shown in rows of its own. `Throws` is any
exception inside the `try`, at any await, `Recover` its handler, `RecoverThrows` a handler that
throws in turn, `Crash` a restart.

A write reads the record again and replaces the list: that nobody else writes messages or rows in
between follows from one turn being live at a time, which `TurnAdmission` shows.

### Compaction

`thread` is `rest`, the messages behind the leading system ones, as kinds; `compaction` the record's
field, with `through` for `throughIndex + 1`. A call of the hook is `ReadSettings`, then
`LoadAndKeep`, `LoadAndDrop` or `LoadAndSummarize`, then `Summarized` or `NoSummary`, then
`SaveState`, one action per await; `TruncateOnly` is strategy or feature "off". A summary is the set
of messages it was made from (`held`); `dropped` holds those left out by strategy "drop" or because
`formatBatch` cuts the text of a batch at 12,000 characters (`Texts`: any end of the batch beyond
`BatchText` messages may be cut off). The 800 characters it keeps of each message are not modelled.
`alignThrough`, `snapKeepFrom`, `snapEnd` and `dropLeadingOrphanToolMessages` are the same search
for the next message that is no result (`AfterResults`). `Reset` may come at any time, for no lock
spans a call.

### Grants and Sessions

A grant is [scope, scopeId, tool, digest]; the store is a bag of them, because receipts for the same
call may be given twice while a standing grant is kept once. The digest of a call is the call itself:
the code's hash does not depend on the order of properties. `ConsumeOnce` finds and removes a receipt
in one statement, as the stores do.

`records` are the rows of the session store or `Gone`; `turn[s]` the live turn of a session: its place,
the gated call it works on, whether the call is a plan's step, and the verdict of its gate; `req` the
requests, each an actor, a body and how far it is; `rules` the rule in force for each tool, which the
settings store or the tool brings along. `Arrive` is the guard with the capability each route
names. `DeleteRow` and `DeleteGrants` are two steps, and the live turn goes on between and after them.
`Take` asks the tool's rule: a call of a tool that is always allowed runs at once (`verdict` is then
"unasked"), and `SetRule`, an administrator's `PATCH /settings`, changes the rule at any time. `Check`,
`List`, `Ask`, `Resume`, `StoreGrant`, `Spend`, `Run` and `StoreResult` are the awaits of a call that asks.
`SetPin` and `Persist` are what writes the row: each reads it again under the lock and
leaves it alone when it is gone. The tools that run are those of memory, since what they change is in
the model. `lastSet`, `allowed` and `owed` are history: what people last chose, and what they
allowed, standing or once.

### SettingsDoc, ToolPolicy, SettingsForms and Settings

An object with optional fields is a function whose domain is the set of the fields that were sent, so
that "absent", "null" and "empty" differ as they do in the code. A list keyed by id is a sequence,
because the order picks defaults. `Normalize` fills in a row of an older version,
`ApplySettingsUpdate` is a patch, `PublicSettings` the redacted view, `SelectProvider` the choice of
profile and model. `ToolPolicy` has the two answers to "does this tool ask first" (`EffectiveApprovals`
for the page, `ToolApprovalRule` for the call) and the sections of a prompt. `SettingsForms` has the
dialogs as functions from view and draft to the patch they send.

In `Settings` `row` is the one row of the store, `session` what a record says of provider and agent,
`op[o]` an operation under way with the document it has loaded (`base`). Loading is `Load` (with
`Loaded` deciding whether there is a seed to write), `PutSeed`, and then the operation's own step:
`Read`, `Patch`, `ListAsks` and `Listed`, `SetProvider`, `SetAgent`, `PinTurn` and `SelectForTurn`. Each
is the stretch between two awaits and works on the document loaded before. `Restart` forgets what is
under way.

### SseFrames and Streaming

A data line is two units and a newline one, so that a network can cut a line in the middle and a
frame before its last newline. `ParseChunk` is `parseSseChunk`, used by both readers. `Streaming`
follows one call: `Respond`, `Read` (a chunk), `Handle` (one part of the buffer: text, a thought, a
fragment of a tool call), `StreamCloses`, `NetworkFails`, `Timeout`, `StopTurn` (the turn is told to stop),
`CutOff` (the fetch rejects), then `Finish`, the turn's own last event. `SendEvent` frames what the turn
yields if anybody listens, `Ping` is the keep-alive, `Disconnect` a person who leaves, `ClientReads`
the other decoder.

### ClientSession

`view` is what is shown, `queue` is `followUpQueue`, `drain` where `drainFollowUps` is, `abort` the
chat that `abort.current` belongs to, `loops` the poll loops (an old `watchGeneration` makes one
stale), `reloads` and `posts` the calls that are under way. The server is `chats` and `server`: a
send waits, is live, is told to stop, raises gates, ends; its answers (`AnswerLoop`, `AnswerReload`,
`AnswerCancel`, …) are computed when they leave the server and arrive later, in any order, or not at
all (`Fault`). It is `TurnAdmission` in short: sends that arrive replace the live turn. Sends are
numbers. Tokens, rows and modes are left out: the view keeps the gate, whether a turn is shown, and
whether there is an error.

### ComposerText and Composer

A draft is a sequence of characters and chips in the editor (`dom`), and wire text with refs and files
in React (`value`). `Serialize` reads the editor, `PaintComposer` writes it; the payload of a file is
on no chip and is taken over from the value before (`MergeComposerAttachments`). `DetectTrigger` finds
the trigger at the caret, `ListItems` what a menu level lists. `Composer` has one action per event,
with the effects React runs for it: `Type`, `MoveCaret`, `Backspace`, `Pick`, `DrillIn`, `Fetched`
(the answer of a menu request, however late), `AddFiles`, `FileRead` (one file at a time, into the
value the job started from), `Submit`. `needsPaint` and `attaching` are the two refs of the component.

## What each run shows

| Run | Instance | Distinct states | Result |
|---|---|---|---|
| `session_lock` | 5 calls, 2 sessions | 3,818 | passes |
| `session_cache` | 5 calls, 2 sessions, room for 1 entry, TTL | 344,898 | passes |
| `turn_admission` | 3 sends, 1 cancel | 9,626 | passes |
| `turn_gates` | 2 decision calls, 2 turns, 2 gated calls, 1 restart, 2 modes | 312,060 | passes |
| `turn_gates_late` | the same without restart | – | finds the violation below |
| `turn_thread` | 2 turns, 1 tool round and the capped one, 2 calls a round, 2 exceptions or restarts | 335,012 | passes |
| `compaction` | threads of up to 7 messages, 2 results a message, batches of 2, 1 or 2 recent messages, a budget or none | 996,065 | passes |
| `sessions` | 2 sessions of which one exists, 3 people, 2 requests, 2 calls of one tool, 2 turns, 2 calls of turns, a rule that may change | 2,525,340 | passes |
| `settings` | 2 operations at a time and 3 in all, 2 providers, 16 patches, seeds with a default that is off, an old row or none | 284,661 | passes |
| `streaming` | 3 answers, chunks of up to 5 units, 2 keep-alives | 250,560 | passes |
| `client` | 2 sessions, 2 sends, 1 trouble | 388,423 | passes |
| `composer` | 6 menu items, 3 keys, 2 files, 5 events | 426,049 | passes |

`session_lock`
- `IdleSessionHasNoTail`: the map of tails does not grow with sessions nobody uses.
- `ImplementsFifoLock`: one section of a session at a time, entered in the order of arrival.
- `EveryCallGetsIn`: with the order above this is all a fair lock promises, so `FifoLock` states no fairness
  of its own.

`session_cache`
- `Coherent`: a cached copy equals the stored row, except while the section that wrote the row
  is about to cache it.
- `ImplementsRegister`: no interleaving of reads, writes, failures, expiry and eviction can be
  told from an atomic register per session.

`turn_admission`
- `ImplementsSerialTurns`: the controller is an inbox and a turn that takes all of it, one turn at a
  time; no send is lost, taken twice or overtaken.
- `EverySendIsTaken`, `EveryCancelReturns`: also when the live turn stands at a gate that nobody
  decides.

`turn_gates`
- `OpenGateIsPending`: no turn waits at a gate the routes cannot find.
- `RunsAreAuthorized`: gated calls never run more often than they were approved, whatever is
  cancelled or crashes between the steps. An `allow_once` whose turn dies between storing and
  spending its receipt authorizes one later call instead.
- `PlanMintsOnce`: without a restart, a plan approved by two people mints its receipts once. The
  lock is what does it: the mutant without it is a store with `cache: false`.
- `ImplementsTurnLife`, `CancelEndsTurn`.

`turn_thread`
- `ResultsFollowCalls`: a stored result stands right behind the earlier results of its round, and
  they behind the message that makes the calls. No order of failures, cancels and restarts stores a
  result twice, out of order, without its call or behind another message.
- `ResultsAreShown`: every result the model is told is in a row of the transcript.
- `PartialRowsAreExplained`: a row that stays partial is followed by a question or by the next
  turn's message, or it is the last and its turn failed or died; a turn that is done or cancelled
  leaves none at the end.
- `HistoryIsKept`: no step changes or drops a message, or a row other than the partial one at the
  end.

`compaction`
- `SentIsAnswerable`: whatever cursor, batch, recent tail and budget cut away, a result that is sent
  stands behind the message that made the call.
- `TextIsAccounted`: what is behind the cursor is in the summary or was left out of it knowingly,
  results aside.
- `CursorAdvances`: short of a reset, a saved state never replaces one that had folded more, and a
  summary keeps what went into the one before.

`sessions`
- `RunsAreCovered`: a call that runs was taken up when the rule of its tool asked for no approval, or a
  person with the capability to decide allowed it, in that session, in its workspace, everywhere, or once,
  for these arguments. Neither a receipt nor
  a standing grant that outlives its session, a turn or a second request with the same call changes
  that. The mutants look receipts up by tool, or do not spend them.
- `PinsAreLastSet`: what a session is set to is what was last asked for and accepted. The turn's own
  writes, from a record it read long before, do not put back what a person changed meanwhile.
- `DeletedStaysGone`: nothing that was under way when a session was deleted writes its row again.
- `MemoryIsGuarded`: memory changes by an administrator's request about it, by a call somebody allowed, or
  by one that the rule of its tool lets run unasked; and the rules change by an administrator's
  request alone. The mutant lets anybody who may chat send such requests.

`settings`
- `DefaultsExist`: whatever removals, deactivations, explicit nulls, seeds and stale writes of whole
  documents came before, the default provider is stored and active, the search default is stored,
  and no list has an id twice. One case is left out, and stated: a default that is off, while profiles
  and default are as the host seeded them (disagreement 9). The first patch moves it.
- `ShownIsApplied`: when nothing is under way, what the browser shows is what applies. The rule of a
  tool on the settings page is the one a call meets (`RulesShownAreMet`); the status bar names the
  provider, model and window a turn uses (`BarShowsWhatIsCalled`, with the exceptions under
  [Disagreements](#disagreements-with-the-documentation)); a form that is saved as it was opened
  changes nothing, and a switch changes its flag alone (`FormsSaveAsShown`).
- `TurnIsAsChosen`: a turn in a reading mode has no tool that changes anything unless the tool asks for
  the mode by name; its prompt has no empty section; the provider a request or session named is the
  one that is called, or no turn runs.
- `PatchKeepsTheRest`: a patch that is put, late or in time, is the document it loaded with what it names
  changed. No entry appears or goes that was not named; an entry that is written keeps those of its
  optional fields that were not sent (key, windows, overrides, switch, url, permissions), any other all
  its fields; prompts, policies, rules and compaction stay where they were not sent; and a default that is
  not named moves only when its entry goes or is off, or there was none. What others stored between
  the load and the put is undone, for there is no lock (disagreement 8): no property forbids that.

`streaming`
- `MessageIsAsSent`: a message that is complete is what those frames meant that came in full, however
  they were cut, however the fragments of calls came mixed, and wherever the stream closed.
- `StoredIsShown`: what a turn keeps of a stream is the text that was shown, whether the stream ended,
  broke or was stopped.
- `SeenIsShown`: the browser sees the events in order, without gaps, and all of them if it stays.
- `EveryStreamEnds`: a provider or network that falls silent holds no turn.

`client`
- `SendsGoOnceInOrder`: no send goes out twice or overtakes an earlier one, whatever drains,
  recoveries, aborts and switches come between.
- `StreamOwnsUpdates`: while a chat stream is read no poll loop writes the view.
- `QueuedSendGoesOut`: a send that waits goes out, is dropped by the person's own stop, or there is
  an error to see, or the turn stands at a gate. The last is needed: the hook's cancel may reach the
  server before the turn is live, which forgets it.
- `BubbleEnds`: once the server has no turn, the bubble goes or there is an error to see.

`composer`
- `PayloadsSurvive`: no paint and no reading of the editor loses the payload of a file or swaps those of
  two files with one name.
- `PaintKeepsDraft`: a paint keeps the text that would be sent, whatever the tokens are; it shows no chip
  that is not the draft's, ref or file; and where the tokens do not overlap, each chip stands over its
  token. Where they do, the code loses chips (disagreement 12). The mutant paints in the order of picking.
- `RowsAreOfTheQuery`: rows that stand while nothing loads are those of the query and the path that are
  shown, in whatever order the answers come.
- `MatchFollowsCaret`: after a step that changes the editor or moves its caret, the draft is what the editor
  reads, and an open menu's match is the trigger and the query before the editor's caret: that is what a
  pick replaces. Left out are a caret that is in no text (disagreement 13) and the time while files are read.

Every property of a passing run has a mutant in `PROJECT.json`: a plausible bug in one definition
(a dropped guard, a stale write, a missing reset, two steps swapped) under which TLC finds the
property violated in the same run. The mutated bodies are in the modules, before the definition
they replace, and are used by nothing else.

## Bounds, fairness and assumptions

Bounds.
- Lock: three calls on one session are needed for a tail to be dropped while another call
  arrives and a third waits; a second session shows that chains do not mix.
- Cache: with room for one entry every put of the other session evicts, and a modify holds its
  session across the eviction. Calls happen once each; the operations are one of each kind on one
  session, and others on the second.
- Admission: three sends are needed for one to be live, one to replace it and one to be drained by
  another starter.
- Gates: two turns let a row, receipt or late decision of the first meet the second; two gated
  calls let a plan precede the call its receipt serves; two decision calls race for one gate.
  `MaxTurns`, `MaxGates`, `MaxCrashes` bound only these counters, in the guards of `BeginTurn`,
  `TakeCall` and `Crash`.
- Thread: the second turn meets whatever the first left; two calls are needed for a cancel between
  them; one tool round and the round at the cap show both branches. Two troubles let a turn throw
  and its handler throw or the process die in it, or both turns fail.
- Compaction: a batch of two can end with calls, with a result between results, or with a text; seven
  messages hold two batches and a recent tail; `MaxMessages` 4 (48 in the code) and the budget cut
  inside the thread. The numbers stand in the same order as the code's: a batch is no longer than what
  is sent at most.
- Sessions: two sessions, one of which is created in the run, let a grant of one meet a call of the other,
  with and without a workspace in common; two requests race each other and the turns; the second turn
  meets what the first left; a rule for a tool is one of the two requests, and it comes before, between or
  after the turn's calls; `MaxGates` counts the calls of all turns, those that ask nobody too; one live turn
  at a time (`MaxLive`) suffices, since turns of different
  sessions share nothing but grants and memory. Two calls of one tool tell a receipt from a
  standing grant.
- Settings: the host seeds two profiles, of which the default is on or off; of two operations one is stale
  when the other has written; the third meets the result.
  The sixteen patches stand for the branches of `applySettingsUpdate`; keys and notes are model values.
- Streaming: a chunk of up to five units can end within a line, at a line's end, or within the blank
  line that ends a frame, and can hold a whole frame and the beginning of the next; two keep-alives
  fall between events and after the last. The answers have the forms that meet in
  practice: text with thoughts and usage, a call in fragments, two calls mixed.
- Client: two sends let one be queued behind the other; one trouble (a switch to the other session, a
  stop, a lost call, a stream that breaks) comes at any moment. A switch and another trouble in
  one run are more than 11 million states; no invariant failed in those that were explored.
- Composer: five events reach a menu opened, refined, answered late and picked from, or two files that
  are read while a chip is removed. The catalog has two tokens of which one begins the other, a
  group, a text item and an action.
- `MaxOps`, `MaxTurns`, `MaxGates`, `MaxSends`, `MaxTroubles`, `MaxEvents`, `MaxFiles` and
  `MaxPings` are in the guards of the actions that begin something, and bound nothing else.
- Symmetry is declared over operations (`settings`) and over requests and memory ids (`sessions`), which
  check no liveness.
- Deadlock is checked in the run of `Compaction`, where a reset is always possible. It is not
  elsewhere: calls are made once, turns and events are bounded, and nobody has to decide a gate, so
  that these instances may really stop.

Fairness. Code that can run does (`WF` on the actions of the lock, on `Admit`, `Finish` and
`CancelReturns`, on `TurnStep` and on `Proceed`): the event loop is fair, a provider call has a
timeout and is given the signal, rounds are capped, and handlers are given the signal. A tool that
never returns and ignores its signal would break this. In `Streaming` only the harness and its timer
are fair (`Handle`, `Finish`, `Timeout`, and `CutOff`, the fetch that rejects when its signal aborts);
provider and network may be silent for ever. In `ClientSession` the server's turns go on and its answers
come (`TurnStep`, the `Answer…` actions, `Stopped` and `Refused`) unless the trouble of the run is one of
them, and the hook takes what came. Nothing is assumed about people: that somebody sends, cancels,
decides, types or patches is never fair. `Sessions`, `Settings` and `Composer` state no fairness.

Assumptions.
- One session in `TurnAdmission` and `TurnGates`: every Map of the controller is keyed by the
  session id, and no step reads another session's entry. Grants do reach other sessions: `Sessions`.
- The cache is on in `TurnGates` and `Sessions` (the default); with `cache: false` there is no lock.
- The store does not throw in `TurnAdmission`, `TurnGates`, `Sessions` and `Settings`; in `SessionCache` it
  may, before its effect, but not after (an error whose write took effect nevertheless leaves a stale
  copy).
- One process. A second process has its own cache and its own waiters.
- In `TurnThread` an exception is thrown before the effect of the write it comes from, as in the cache.
  The compaction hook sees a copy of the thread and does not change what is stored.
- The consumer takes the events of the generator to the end, as the server does even after its
  client has gone (`Streaming`).
- A session is not deleted during its turn in `TurnGates`; in `Sessions` it may be at any time.
- A plan names one gated call, and in `TurnGates` all gated calls have the same digest, so that a receipt
  for one serves any other: the hardest case for `RunsAreAuthorized`. In `Sessions` they differ.
- In `Sessions` a rule changes in one step: what happens between the load and the put of a patch is in
  `Settings`.
- In `Settings` labels, urls and timeouts are left out: they follow the
  rule for optional fields that keys, models and overrides show.
- In `Streaming` a provider ends lines with a single newline.

## What is proved

TLAPS checks these for all sets of calls, sessions, modes, people and all bounds, from the assumptions
named in the modules (`LockAssumption`, `CacheAssumption`, `AdmissionAssumption`, `GatesAssumption`,
`NoGateAssumption`, `ThreadAssumption`, `CompactionAssumption`, `SessionsAssumption`,
`AbsentAssumption`, `ClientAssumption`, `StreamingAssumption`, `ComposerAssumption`, `DraftAssumption`), which say
only that the constants have their types, that the null values are different from real ones, in `Sessions`
what arguments the tools of memory take, for the composer that an item of a menu has an id
(a path is written with the first letters of its groups' ids) and, for `Streaming`, the shape of what a
provider sends: frames of lines, each a payload of parts or noise. Those of the settings say also what the
code's schemas and `createHarness` let in: `NoneAssumption` (null is no entry, id or window),
`PolicyAssumption` (the gates are tools that change nothing), `FormsAssumption` (text that is no number is no
window), `SeedAssumption` (seeded profiles have an id once, the default is one of them, on or off,
and an old row is sound once it is filled in) and `InputAssumption` (patches and listings
have the shape the routes ask for).

- `SessionLock_proofs`: `ChainCorrect` shows `ChainInv`, which is inductive: tickets are distinct
  and issued in order, a call awaits exactly the last one before it, the tail is the last call that
  has not been dropped, and whoever is inside is the first that has not left. Exclusion needs all of
  it: two calls inside would each be first. `SectionsExclude` and `IdleTailsDropped` follow. For
  `LockIsFifo`, the refinement of `FifoLock`, `LineInv` adds that every ticket given out is held and that
  the calls that left hold the first ones; so the line is the row of the other tickets, and each of the
  lock's steps appends to it, lets its head in, or takes its head away.
- `SessionCache_proofs`: `CacheUsesLock` maps every step to a step of the lock or a stutter, so that
  the theorems of the lock hold in the cache. `CacheCoherent` strengthens `Coherent` with what each
  section knows at its place: what a reading call has seen is still the row, because exclusion keeps
  every other section of the session out. `CacheIsARegister` is the refinement of `SessionRegister`: an
  operation takes its effect at the answer of the durable store, or at the hit in the cache, where
  `Coherent` says that the copy read is the row; every other step, eviction and expiry among them, is
  a stutter of the register.
- `TurnAdmission_proofs`: again the lock is instantiated (with tails that are kept). The inductive
  invariant `AdmissionInv` adds that stages follow the lock's phases, that the awaited promise is
  that of the live turn or of one that is over, and that each send is in the queue, in the live
  batch or in a past one. From it: `OneTurnIsLive`, `GatesAreOfLiveTurns`, `WaitersSeeTheEnd`,
  `NoSendIsDropped`, and the refinements `ControllerIsSerial` and `ControllerAdmitsLives`.
- `TurnGates_proofs`: `GatesInv` joins the types, the ownership of the lock by the section
  (`SectionHoldsLock`: the row a decision found stays until it clears it), one slot for each kind
  (`SlotsAreSingle`: clearing a kind clears no other gate), `WaiterHoldsTheTurn` and
  `OpenGateIsPending`. For each group of variables a lemma says which actions change it. Theorems:
  `GateTypes`, `WaitersHoldTheTurn`, `OpenGatesArePending`, `ModesAreSanctioned` and the refinement
  `GatesLiveOneLife`. For `RunsHaveRights` a right is counted wherever it is on its way from the
  person to the call (`RightsInv`): accepted and not yet stored, stored as a receipt, spent and not yet
  run, run. Every action moves at most one right from one place to the next, and a cancel or a restart
  can only lose it. For `PlansMintOnce`, `MintInv` says that until a restart the
  record has no row but that of the gate the turn works on (`RowIsTheTurns`), and that a plan whose
  receipts were minted has its row only while the section that minted them goes on, and is not the
  next gate (`MintedIsPast`): a second approval does not find it, and the turn never stores it anew.
- `TurnThread_proofs`: `ThreadInv` adds to the properties what the turn knows (`KnowsTheThread`: the
  record it works from is the stored one), that at a call the thread ends with the calls of the round
  and the results so far (`CallsArePending`: a result that is added then stands in its place), and
  that a partial row at the end lists nothing its successor would not (`TailIsOurs`: what was shown
  stays shown). Three lemmas describe a step once for all properties: `ThreadGrows` (at most one
  message is added), `TranscriptGrows` (which rows are put) and `RowsKept`. Theorems: `TypeCorrect`,
  `ResultsStandBehindCalls`, `ModelAndUserSeeTheSame`, `RoundsAreCapped`, `PartialRowsHaveReasons`
  and `StoredHistoryIsKept`.
- `Harness_proofs`, compaction: `CompactionInv` adds to the properties that the state a call goes by is never
  behind the stored one (`Ahead`: meanwhile that can only have been reset), that it accounts for its
  messages too, that there is a batch while it is summarized, and that the thread itself is answerable.
  `BatchIs` describes a batch (a range, with nothing but results between it and the cursor), `IsEnd`
  what is sent (an end of the thread that begins with no result, hence answerable). Existence of the
  least index comes from the library's theorem on well-founded sets. Theorems: `CompactionTypes`,
  `NoOrphanIsSent`, `NoTextIsSkipped`, `CursorNeverGoesBack`.
- `Harness_proofs`, the settings. `SettingsInv` says of the stored row, and of the document each operation
  under way has loaded, that it is `Sound` (the shape, each id once, the defaults there) and that its
  default is on or as the host
  gave it: an operation puts
  back what it loaded long before, so that it does not help to know that the row is sound now. The rest
  of it is what a step needs to know of the operation it is part of (`Underway`), and the turn
  (`IsTurn`). `SettingsInvariant` is the invariant, `DefaultsAreThere` is `DefaultsExist`, `TurnsAreAsChosen` is
  `TurnIsAsChosen`. The work is in the lemmas on the document: what the two recursive functions, `Filter` and
  `UpsertNamed`, do to a list is shown by counting up to its length (`CountUp`); a patch keeps a document
  sound, whichever entries it removes, writes and switches off, with or without a default of its own.
  `PatchesKeepTheRest` is the action property, by the same counting: an entry that was there, was not removed and
  not written is the one found after the writes; one that was written has the fields that no write
  sent (`FieldIsKept`), however many writes name it; and a default goes only if `NoneActive` or
  `DefaultGoes` says so. `ShownApplies` is `ShownIsApplied`, in three parts, each
  for any sound document: `RulesAreMet` and `BarIsRight` look the redacted view up where the harness looks
  the document up; `FormsAreRight` compares two patches that differ in one list (`SameBut`): they
  apply alike elsewhere (`ApplyAlike`, `OneListOnly`), so what is left is the one entry that was written
  (`SavedEntry`, `AgentWritten`), and that one is what was there before, or differs in the field that
  was edited. The overrides of a profile come back because a draft holds the override of its model or
  none, and none takes nothing away that was there (`OverridesBack`).
- `Sessions_proofs`: `SessionsInv` joins `Types`; `AskedMay` (who has an admitted request has its
  capability); `GatesAreNumbered` (a plan row with the number of the turn's gate means that the turn
  works on a plan's step, so that a plan's approval never answers a single call); `Verdict` (at which
  places the turn may have been given which decision, "unasked" among them); and `Permissions`. The last is
  the argument
  for `RunsAreCovered`: every grant in the store, and the one a turn carries from its gate to the store,
  is allowed (`GrantsAreAllowed`, `CarriedIsAllowed`); the receipts for a call that are in the
  store, and the one its turn holds, are together no more than were given (`ReceiptsAreOwed`,
  `SpendingIsOwed`); so a call that runs is covered (`RunIsCovered`). Counting is over bags: `BagAddsOne`
  and its companions say what an addition and a removal do to the copies of a grant. `StepMovesTurn`
  describes what each action does to a turn, once for all properties, and `QuietKeeps` covers
  every step that gives nothing away. Theorems: `SessionsTypes`, `RunsAreAllowed`, `PinsStay`,
  `DeletedIsGone`, `MemoryIsSafe`: all that the run checks, for any number of sessions, people, requests
  and calls.

- `Ui_proofs`, the session hook. `HookTypes` is the types. For `SendsAscend`, `RowInv` says that what was sent
  and what waits, in a row, ascend: a step adds a number above them all, moves the boundary, or cuts
  the end. For `StreamOwns`, `LoopsInv` says that a drain's own loop runs only while the drain waits for
  it (`OwnWatches`), that there is one (`OneWatches`), and that while anything is drained every other loop is
  of an old generation (`DrainWatches`): when the own loop returns, and a stream may follow, only
  stale ones are left.
- `Ui_proofs`, the composer's menu. `MenuRowsFit` is `RowsAreOfTheQuery` with what it needs: the request that
  will be listened to is the one for the query and the path now shown (`AskedIsShown`), so that
  an answer for an earlier one is dropped whenever it comes.
- `Ui_proofs`, the composer's draft. `DraftInv` says that the editor and the value are typed, that every
  file of the value has its own payload (`Own`) and every file chip of the editor is one of them
  (`Backed`), the same of every value a file job works from (`JobsInv`: a job goes on with the value it
  started from, so that its next one must be sound whatever was done since), that the menu's rows are of the
  catalog, and that a match is what `DetectTrigger` finds in the value (`MatchIsAtCaret`). A step paints
  what it made of the value (`PutKeeps`), reads an editor that
  has no new files (`SyncKeeps`), or leaves both (`EditorStays`); each action is one of these.
  `FilesKeepTheirPayload` is `PayloadsSurvive`: an id is found before a token (`FilesMerged`), so two files with
  one name cannot be taken for each other. `PaintedIsTheDraft` is `PaintKeepsDraft`, for every sound value
  (`Painted`), not only for those a run reaches: in front of the cursor the painted nodes read as the text
  (`PlaceKeeps`), in whatever order the chips come and whichever are skipped. That none is skipped needs the
  sort: what it returns rises and has all it was given (`SortedRises`, `SortedTyped`), so that a chip is placed
  when all before it end in front of its token, which is then found where it is first in the text
  (`PlaceStands`, `AllStand`). `PicksReplaceTheQuery` is `MatchFollowsCaret`: every step of that kind ends in a
  commit, which puts the caret where the value has it (`CaretLands`), or in a reading of the editor, which
  takes the caret from it (`StepAgrees`); `DetectIs` says what is found there. Insertions, picks and removals
  are shown to keep a value sound and a caret within its text, one lemma each.
- `Ui_proofs`, an answer on its way. `AnswerIsAsShown` is `StoredIsShown`; `StoredInv` adds that what was
  said is the text of the events shown, that the parser has the same while the answer is coming, and
  that every outcome carries it, the cancelled and the failed too. `ClientSeesAll` is `SeenIsShown`, for any
  events and chunks of any size:
  cutting units into frames and what is left over, then reading on from what was left, is the same as
  cutting all of it at once (`PiecesConcat`), hence so is decoding (`DecodedConcat`); an event that is
  encoded decodes to itself and leaves nothing over (`EventDecoded`), a keep-alive to nothing
  (`CommentDecoded`). `SeenInv` then says that the client has decoded what it has read, and that all that was
  sent decodes to what was shown while the client was there. `MessageIsWhole` is `MessageIsAsSent`, for every
  response of that shape and every cut. A row of frames cut anywhere decodes to the parts of those frames that
  ended before the cut (`ReadIsParts`, by counting whole frames in `PartsAre`). `MessageInv` says that what
  is in the
  buffer is what a cut there leaves over, and that the parts handled and the parts waiting together are the parts
  of those frames (`Split`). What has been put together is what the parts handled mean (`Parsed`), call by
  call and whatever comes between two fragments of one: a fragment more changes the id (the last that was
  sent, be it
  empty: `openai-client.ts:297`), name and arguments of its own call in both (`IdGrows`, `NameGrows`,
  `ArgsGrow`, `PartParsed`).

The functions these proofs speak about (`FlattenSeq`, `Pieces`, `Filter`, `UpsertNamed`, `SortedBy`,
`PlaceAll`) are
recursive; that a function with the two equations exists is a lemma too (`Recursion`). The
library's induction theorems cannot be used, because their parameter is an operator; induction is by
the least number of a set that is not empty (`LeastNumber`, `MinIsLeast`), up to a number (`CountUp`) or over
a set of rows that is closed under appending (`RowInduction`), where the set takes the operator's place.

Some theorems state invariants that no run lists, because the proof says more than a run would: `ChainInv`,
`MutualExclusion`, `UsesLock`, `OneLiveTurn`, `EmptyStreamWasDrained`, `GateNeedsLiveTurn`, `WaiterSeesEnd`,
`WaiterHoldsTheTurn`, `ModeIsLastWritten`, `CapIsKept`, the type invariants, and that `TurnAdmission`
implements `TurnLife`.

Only model-checked is all liveness, which is out of the prover's reach (`EveryCallGetsIn`, `EverySendIsTaken`,
`EveryCancelReturns`, `CancelEndsTurn`, `EveryStreamEnds`, `QueuedSendGoesOut`, `BubbleEnds`).

## Disagreements with the documentation

Checked by a run:

1. `gate-waiters.ts:5-6` says that a late decision cannot execute work after the turn has ended.
   `decidePlan` mints receipts and writes the mode before it learns that the waiter is gone. The run
   `turn_gates_late` shows an approval that is refused (the route answers 404) and whose receipt lets
   the next turn run the gated call without asking. `RunsAreAuthorized` counts the plan's receipt as
   an authorization and holds.

Met while modelling; the models do as the code does, and the properties leave the case out where
they would be about it.

Harness:

2. `session-cache.ts:10-11` says that entries inside `runExclusive` are not eligible for eviction.
   `evictIfNeeded` knows only the sessions held by the call that evicts. `ImplementsRegister` holds
   nevertheless: the consequence is one more read of the durable store.
3. `turn-loop.ts:1169-1170` says of a question that the model still receives a tool-role message. When
   the turn is cancelled at it, `finishCancelled` stores none. The same is true of every call of a
   round that is cancelled or fails before the call has returned.
4. The provider client's timeout aborts its own controller (`openai-client.ts:198`), the loop takes the
   `AbortError` for a cancel (`turn-loop.ts:778,1900`), and the turn ends as cancelled by the operator;
   `turn-loop.spec.test.ts:263,546` say that a failure is an error event and that `operator` is
   a person.
5. `rolling-compaction.ts:137` says not to cut between a call and its results. `snapEnd` (line 140) sees to
   that only if the batch ends at the assistant message itself. If it ends at one of several results,
   `alignThrough` skips the rest, which are neither summarized nor sent.
6. `routes.ts:291` says that an explicit cancel still stops the live turn. When the session was
   deleted while its turn waits, cancel answers 404 (`routes.ts:386`) and the turn waits on.
7. A standing grant for a session can outlive it: `deleteSession` clears the grants
   (`harness.ts:783-784`), and the turn that was at a gate stores its own afterwards
   (`turn-loop.ts:1571-1606`). An id is never reused, so nothing matches it.
8. Settings are put back as whole documents: a patch that loaded before another was written undoes it
   (`harness.ts:713`). `PATCH /memory/:id` puts back a row that was forgotten meanwhile.
9. An approval override for `mcp_call` to "requires approval" is shown and not applied: the remote server's
   permissions decide. A default provider or search that was cleared to null is chosen again by the next
   patch, whatever it is about. `protocol/settings.ts:45-46` says that the default is one of the active
   profiles; a first profile that the host seeds switched off (`settings-store.ts:171`) becomes the default
   all the same (`harness.ts:350`) and stays it until a patch.
10. Frames a provider ends with CRLF never match `'\n\n'`. Arguments of a call that are cut off, so that
    they are no JSON, go on as `{}`.

Browser:

11. A queued send goes to the session switched to (`use-harness-session.ts:267` against `:114-118`); the
    person's stop aborts the reader of a newer send (`:371`); the stop that goes before a follow-up may
    stop the follow-up's own turn (`:346`); a failed poll leaves the bubble (`:173-178`); a reload that
    answers late hides a gate (`:217`); an error event leaves gates shown (`:615`).
12. `serialize.ts:417-418,442` describe a paint that finds each ref where it is. A token that occurs twice,
    picked both times or inside another one, loses refs or moves them (`:443`).
13. A caret beside a chip and in no text reads as the end of the draft (`serialize.ts:348`), so that a pick
    meets the trigger there, if any. `TriggerDismissals.clear` (`trigger.ts:125`) is never called, so that a
    dismissed trigger stays dismissed for
    that place; after drilling into a group the rows of the level above may be picked until the
    answer comes (`use-context-menu.ts:159-190`).
14. `ProviderSettings.tsx:239-240` tells a person who deletes a profile that its sessions fall back to the
    default one. `resolveProviderSelection` answers null and their turns fail; the status bar shows the
    default provider with the deleted one's model.
15. With a session's own model and no provider, the status bar shows the window of the default model
    (`ui/provider-override.ts:62-66`) and the turn uses that of the chosen one (`turn-loop.ts:457`); the
    model stays pinned when the default provider changes (`ProviderMenu.tsx:150-152`).
16. Saving the prompts writes an empty prompt for the mode that is shown, which hides the one the host set for
    that mode (`PromptSettings.tsx:86-95` against `promptsFor`, `harness.ts:409-417`); `FormsSaveAsShown`
    says so in its hypothesis.

## The plan

Done: the lock, cache, admission, gates, thread and compaction with their abstract specifications; sessions
with grants, deletion and memory; the settings and what reads them; the stream from provider to browser; the
session hook; the composer. Proofs for the first six, for `Sessions` and for `Settings`: all safety that their
runs check; all safety of the session hook, of the composer and of a stream. Nothing that the runs check is
left unproved but liveness.

## What is not modelled

Formatting, prompts, schemas and migrations, HTTP, SQL, cryptography and rendering; the components
whose status in `PROJECT.json` is `not_modelled`, with the reason there: the outbound clients (requests
with no state between them) and the applications, deployment and scripts (wiring). Within components that
are modelled in part: the skills catalog and the resolution of references into prompt text, the limits on
attachments, the titles and token counts of sessions, what lists of models remember beside windows, and the
second process of a shared database.

Some known consequences of the code have no property because nothing promises otherwise: approvals that
name no gate meet whatever gate of the kind is pending, a later cancel overwrites the reason of an earlier
one, and a request whose signal aborts before its turn is live is not cancelled; the text of a round
that made calls is stored a second time when the turn is then cancelled or fails in that round; and
after a question the next row of the turn lists all its results again. The scope of a workspace grant is
that of the record, and no session belongs to a person: who may decide may decide everywhere. Of
compaction: a backlog longer than a batch is summarized a batch at a time in successive rounds of one turn
(the comment at `rolling-compaction.ts:28-32` says that a second call does not summarize again, which is so
once the backlog is gone); a summary that fails or is answered "skip" is asked for again in every round; the
end of a batch that does not fit into 12,000 characters is lost; a state saved after a reset undoes it;
with a small budget or a tail of results nothing but the system message may be sent; and a summary has
an abort signal of its own, so that a cancel waits for it.
