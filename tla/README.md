# Machina Parousia in TLA+

Models, model checks and machine-checked proofs for Machina Parousia, the server
that gives agents e-mail, a calendar and browsers. The modules are translated
from the Python code under `src/parousia` (paths below are relative to it unless
they start with `docs/` or `tests/`); `PROJECT.json` maps every definition to
its lines.

## The system

Agents talk to an MCP server (`guard/mcp_server.py`). Normally each agent spawns
its own over stdio, so several such processes share everything below; one server
can also serve many agents over SSE. Next to them run the REST server
(`guard/rest_server.py`), the command line (`cli/`), and one short process per
incoming mail that Postfix starts (`guard/ingest.py`).

| Part | State | Operations | Used by |
|---|---|---|---|
| Rate limiter (`guard/rate_limiter.py`) | Redis counters `rate:agent:<id>`, `rate:domain` with TTL | `check` (INCR, EXPIRE, compare) | every `send_email` of every MCP process |
| Approval queue (`guard/approval_queue.py`) | Redis list of ids, one item per id with TTL | `enqueue`, `list_pending`, `approve`, `reject`; the caller of `approve` sends | MCP processes enqueue; REST server and CLI review |
| Invites, accounts (`auth/`) | SQLite `accounts.db` | create, validate, consume, revoke; create, authenticate, rotate, suspend | REST server (one connection per store), MCP server, CLI (its own) |
| Sessions (`run_mcp_server_sse`) | session id to account | connect, post, disconnect | SSE agents |
| `send_email` (`guard/mcp_server.py`) | none | whose name, rate check, approval or SMTP | agents over SSE and stdio |
| Mail ingest, inbox (`guard/ingest.py`, `inbox/`) | SQLite `inbox.db`; Postfix's queue | parse, import calendar parts, POST, store, page | Postfix, agents |
| Calendar (`temporal/db.py`, `tools.py`, `ingest.py`) | SQLite events and journal | schedule, cancel, timer, milestone, import | MCP processes, mail ingest, CLI |
| Conflict resolution (`temporal/serializer.py`) | none (works on the calendar) | `get_conflicts`, `resolve_conflicts` | schedule, resolve tools |
| Memory recorder (`memory/recorder.py`) | failure count, cooldown, background threads, client | `record_tool_call` | every tool call |
| Browser pool (`spatial/browser_pool.py`) | per process: cached instances, listed lock files; shared: `profile.lock` per agent | `get_browser`, close, shutdown | the three spatial tools |
| Spatial tools (`spatial/tools.py`, `serializer.py`) | the live page of each agent | `browse_to`, `interact`, `extract_page_state`; `to_sdom` | agents |

Rendering, DKIM, TLS, configuration and the dashboard read state or write files
once; `PROJECT.json` lists them with the reason they are left out.

What is hard here: processes that interleave single Redis commands or SQL
statements; read-check-write sequences without a condition on the write; two
writes that belong together with a failure in between; `await`s between a check
and the update it protects; a connection that keeps a transaction, and with it
an old snapshot or the write lock, after a failed statement; keys, locks,
sessions and ids that go stale; threads that share a count without a lock;
retries by a caller (Postfix) that cannot tell a late answer from a failure.
Every such place is a line of `hazards` in `PROJECT.json`, with the properties
that guard it.

What makes each part correct:

* rate limiter: no window lets through more than its limit; a full window ends;
* approval queue: what is sent was approved, what is rejected is not sent, a
  pending mail is shown unless newer ids fill the listing, a decision is final
  and takes effect;
* onboarding: an invite admits no more accounts than it allows, a revocation
  holds, the stores do not lock each other out;
* sessions and accounts: mail bears the name of its sender, no call over SSE runs
  without an account, a key that was handed out works until the next one is;
* ingest: Postfix lets go of a mail only when it is stored, copies have a cause,
  retries end, a reader who pages through `GET /inbox` misses nothing;
* calendar: nothing stored is lost, ids have no gaps, redeliveries do not multiply,
  resolution hides no overlap among the rows it is shown, moves nothing fixed and
  nothing to an earlier time;
* recorder: an open breaker holds, writes pile up only against a backend that
  hangs, calls are answered, recording resumes;
* browser pool: one launch per profile at a time, a bounded pool, no call that
  waits for another's hung launch; spatial tools: an SDOM is of the page it names,
  `interact` acts on the element it was given or on none, where its id is one CSS
  can name.

## Modules

| Module | Models |
|---|---|
| `RateLimiter` | `check` in any number of processes, one action per Redis command |
| `RateLimiterProofs` | its theorems |
| `HeldMail` | abstract: a held mail is decided once and delivered at most once, if approved |
| `ApprovalQueue` | the queue, one action per Redis command, with the callers that send; implements `HeldMail` for one reviewer |
| `ApprovalQueueProofs` | its theorems |
| `Onboarding`, `OnboardingMC` | `handle_onboard` over both SQLite stores, CLI and admin operations between its statements |
| `OnboardingProofs` | its theorems |
| `McpServer` | SSE sessions, stdio calls, `send_email`, with the account database and the REST process that changes it |
| `McpServerProofs` | its theorems |
| `MailDelivery` | abstract: a mail leaves Postfix stored, empty or returned |
| `MailIngest`, `MailIngestMC` | Postfix, the pipe, `/ingest`, the inbox and its readers; implements `MailDelivery` |
| `MailIngestProofs` | its theorems |
| `Calendar`, `CalendarMC` | the calendar store, its tools and `resolve_conflicts`, one action per database access |
| `CalendarProofs` | its theorems |
| `MemoryRecorder` | breaker, join and writer threads under the tool calls of one event loop |
| `MemoryRecorderProofs` | its theorems |
| `Spatial` | the agents and calls the next modules share |
| `BrowserPool`, `BrowserPoolMC` | `get_browser` over the event loop of one or more processes |
| `Sdom` | operators: the elements and ids `to_sdom` makes of a page |
| `SpatialTools`, `SpatialToolsMC` | the three tools await by await, over `Sdom` |
| `SpatialProofs` | the theorems about `BrowserPool`, `Sdom` and `SpatialTools` |

The modules meet at the calls between the parts: what one of them decides is a
choice the other allows for. `McpServer` lets the rate limiter and the queue
answer either way, `MailIngest` lets an import succeed or not, `SpatialTools` gets
a browser or an error and may find it new. Operators whose comment says that they
are a mutant are altered copies of a definition that break a property; no
specification uses them. They document which mistake each property would catch
(`mutants` in `PROJECT.json`).

### RateLimiter
`count[k]` is the value of key `k` (0: absent), `armed` the keys with a TTL.
A caller's `ticket` holds the two numbers INCR returned, and `pc` the next
command. `window`, `granted` and `mails` are history: which of the keys a caller
incremented are still in the same window, and what was granted in it. `IncrAgent`,
`ExpireAgent`, `IncrDomain`, `ExpireDomain`, `Decide` follow lines 38-68;
`RedisFails` is the `except` of line 70, with the command applied or not;
`FirstReplyLost` the same for the first command; `Crash` a process that dies.
`KeyExpires` is Redis. `remaining` and `reset` are only shown to the agent and
are left out. A mail let through because Redis failed is not counted: the limiter
fails open by design.

### ApprovalQueue
`item` is the status in `approval:item:<id>`, `queue` the list `approval:pending`.
`enq` follows `enqueue` in the MCP process (SETEX, LPUSH), `pc` and `job` a
reviewer process through GET, SETEX, LREM and the send. `ListPending` is what
`list_pending` shows: the items behind the newest `ListLimit` (50) ids, where ids
whose item has expired take up places too. Reviewers are processes:
the REST handlers do not await, so the REST server is one of them, each
CLI command another. `verdicts` (what was ever stored) and `sent` are history.
`SendFails` and `ReviewFails` are SMTP errors, Redis errors and crashes.

### Onboarding
One handler at a time in the REST server (`pc`, `req`), CLI commands and the
clock between any two of its statements. `lock` is SQLite's write lock as far as
a connection of the server keeps it between statements: an INSERT that violates the
primary key (`AdminCreate` of an existing account) leaves Python's implicit
transaction open, so that CLI writers are refused until the server commits
something on that connection. `origin` relates an account to the invite whose
sponsor it carries. `max_uses` 0 counts as 1, as in the code.

### BrowserPool
Actions are the code between two awaits. Within a process the loop excludes the
other calls while one is between reading and writing `profile.lock`
(`LoopFree`); other processes are not excluded. A cached instance is `open` or
`dead`, `answer` is what a call got. `Hangs` is a driver that does not answer one
of the awaits of a launch without a timeout (browser_pool.py:211, 220, 222,
228-229): the call never resumes, and only the end of its process ends it.
`_idle_cleanup`, `release_browser` and
`cleanup_profile` have no caller (docs/capabilities/spatial.md describes an idle
timeout that nothing triggers), so they are no actions.

### McpServer
`status` and `key` are the columns of `accounts`, `held` the key an owner was
last given; keys are numbers, since bcrypt only ever compares them. `door`
follows one `GET /sse` (`Connect` SELECTs the hashes, `ReadRow` the row,
`Accept` enters the session into `account` under the newest id in `writers`,
the SDK's table); `Disconnect` and `Forget` are the two steps of its end. A call
comes through an open stream (`Post`) or over stdio (`Stdio`), passes
`CheckCaller` and `CheckAgent`, the two lookups of `_handle_send_email`, and
`Deliver`. Handlers that do not await exclude the other tasks of the process
(`Held`), not the REST process: `CreateAccount`, `SetStatus`, and a rotation in
three steps (middleware, commit, answer). `start`, `moved` and `excused` are
history that says what the properties may not promise.

### MailIngest
`queue` is what Postfix knows, `pipe` the process of one attempt (`Parse`,
`Post`, wait), `requests` and `answers` what the server has received and stored
without having answered. `GiveUp` is the 5 s timeout or a broken connection; the
request lives on. `Ingest` refuses (403, 404, 500) or stores under a fresh id,
`ServerDies` loses requests and answers but not the inbox. `OpenInbox` and
`ReadPage` page by offset, as a client of `GET /inbox` may, while mail comes
in at the head. `check_inbox` takes no offset and is no reader of this kind (see
Divergences). What an import does to the calendar is `Calendar`'s.

### Calendar
`rows[b]` is the committed table of an agent's events or journal; a row has what
the rules look at (start, end, flexibility, zone, UID, status). `txn` says where
each connection is: no transaction, one begun but without a snapshot, one with
a snapshot (`read`), one whose snapshot is out of date (`stale`, it reads `view`), or
the holder of the write lock. Reads outside a transaction see the present. `CheckUid`,
`NextId`, `Insert` are the three accesses of an insert; a taken id leaves the
transaction open, as Python's sqlite3 does, and `Locked` is the 5 s timeout of
the others. `Snapshot`, `NextPair`, `Scan` and `Move` are `resolve_conflicts` with
its forward scan, each move with its own commit.
Times are integers and an hour is 1. Now lies between 0 and 1 and stays there:
nothing becomes past while a call runs. A row is written in one zone, naive or so
many hours `ahead` of UTC. The rules in Python parse the strings and compare times;
`get_events` compares and orders their text (db.py:102-113), which is `Text`: what
the clock on the wall shows (`Wall`), then the suffix, where no offset comes before
`+` and `+` before `-` (`Suffix`). So `Upcoming`, the rows the rules are given, is a
window of texts: a row to come may be outside it and one that has begun inside.
Abstracted: the start and the end of a row have one offset, offsets are whole hours, and
a time is written as `isoformat()` writes it (the suffix `Z`, which sorts after
`+` and `-`, a space for the `T`, and dates without a time are left out). The status
`completed` is never set by any caller.

### MemoryRecorder
`waiting` is the call whose `join` holds the event loop; `thread[t]` the place of
a writer in `_write`; reading and storing the failure count are two steps, since
`+=` on an attribute is not atomic. The client's lock is held while the client
is built (`Enter`, `Connect`), which a hung backend never ends. `CoolDown` and
`JoinTimesOut` are the passing of time.

### Sdom, SpatialTools
A page is the sequence of its elements with tag, role, id, visibility and
whether a form holds them, and `traits`, the other selectors each of them answers to. `Collected` are the places in the list: one for each
selector an element matches, so an element may be listed twice. `Visible` puts those that
are shown in the order of `to_sdom` (`UpTo`: by selector, then as in the document),
each at its rank, without recursion, so that theorems can say what it is for every page.
`AssignIds` is the numbering per kind, `Fields` what the forms name,
`Locate` what `#id` finds in the live page: the code puts the id in the selector as
it is, so one with a dot reads as an id and a class (`Compound`, `Matches`) and
finds what answers to both, and one that is no selector finds nothing. `SpatialTools` has one action per
piece of code between awaits; scripts (`PageChanges`), other calls and a new
browser (`NewBrowser`) move the page in between. `result` is the SDOM with the
url asked for, the one it is labelled with and the one its page had. Names of its
specification (`ToolsInit`, `ToolsSpec`, `stage`, ...) differ from the pool's, since
`SpatialProofs` extends both.

## Runs

| Run | Instance | Shows |
|---|---|---|
| `rate_limiter` | 2 agents, 2 callers, 1 fault, fair | quota, one grant per ticket, and without a fault every exhausted counter is reset |
| `approval_queue` | 2 mails, 2 reviewers, 1 fault, fair | who may send, that the listing, one mail long, shows the newest pending mail; without faults decisions take effect |
| `approval_queue_refinement` | 3 mails, 1 reviewer, 2 faults | the queue implements `HeldMail` |
| `approval_rejected_is_discarded` | 2 reviewers | **violated**: both read the pending item; one rejects, the other sends |
| `onboarding` | 3 accounts, a 2-use and a 0-use invite, 1 crash, fair | capacity, uses have accounts, revocation outside of `consume` sticks, requests end whatever lock an admin call left |
| `mcp_server` | 2 names, 2 sessions, 1 call, 2 rotations, 1 fault | whose name mail bears, that no call over SSE is anonymous, whose key works |
| `mail_ingest` | 2 mails to one agent, 2 attempts each, 3 faults, fair | the path implements `MailDelivery`; copies have a cause, paging through `GET /inbox` is complete, every mail settles |
| `calendar` | a server and two importers, an event table and a journal, fair | what is stored stays, one copy of an invitation per importer, calls end |
| `conflict_resolution` | a server and an importer, calendars of 2 to 6 rows | no silent overlap, moves only postpone, the scan gives up only behind that many entries, fixed entries stay; in some calendars a row is of another time zone |
| `memory_recorder` | 2 calls, 3 writers, threshold 2, fair | breaker, pile-up, calls end, recording resumes |
| `browser_pool` | 3 agents, 2 calls, limit 1, 3 faults, fair | one launch per profile, use is locked, overshoot bounded, calls end unless their own launch hangs |
| `spatial_tools` | 2 calls of one agent, 3 urls (one redirected), 4 documents | labels, elements reached, ids, form fields; one list is cut, one is full and not cut, two ids are no CSS identifiers |

Bounds. `MaxFaults` bounds crashes, errors and the rarer changes from outside,
`MaxCount` the counters (attempts beyond it are refused like those at it), the
sets bound processes and data. Two processes show every race of a pair of
read-check-write sequences, and a third would only repeat one; where a property
counts processes (`UidOncePerImporter`) there are two of the counted kind.
Three browser launch failures exhaust the three attempts; three accounts exceed a
two-use invite by one; a limit of one with counters up to `MaxCount` makes
callers pass, be refused by each limit, and meet a full window. Numbers of the
code are scaled to the smallest at which the branch is taken both ways: the
breaker opens at 2 instead of 5 failures, the scan pushes 2 instead of 100 times
(one starting calendar has two fixed entries behind each other in its way),
`LIMIT` is beyond the calendars' size (the 200th event is not reached; see
Divergences for what happens there), the element list is cut at 4 instead of
200 (of three documents one has four entries, one five), a page of the inbox has one
message, and the listing of held mail shows one mail instead of 50.
`calendar` asks for no entry beyond `MaxRows`, but what several processes asked for
together may exceed it. `CHECK_DEADLOCK FALSE` is set where a system comes to
rest: all mails decided, all invites used up, all counters at the bound, all
browser calls hung with no fault left that would end their process. The
other systems never stop.

The runs check the type invariants of `RateLimiter` and `ApprovalQueue`; those of
the other modules that have proofs are part of what is proved there.

Fairness is weak and only on a step that the code itself will take: the next
command of a `check`, of an enqueue or of a review that has begun, the statements
of an onboarding request, of a calendar call (its handler does not await, and
SQLite's waits are bounded by the 5 s timeout), an event loop resuming a call
whose await ended. For the browser pool that is: the close of a cached instance has a
timeout of 10 s, and a launch ends or hangs; that it ends is not assumed. Redis deletes
expired keys. Postfix retries what it has queued, systemd restarts the
REST server, and the server serves what it received. In `MemoryRecorder` the
cooldown passes, threads are scheduled, and two assumptions are strong: the
loop's ready queue is first in, first out, so a call whose tool has answered gets
its turn although other calls keep blocking the loop; and agents go on
sending mail, without which nothing would be recorded. Nobody else is assumed to start
a request, to review, or to fail.

## Proofs

`RateLimiterProofs`, for all agents, callers, limits and fault bounds:

* `TypeCorrect`, `TicketsAreGrantedOnce`, `QuotaHolds`. The quota is not
  inductive: that a grant fits in the limit follows from tickets being distinct
  numbers not above the counter. The inductive invariant `QuotaInv` says that
  numbers held by callers in the current window, and those already granted in it, are
  distinct, positive and at most `count` (`WindowInv`, `TicketInv`,
  `DistinctInv`, `GrantInv`), and that `mails` counts the granted ones
  (`CountInv`). Grants are then a subset of 1..limit. `Incremented` and `Shrunk`
  are the two ways the held numbers change.

`ApprovalQueueProofs`, for all mails, reviewers and bounds:

* `TypeCorrect`, `SendsOncePerReviewer`, `SendsOnlyApproved`, `DecisionsAreFinal`
  from `ReviewInv` (a mail in a reviewer's hands is already listed, a stored decision is
  recorded, a decided mail is not pending, nothing is sent from a hand that has
  not sent yet);
* `HeldMailIsFindable` (`PendingIsListed`, `IdsListedOnce`): a pending mail is in the listing,
  or that many newer ids are before it, or its enqueue has not ended well. From `ListInv`, with
  lemmas about removing an id from a sequence;
* `SoleReviewerKeepsPromise`: with exactly one reviewer every step is a step of
  `HeldMail` or a stutter. The run `approval_rejected_is_discarded` shows that
  the assumption is needed.

`OnboardingProofs`, for all accounts, invites, maxima and fault bounds:

* `UsesAreBacked` (`UsesHaveAccounts`): every use counted, or about to be, has an
  account. Needs that the account about to be inserted is new, so that the
  insert adds one (`ColumnsInv`: columns of the two stores agree, and the accounts
  of an invite are finitely many).
* `InvitesHaveCapacity` (`WithinCapacity`). What the second validation of `consume`
  sees is not what the handler saw, so the invariant says how far an invite's
  accounts can be ahead of its uses: not at all between requests, unless it was
  revoked or expired for good (`AccountsAreCounted`), and a request in hand still
  has room (`UseCounts`). `DeadStays`: such an invite gets no further request.
* `RevocationIsFinal` (`RevocationSticks`), an action property.

`McpServerProofs`, for all names, sessions, calls and requests:

* `CallsAreIdentified`, `MailIsTheCallers`: a session in the SDK's table is open and has
  an account (`SessionInv`), so its calls have one. As long as the account of the name did not
  change during the call, what the two lookups found still holds when the mail
  leaves (`CallInv`: `StartIsCurrent`, `FirstLookup`, `SecondLookup`).
* `OwnersKeyIsValid` (`LatestKeyWorks`): before its commit a rotation leaves the owner's key
  valid, after it the request carries the valid key (`KeyInTransit`, `OneRotation`);
  keys are numbered as they are made, so a new one is nobody's.

`MailIngestProofs`, for all mails, agents, page sizes and bounds:

* `DuplicatesAreLate` (`DuplicatesAreLateAnswers`): requests the server still has are
  counted with the copies, and all but the one a pipe waits for were counted late
  (`CopiesAreAccountedFor`).
* `PagingIsComplete`: what a reader of `GET /inbox` is owed lies at or behind the offset it will
  ask for next, and mail that arrives only pushes it further (`DueIsAhead`).
* `IngestKeepsMail` (`KeepsMail`): every step maps to a step of `MailDelivery` or a stutter,
  from `AnswersAreStored`: the answer that becomes exit code 0 follows its copy.

`CalendarProofs`, for all processes, calendars, entries and limits, from three
invariants:

* `RecordsAreKept` (`KeepsRecords`) from `StoreInv`: whatever a process has read, in
  a snapshot or into its plan, is a past of the committed table (`ViewOK`, `PlanOK`). Rows
  only evolve, so the row it cancels or moves is still there, still may move, and an
  id it counted is either free and the next one, or taken and refused (`JobOK`).
* `CopiesAreFew` (`UidOncePerImporter`) from `UidInv`: copies of an invitation and importers
  about to insert one are together no more than the importers. An importer whose
  check saw none while there is one has a stale snapshot, which it gives up
  without writing.
* `ResolutionIsHonest` (`NoSilentConflict`), `ResolutionOnlyPostpones` (`OnlyPostpones`) and
  `ScanGivesUpLate` (`GivesUpOnlyIfCrowded`) from `ResolveInv`: rows nobody else wrote are in the plan as they are in the store
  (`Mirror`); each conflict of the store is touched by others, reported, given up,
  still to come or in hand (`AllSeen`), where the step that matters is a move,
  which makes no new conflict since its slot was found free and is still so
  (`SlotFree`). A pair is moved only while it overlaps, so the slot after the entry that stays
  is later than where the other one was. Each push of the scan gets behind the end of one more
  row that lay past that entry (`AfterStay`, `PushesCounted`, `PassedBy`), so after `MaxPush`
  pushes there are that many of them. None of this needs the order of the query to be that of
  the times: `Upcoming` enters as a set that its rows' texts alone decide (`TextFacts`).

`MemoryRecorderProofs`, for all calls, writers and thresholds:

* `PileUpIsPaidFor` (`PileUpTakesTimeouts`): a call starts a writer beside a living one only after
  its join has timed out.
* `BreakerHolds` (`OneWriteThroughOpenBreaker`): the breaker is asked before the join, so one call
  can be past it when it opens; `ProbesInv` says that after that write no call is
  in a join and none enters one.

`SpatialProofs`, for all agents, calls, limits and fault bounds of `BrowserPool`:

* `PoolTypeCorrect` and `LimitNearlyHolds` (`OvershootBounded`), for any number of processes.
  A call passes the check only while the pool is below its limit, so right
  after it even all callers launching at once keep to the bound; every other step
  makes of a launch at most one instance or drops either (`CountsInv`).
* `NoDoubleLaunch` (`LaunchesOnce`) and `ProfileInUseIsLocked` (`UseIsLocked`)
  for exactly one process, from `PoolInv`. Neither is inductive: a call that
  finds the lock free must know that nobody closes or launches the profile, and
  a call that ends a close, unlinking the file, that nobody else is about to use
  it. So a profile is in the hands of one call while it is closed, claimed or
  launched (`OneAtATime`), its lock is the process's own in all of these but the
  claim (`Held`), and one call at a time is at the claim (`OneWriter`: the loop
  is not left between reading and writing the file). A launch that hangs counts as one in
  all of these.

and for all pages, sites, redirects, caps and calls of `SpatialTools`:

* lemmas about `Sdom`. The ranks of the shown places are the numbers from one to how many
  there are (`RanksAreNumbers`: a rank is the size of a set that grows along a
  total order, hence an injection between sets of one size), so the list holds the
  visible elements a selector matches and no others (`VisibleShape`). Elements of one
  kind get different numbers by the same argument about positions
  (`NumbersDiffer`).
* `IdsAlwaysTellApart` (`IdsTellApart`) and `FormsAlwaysName` (`FormsNameTheirFields`): what
  an agent was last shown was made of some document, for which
  `PageIdsTellApart` and `PageFormsName` say the same. A visible field that the list lacks has
  its first place past the cap (`PositionFacts`, `InteractiveShape`).
* `LabelsAlwaysTrue` (`LabelsAreTrue`): a call that nobody crossed is still on the
  page goto ended on, and what it has captured is of it (`Browses`).
* `AlwaysActsOnItsOwn` (`NeverActsOnAnother`): as long as an agent is current, what it was
  shown is of the live page, and so is the target of a call that is (`Sees`, `Aims`). On
  that page an id that names one element and is a CSS identifier finds this element or
  nothing (`PageLocates`). Synthetic ids are identifiers; an id of the page need not be.

Both models have one proof module because they are about one package and share its agents.

Assumptions are those of the modules' ASSUME clauses, which TLC evaluates on the
instances. They ask little: processes, names and calls that are counted are
finitely many; bounds are numbers; values that stand for "none" are nothing else; in
`Calendar`, only imports bring a UID, and a calendar starts as imports may have left
it. `SendsOncePerReviewer`, `DecisionsAreFinal` and `PoolTypeCorrect`
state properties no run repeats.

Only model-checked is liveness: the provers have no rule for it under fairness.
Every safety property and every action property that a run checks has its theorem;
`LaunchesOnce` and `UseIsLocked` for one process, `KeepsPromise` for one reviewer, as their
runs have it.

## Divergences

One run shows the code not doing what a comment says: `RejectedIsDiscarded`
(`findings` in `PROJECT.json`). The models reach, or reading the code for them
brought up, the following; the properties are stated so that they hold with it.

Outbound mail
* A fault between INCR and EXPIRE leaves a counter that is never reset
  (rate_limiter.py:38-40, against "INCR + EXPIRE pattern for efficient counting
  with auto-expiry", :16), hence the condition in `QuotaReopens`.
* Refused attempts use the domain quota, so one agent at its limit can block the
  others (docs/capabilities/email.md:217: "one agent hitting its limit doesn't
  block others").
* "It will be sent upon approval" (mcp_server.py:353): the decision is stored
  before the mail is sent (rest_server.py:186-195); an SMTP error loses it.
* "List all emails pending human approval" (rest_server.py:160): `list_pending` looks at
  the newest 50 ids, among them those of expired items, and shows decided mails
  until LREM has run; nothing shows the others, though `approve` still takes their ids.
  A mail whose id could not be pushed is pending and in no list (approval_queue.py:64).

Accounts and sessions
* `consume` reads, checks and updates without a condition (invites.py:141-154):
  a revocation that falls in between, answered with "Revoked" (cli/main.py:500), is
  undone. `RevocationSticks` excepts that window.
* A crash between account and invite lets a single-use key be used twice, and
  `handle_onboard` ignores that `consume` refused (onboard.py:58). Admin accounts
  carry no sponsor.
* `rotate_key`: "old key is revoked" (accounts.py:205), but a session opened
  with it stays open, as it does when the account is suspended (it then sends nothing
  in its own name). Two rotations at once may leave the owner with the losing key.
* The two lookups of `send_email` (mcp_server.py:281, 300) can disagree when the
  account changes between them. `check_inbox` ignores its `agent_id` parameter
  for authenticated callers, and facts of stdio calls are recorded under the
  configured agent, not under `from_agent`. The account named `default` is
  never looked up (mcp_server.py:299), so suspending it stops nothing.

Inbound mail
* "Messages are marked read when returned" (docs/capabilities/email.md:115), "Messages
  marked read" (docs/architecture.md:188): nothing calls `mark_read`. `check_inbox`
  shows the newest `limit` messages and takes no offset (mcp_server.py:193-198), so an agent
  sees older ones only by asking for more; `PagingMissesNothing` is about
  `GET /inbox`.
* Refusals that will not change (403, 404) are reported as temporary and retried
  until Postfix gives up; retries after a late answer store a second copy; the
  calendar parts of a refused mail are imported all the same.

Calendar
* `cancel_event` takes "short event ID" (tools.py:74-78) but looks among the
  agent's oldest 200 rows (tools.py:265); rows are never deleted, so a calendar with more
  cannot be cancelled at its end. The UID check sees the same 200, and so does
  `get_conflicts`: in a longer calendar a move can bring rows into view that the
  resolution never looked at. `UidOncePerImporter` and `NoSilentConflict` are
  therefore stated for calendars that fit the LIMIT.
* Times are compared as text in SQL (db.py:102-113), while rows carry the offset they
  were given. An entry to come whose offset puts its text before that of now is no conflict
  for anyone, one that has begun may be and may be moved, and moved entries may land
  on rows the scan was not shown ("forward collision scanning to avoid creating new
  conflicts", docs/capabilities/temporal.md:270). `NoSilentConflict` is
  therefore about the rows the queries return, and nothing says that a slot is in
  the future: an entry that had begun is moved to the end of its blocker, whenever
  that is. `OnlyPostpones` and `GivesUpOnlyIfCrowded` compare times and hold all the same.
* Timers and alarms have the default flexibility and may be moved.
* A crash, or an entry without an end in the way of a push, leaves a calendar
  half resolved. A naive and an aware time in one calendar make `get_conflicts`
  raise after the event was stored, and the agent reads of an error.
* The scan's last push is not looked at: 100 pushes give up even when the next
  slot is free (serializer.py:369).

Memory
* "Tool calls never block on memory" (docs/architecture.md:144): a call may wait
  5 s for the previous write, and the event loop with it (recorder.py:257-259).
  Against a backend that hangs, each call adds a thread.
* "If it fails, the circuit re-opens" (docs/capabilities/memory.md:164): the reset sets
  the count to 0 (recorder.py:176-177), so it takes five more failures to open it again.
* The formatters of schedule and cancel make a success of an error
  (recorder.py:72-87); that of `resolve_conflicts` reads `moved` and `skipped`,
  which the result does not have (:104-105).

Browsers
* `max_instances` is "Maximum concurrent browser instances"
  (docs/capabilities/spatial.md:206); calls that launch together exceed it
  (browser_pool.py:142, 252). `OvershootBounded` says by how much.
* A browser whose health checks failed three times is cached closed and returned
  (browser_pool.py:225-253, against "callers never receive a stale/poisoned
  browser", :129-130). A launch given up leaves the agent locked out by its own
  process.
* "A stuck Playwright driver node never responds" (browser_pool.py:81-83), so the close of a
  cached instance has a timeout. The start of Playwright, `new_page`, `title`, and the closes
  after a failed health check (:211, 220, 222, 228-229) have none: a call that hangs there
  never returns, and its agent is refused as "already in use" until the process ends.
  `CallsEnd` excepts that call, and it alone.
* docs/architecture.md:74,79 describes an MCP process per agent beside an SSE daemon. Two
  processes can claim one profile, since reading the lock file and writing it are two
  steps: `LaunchesOnce` and `UseIsLocked` are for one process.
* "Element ID from SDOM" (docs/capabilities/spatial.md:113): ids made up by
  `to_sdom` are not in the live page, so `interact` fails for every element
  without an id of its own. An id of the page goes into the selector unescaped
  (tools.py:172-194): `user.name` clicks the element `user` of class `name` if there is one,
  and `2nd` or `form:name` are no selectors, so the click fails. `NeverActsOnAnother` is for ids
  that are CSS identifiers (`Compound` lists what the others select; combinators and commas
  in an id are left out). `scroll_into_view` calls a method Playwright's page does not have.
* `browse_to` labels the SDOM with the url asked for, also after a redirect;
  `extract_page_state` reads the url after the content. `extract_mode` and `mode`
  are not used.

## Plan

`BrowserPool` with two processes: what is left of its properties there, since two
processes may both read a lock file before either writes it.

## Not modelled

* DKIM validation: one library call, whose result the REST server does not use.
* Temporal export, injector, pulse, `to_dsl`: they format what they read.
* Content sections, navigation and page type of an SDOM; texts of any kind.
* Monitoring, health, metrics, dashboard, logging, configuration, and the
  set-up commands of the CLI (DNS, DKIM, TLS, Postfix): they read, print or write
  files without state of their own. The schema migration runs once, alone.
* MIME decoding (a mail is plain, an invitation, blank or broken), parsing of times and of
  natural language (`parse_nl` has no caller).
* Code without a caller: `_idle_cleanup`, `release_browser`, `cleanup_profile`,
  `mark_read`, `archive`, `count_unread`, the recorder's `shutdown`.
