# Mail Service: a TLA+ verification project

The mail service takes mail over HTTP, charges it to an API key's rate limits,
records it in PostgreSQL, queues it in memory, and delivers it from a few
worker goroutines over SMTP. A super user manages keys, reviews access
requests, composes mail and retries failed mail from an admin console. This
directory models the parts of it whose correctness depends on interleaving,
failure and order, checks them with TLC and proves the most important results
with TLAPS.

## Inventory

| Component | State | Operations | Where |
|---|---|---|---|
| Mail service | the queue (a channel of 100), the worker goroutines, the default SMTP server | `Submit`, `Enqueue`, `Start`, `deliver`, `mark`, `Shutdown` (never called) | `internal/services/mail_service.go` |
| SMTP delivery | none between sessions | `SMTPMailer.Send`, `NoopMailer.Send`, `SendTest` | `internal/services/smtp.go` |
| Mail history | `mail_messages`, `mail_deliveries` | `RecordMail`, `MarkDelivery`, `RequeueDelivery`, `FailInterruptedDeliveries`, lists | `internal/store/mails.go` |
| Retry | a handler's own variables | `retryMail`: read, check the key, requeue, enqueue | `internal/admin/mails.go` |
| Rate limits | `request_logs`, the advisory lock of each key | `Reserve`, `retryTime`, `LogRequest` | `internal/store/usage.go` |
| API keys | `api_keys` | create, update, enable, disable, delete, reveal, sync of the configured super key | `internal/store/keys.go`, `smtp_settings.go` |
| API key middleware | none | look the key up, check active and allow list, log rejections | `internal/auth/apikey.go` |
| Send endpoints, compose | none | reserve, then submit | `internal/routes/routes.go`, `internal/admin/compose.go` |
| Access request form | the limiter's map of times per IP | `allow`, store, `record`, auto-reply | `internal/public/public.go` |
| Access request review | `key_requests`, its row locks | `ApproveKeyRequest`, `RejectKeyRequest` | `internal/store/requests.go` |
| Admin sessions | sessions and failed logins, in memory | login, logout, session check | `internal/admin/admin.go` |
| Admin console | the browser's page | fetches that may answer out of order | `internal/web/static/admin/app.js` |
| Start-up | none | sync the super key, fail interrupted mail, start workers, listen | `main.go` |

How they interact: every HTTP request runs in a goroutine of its own and
reaches shared state through PostgreSQL (single statements, or transactions
with a row or advisory lock), through mutexes (limiter, sessions) or through
the queue channel. Handlers read a key once and keep the copy. A send handler
charges the key (`Reserve`), then calls `Submit`, which records the batch
and sends one job per recipient on the channel; `Enqueue` blocks while the
channel is full. Workers take jobs, mark the row `sending`, run one SMTP
session and mark the outcome. `retryMail` puts a failed mail back. The process
ends only by being killed; docker-compose starts it again and `main` marks the
mail that was lost from memory as failed.

What is hard, and what makes it correct:

* **Mail delivery**: retries racing each other, lost updates of a row, a crash
  at any step, a full queue, servers edited while mail waits. A mail has one
  job at a time, is taken by a server at most once per submission and granted
  retry, is never offered for another send while its job lives, and settles.
* **Rate limits**: concurrent calls of a key, a stale copy of the key, `now()`
  fixed before the wait for the lock. No window may hold more mail than its
  limit, each call is charged once or not at all, and every call is answered.
* **Access requests**: concurrent posts and reviews, failures between the key
  and the link, lost answers. A request is reviewed once, keys and approvals
  are linked one to one, and the limiter bounds what an address can submit.
* **Admin console**: fetches that overlap while mail moves. The list is
  ordered, of the chosen filter, and never goes back in time.
* **Requests for mail**: a key edited or deleted on the way, a lost COMMIT, a
  crash between the charge and the queue. Charge, queue and answer agree.
* **Keys**: a start-up of two statements that may be interrupted, edits that
  overlap, secrets sealed under an older cipher. Old configured keys are
  revoked, the present one works, and no edit loses another one.
* **Sessions**: overlapping logins, expiry, logout, restarts. Failures are
  bounded, only who signed in gets in, and nobody is signed out by others.

`PROJECT.json` lists every hazard at its line with the properties about it.

## Modules

### MailDelivery

The core: requests, the queue, workers, retry handlers, key edits, crashes.
One action is one database statement or transaction, one channel operation or
one SMTP session, so every interleaving of goroutines that the code allows at
those points is explored.

| State | Code |
|---|---|
| `rows[m]` | the row of `mail_deliveries` of mail m = (request, position) |
| `queue` | `MailService.queue` |
| `request[r]` | a handler in `Submit`: about to record, or in the loop at recipient `next` |
| `worker[w]` | a goroutine in `deliver`: job claimed, marked sending, or outcome to mark |
| `admin[a]` | a handler in `retryMail`: mail read, key read, requeued |
| `keys`, `defaultSMTP` | what is read of `api_keys`, and the server from the environment |
| `accepted`, `via`, `requeues` | history: what servers took, and the retries granted |

| Action | Code |
|---|---|
| `Admit`, `RecordMail`, `Enqueue` | the key read by the endpoint, and `Submit` |
| `Take`, `MarkSending`, `Send`, `MarkOutcome` | the worker loop and `deliver` |
| `RetryRead`, `RetryKey`, `RetryRequeue`, `RetryEnqueue` | `retryMail` |
| `SetKeyActive`, `SetKeySMTP`, `DeleteKey` | the console's edits, as mail sees them |
| `Crash`, `Restart` | the process killed; `main` |

Faults are a constant, so a run chooses them: RecordMail that fails or whose
COMMIT is applied with an error, MarkDelivery lost, RequeueDelivery applied with
an error, a server that took the mail before QUIT (or its reply) failed, and
crashes. A mail whose RecordMail failed goes out unrecorded (id 0), as in the
code. A statement that PostgreSQL is executing when the process dies takes
effect, if at all, before the next process reads a row: `store.Open` applies
`schema.sql` first, and its `CREATE INDEX` on `mail_deliveries` waits for every
transaction that writes the table. That is as if it had taken effect just before
the death, which the model has. Errors with which `retryMail` ends before it
requeues leave the handler idle; their wording is left out. The text of mails
and errors is abstracted; the only error texts told apart are a server's refusal
and the restart message.

`MailHistory` is the abstract specification: a submission or a granted retry
is a licence for one attempt, an attempt reaches a server at most once, the
history follows or does not learn the outcome, and a crash takes licences
away. `MailDeliveryRefinement` states that MailDelivery implements it: the
licence of a mail is the job the handlers, queue and workers hold for it.
`MCMailDelivery` extends it, so one module gives all delivery runs their
instances.

### Quota

`Store.Reserve` of one key: the stale copy of the key, the transaction with
its fixed `now()`, the advisory lock, the usage query, the second query of a
refused call, the log row and COMMIT with a lost answer, rollback, and a super
user who edits or deletes the key at any time. The clock is a number; windows
and limits are constants (the code has four windows, all treated alike by one
loop). `History` and `Start` give a key that was used before.

### SendPath

A request for mail from the first read to the answer: it EXTENDS Quota and
puts the handlers around its actions, so every step is a step of Quota or none
(`SendImplementsQuota`).

| State | Code |
|---|---|
| `request[c]` | the handler: new, logging a rejection, in Reserve, in Submit's loop, answered with a code, or killed |
| `gate` | what else is read of the key: active, the allow list, whether its SMTP password can be opened |
| `queue[c]` | mails of the request put into the queue |
| `rejections` | rows `logRejected` wrote |

| Action | Code |
|---|---|
| `Refuse`, `Bar`, `LogRejected` | the middleware's, the handlers' and compose's early returns, in the order of the code |
| `Admit` | the key read that Reserve will use, after every check on it |
| `Query`, `TakeLock`, `EndTx`, `Reserved` | `Reserve`, and what `reserveSMTP` or `compose` make of its answer |
| `Submit`, `SubmitBlank` | one mail into the queue; the refusal of a body that rendered to nothing |
| `Edit`, `Delete`, `Crash` | edits of the key; the process killed, whose transactions PostgreSQL ends later |

What happens in the queue is MailDelivery's: `Submit` here is its `Enqueue`.

### ApiKeys

The rows of `api_keys` over several lives of the process. Start-up is
`ApplySchema`, `EnsureSuperKey` (if a key is configured) and `Revoke`, which is
the second statement of `SyncConfigSuperKey` and after which the service is up,
with a crash between any two of them; `ChangeEnv` edits `.env` while the service
is down. The `ALTER TABLE api_keys` of `schema.sql` lock out every other
transaction that uses the table, so `ApplySchema` waits for what a killed
process left open; a single statement of the killed process ends before it too,
as if just before the death. An edit (`UpdateKey`) is two steps under a row
lock, and a killed process's transactions hold their locks until they end,
committed or not. A key is named by its raw value, a password by the edit that
typed it, a sealed copy by its cipher. `stated` and `touched` are history.

### AdminSessions

`login` in its two critical sections (the check, then failure or success),
`logout`, `requireSession` with expiry, handlers that act later, and restarts, for
one address. `wrong` and `issued` are history.

### AccessRequests

The public form for one IP address (`allow`, the insert, `record`, the
auto-reply) and the review transactions, with row locks, key deletion, crashes
that roll back what was open, and faults. A key is named by the review that
creates it. The limiter's map is per address and addresses share nothing.

### AdminConsole

One page of the console: its mail list and mail dialog. One task of the event
loop (a handler, a timer, the continuation of a fetch) is one action; a fetch
is asked, answered by the server and rendered in separate steps, in any order.

| State | Code |
|---|---|
| `filter`, `rows`, `hasMore`, `open` | `state.mailFilter`, `mails`, `mailHasMore`, and whether `mailCounts` has mail in progress |
| `view`, `hash`, `moves` | `state.view`, `location.hash`, and `hashchange` events not handled yet |
| `calls` | `loadMails` calls in flight; `newest` says that `seq === mailSeq` |
| `timer`, `options`, `refresh` | the search timer, the menu of senders, the `refresh` calls in flight |
| `dialog`, `gets`, `retry` | `openMailId` and what the dialog shows, `openMail` calls, a "Send again" |
| `status`, `keys` | the database, which mail delivery and other pages change |

| Action | Code |
|---|---|
| `ChooseStatus`, `ChooseKey`, `TypeSearch`, `SearchTimer`, `ClickMore`, `Poll` | the events of the list, each with the `loadMails` it makes |
| `SetHash`, `HashChange`, `ShowMailsFor` | links and the browser's history; `setView`, in a task of its own; "View sent mail" of a key, whose filter changes before its section does |
| `ListMails`, `MailCounts`, `Arrive`, `Fail` | the two statements of `listMails`, and how `loadMails` goes on |
| `ClickRefresh`, `ListKeys`, `RenderRefresh`, `FailRefresh`, `SignIn`, `Logout` | `refresh`, `showApp`, `showLogin` |
| `ClickMail`, `GetMail`, `RenderMail`, `FailMail`, `CloseMail` | `openMail` and the dialog |
| `ClickRetry`, `RetryMail`, `RetryQueued`, `RetryFails` | "Send again" |

Two calls that were superseded and ask the same are one element of `calls`:
neither has an effect. Refreshes overlap, each at a place of `Refreshes`, and the
keys that are answered last are shown. `document.hidden` is left out (the page is
in the foreground).

### Proof and model-checking modules

Modules named `MC...` hold the instances, modules named `..._proofs` the
theorems.
Definitions whose name extends that of the next one (`HasRoomOffByOne` before
`HasRoom`) are mutants: versions with a plausible bug, never used by a
specification, for checking that the properties can fail.

## Runs

| Run | Question | Instance |
|---|---|---|
| `delivery_faults` | do jobs, acceptances and history stay consistent under every fault, and does the service implement `MailHistory`? | two requests of one mail (one by key, one system), 2 workers, 2 retry handlers, queue of 1, 1 retry, 1 crash |
| `delivery_liveness` | without lost updates, do submissions return, does a pending row have a job, and settle? | a batch of 2 and one more system mail over a queue of 1, one worker, a retry that competes for the queue, a crash, a default server that may be gone at restart |
| `send_path` | do limits hold for whole requests, do charge, queue and answer agree, is every request answered? | MCSendPath's requests, one of them of two mails, over two windows, with a history of earlier use, two kinds of rows an edit may give the key, deletion, faults and crashes, under fairness |
| `access` | is a request reviewed once, atomically, and each review answered; what does the limiter bound? | 3 posts, 2 at a time, limit 1, 2 moments; 2 reviews, all faults, a crash, deletions, under fairness |
| `console_list` | does the list stay ordered and filtered, and never go back in time, however fetches overlap? | 2 mails on pages of 1, a key, a search, a status filter, 2 list fetches, 2 refreshes and 1 detail fetch in flight, any 3 clicks, database changes or failures; polls, answers and timers unbounded |
| `keys` | does every start revoke the old configured key and leave the new one usable, do edits lose one another, does the service come up? | 2 keys, 2 edits, 2 ciphers, a crash, under fairness |
| `sessions` | how many failures pass, who is refused, who gets in, who is signed out? | 5 logins of one address (limit 2, window 2, session time 1), 2 between check and verdict, one API call, 5 moments, a restart |

Why the bounds are enough: every hazard needs at most two concurrent actors of a
kind and one fault (two retries, two workers, two reservations and one that
waits, two posts in flight); a queue of one is already full for a batch of two;
one crash and one retry reach every state from which a second would start like
the first; two windows show the order of the loop, and the clock runs past both.
`MaxRetries`, `MaxCrashes`, `MaxTime`, `Concurrent`, `MaxEvents`, `MaxCalls`,
`MaxOpens` and the size of `Refreshes` are bounds of the model. Deadlock is not
checked: the models end when every request is done and the bounds are reached.
Symmetry is used in runs without liveness only, over workers, retry handlers,
logins or the places of refreshes, which no definition tells apart.

Five runs show that a statement about the program does not hold:

* `delivery_restart_claim`: an interrupted mail says "the service restarted
  before this mail was sent" (`internal/store/mails.go:154`), but the crash may
  have come after the server took it.
* `quota_retry_claim`: `retry_at` is documented as the "Earliest time (RFC 3339,
  UTC) the request will fit" (`internal/web/static/docs/index.html:203`), but it
  is computed from the first exceeded window alone; a later window may still
  refuse the request then.
* `access_limit_claim`: "a limit of 3 accepted requests per IP per hour"
  (`README.md:98` of the repository) is checked before the insert and counted after
  it, so overlapping posts exceed it. `LimiterSlack` states what does hold:
  at most two (the limit less one) plus the posts in flight together, per life
  of the process.
* `console_dialog_claim`: "Open a mail to see its full body, client IP, endpoint,
  attempts and error" (`README.md:116` of the repository), but `openMail` renders
  whatever answer arrives: an earlier mail may be shown in place of the one
  opened last, on which "Send again" acts.
* `console_status_claim`: "keep the list current so statuses update on their own"
  (`internal/web/static/admin/app.js:1001`), but `listMails` reads the list and
  the counts in two statements: a mail that settles between them is shown as
  queued while the counts stop the poll.

`ListMatchesFilter` names an exception the code does have: the next page asked
for before the first page of a new filter arrives supersedes it, and the list
then mixes the mail of two filters. It speaks of the list while it is on the
screen and nothing is under way that will change it; a mail's status is the one
it is listed with, which may be out of date. A list whose last reload failed (a
toast says so) may still be the one of an older filter.

## Fairness

* Workers and handlers that are not blocked go on (weak fairness): SMTP
  sessions and database calls end by their timeouts or by an error.
* `Enqueue`, `RetryEnqueue`: weak fairness suffices for the instances checked,
  since a finite number of senders compete and every send is final; Go serves
  the senders blocked on a channel in FIFO order.
* `Restart`: docker-compose.yml says `restart: unless-stopped`.
* The waits for an advisory or row lock are strongly fair: PostgreSQL serves
  waiters in turn, and ends the transactions of a closed connection.
* `SendPath`: a running handler goes on; room comes in the queue, which is what
  `PendingSettles` of MailDelivery says of it.
* `ApiKeys`: `main` goes on, docker-compose restarts it, and open edits end.
* `Poll` and the newest list fetch are strongly fair: an answer arrives before
  the next poll (5 seconds later) again and again; timers, refreshes and
  `hashchange` events have their turn.
* No fairness for clients, the super user, edits, faults or crashes.

`PendingSettles` and `SubmitReturns` are checked without lost updates: with
them the code leaves a row pending until the next restart, by design (`mark`
only logs the error).

## Proofs

All theorems hold for every value of the constants that the named assumptions
allow: any number of requests, batch sizes, workers, handlers, keys and
servers, any queue capacity, any faults, retries and crashes.

**MailDelivery_proofs.** `OneJobPerMail` is not inductive by itself: the
invariant `IInv` says in parts that a job is in one place (no two queue
positions, workers or retries hold the same mail, and the kinds of places
exclude each other), that a mail with a job is unsettled, so `RequeueDelivery`'s
`WHERE status = 'failed'` refuses it, that an unrecorded request's mails have
no history, and that nothing is under way while the process is down.
From it follow `TypeCorrect`, `OneJobTheorem`, `LicenceTheorem`,
`PendingTheorem` and, as an action property, `SentIsFinalTheorem`.

**MailDelivery_history_proofs.** What the history says is true. On top of
`IInv`, `HInv` follows each job with what it carries: the row of a recorded
job names the server the job will be sent through (`JobsKnow`), a worker
that holds an outcome has it from that server (`OutcomesKnow`), and an attempt is
counted exactly once, before the job is at the sender (`Unmarked`, `AtSender`,
`AttemptsBound`, `AttemptsCover`). Admitting, enqueuing, taking and the first
steps of a retry only hand jobs on (`Moves`), which one lemma covers for all of
them. From it follow `HistoryNamesServerTheorem`, `PendingHasJobTheorem` and
`AttemptsTheorem`, the last two under the absence of the faults their properties
name.

The same module proves the refinement. `ImplementsHistoryTheorem`: every behaviour
of the service is one of `MailHistory`. `LicencePlaces` reads a mail's licence off
the place of its job (`Alone`: there is one place), `SameLicence` says that a job
which stays in the same kind of place keeps it, and then each action is a step of
the history or a stutter: `RecordMail` is `Submit` for the whole batch,
`MarkSending` is `Begin` or nothing, `Send` is `Attempt`, `MarkOutcome` is
`Settle`, `RetryRequeue` is `Retry` or nothing, `Crash` is `Lose`, `Restart` is
`Recover`, and all others stutter. `HInv` is needed at `MarkSending`: the row
of a recorded job that was not marked yet says queued.

**Quota_proofs.** A call between its lock and its COMMIT holds the lock
(`LockHeld`), which gives `DecisionTheorem`. `ChargedOnce` is inductive with
the types of the fields: a call that is still open has no log row. `UInv` adds
the sums: a limited call that is about to be charged still has room in each
window, counting the rows of limited calls alone, since no other one can be
charged before it (`RoomKept`, from `LockHeld`); and a refused one knows the usage
of its window unless a super key's call was charged since its query
(`RefusedRightly`). From it follow `TypeCorrect`, `NoOvershootTheorem` and
`RetryAtTheorem`. The lemmas about `Total` (it is a number, adds up over
disjoint sets and is monotone) are proved by the least set that refutes them,
with the recursive function of the library's sum unfolded once: the induction
theorems, which take an operator, are not needed. The assumption
`PastKeptLimits` says of `History`, the usage recorded before the model begins,
what the theorem says of all later usage: it was charged by `Reserve` too. The
empty history satisfies it.

**SendPath_proofs.** `SendImplementsQuota` shows that each step of the send path
is a step of Quota or a stutter, so Quota's invariant is available. The
invariant `SInv` ties a handler's place in the code to its reservation and to
its mail: in `Submit` only with an accepted one, answered with 202 only with
the number queued. From both follow `QueuedIsChargedTheorem`,
`ChargeIsAccountedTheorem` and `AnswerIsTrueTheorem`. `SendTypeCorrect` is its
type invariant, and `SendKeepsLimits` carries `NoOvershoot` and
`RetryAtFitsItsWindow` over from Quota to whole requests, crashes included.

**ApiKeys_proofs.** `HeldRows`: an edit between its statements has the lock of
its row, and the password it read is still there, because every other write
needs the lock. `EnsuredWorks`: between the two statements of the start-up the
new key's row is unlocked and works, so no transaction of the killed process can
reach it. (The proof needs only that `EnsureSuperKey` waits for the lock of its
row, not that `ApplySchema` waits for all.) They make `OldKeysRevoked`,
`ConfiguredKeyWorks` and `LastWordCounts` inductive.

**AdminSessions_proofs.** `SessionOf`: a session in the map has the expiry of
the login that created it; with `GoodSessionsStay` it is inductive and gives
`EntersSignedInTheorem` as an action property. `FInv` is about the limit on
failures: what the next check will count and what those past their check may
still add are together at most `MaxFails - 1 + Concurrent` (`FewRecent`). A
login passes its check only below the limit, which is where the first summand
grows for the second; a failure moves from one to the other. From it follow
`TypeCorrect`, `FailsSlackTheorem` and `RefusedHadFailsTheorem`.

**AccessRequests_proofs.** `IInv` says that a review between its SELECT ... FOR
UPDATE and its COMMIT holds the lock of a row that is still pending, that a key
exists only once its review has been answered, and that a row's key was created
by a review of that row. From it follow `KeysTheorem`, `AnswerTheorem` and
`ReviewedOnceTheorem`. `LInv` is about the form's limiter, whose map a crash
empties: there is a set `Old` of posts of earlier lives such that every later
post that was accepted lately has an attempt of its own in the map, no older
than its row (`Recorded`), and these posts and those in flight are at most
`MaxPerIP - 1 + Concurrent` (`FewActive`); windows of `Old` posts alone are
bounded by that much per crash. At a crash, all posts begun become old. From it
follow `TypeCorrect` and `LimiterTheorem`.

**AdminConsole_proofs.** The list of the console, for any mail, keys, searches
and page size. `ListInv` says that at most one call is the newest
(`OneNewest`); that a next page that will be shown continues the list as it
still is, and holds older mail only (`Continues`, `PagesSorted`); that a filter
changed without a call has armed the timer for one, or was chosen in another
section and waits for the list to be shown, which reloads it (`NewestCurrent`, so
`RowsMatch`); and that the answer that may still be shown was read after the
list that is shown, while sent is final in the database (`Truthful`,
`Forward`). From it follow `TypeCorrect`, `NewestFirstTheorem`,
`ListMatchesFilterTheorem` and, as an action property,
`StatusesGoForwardTheorem`.

The limiter's times and the failures of a login are sets of records that name
the post or login, not sequences: the code reads their number only, after it
has dropped those outside the window.

Only model-checked: what needs fairness (`PendingSettles`, `SubmitReturns`,
`RequestsAnswer`, `ReviewAnswers`, `ServiceComesUp`: the installed provers have no
rules for ENABLED), and the five statements that do not hold, which have
counterexamples instead of proofs. All safety and action properties of the
passing runs are theorems.

## Not modelled

`Shutdown` (no code calls it), SMTP protocol steps, TLS, message formatting and
template text, JSON parsing, listings, AES-GCM, the static site, `.env` parsing,
the connection pool, the forms and the request log of the console.
`PROJECT.json` gives the reason for each.

Two statements about the code that no run shows, met while modelling: a key
made in the console and later used as `SUPER_API_KEY` stays active when the
value changes (`internal/store/keys.go:270` looks at `created_ip`, which the
conflict branch does not change), while the comment above it says the new value
becomes the only active one; and the auto-reply, which the README of the
repository (line 121) counts among the requests charged to a key, is charged to
none (`internal/public/public.go:131`).

## Plan

1. Allow-list normalisation and matching and recipient parsing against reference
   definitions.
2. The console's forms (keys, requests, compose, test mail) and request log,
   whose fetches overlap without sequence numbers.
3. Proofs about what 1 and 2 add.
