# DeltaFeedback: specifications, model checking, proofs

DeltaFeedback is a contact form: a visitor's message becomes a ticket in a
SQLite file and a notification in the admin's Delta Chat; the admin answers or
closes by replying there; the visitor follows the ticket on a page that polls.
This directory holds TLA+ modules of the program, the TLC configurations that
check them, and theorems checked by the TLA+ proof system.

Paths below are relative to the repository (`src/main.cpp` is the file
`main.cpp` of its directory `src`).

## 1. Inventory

| Component | State | Operations | Talks to |
|---|---|---|---|
| Database (`src/db`) | tables `tickets`, `messages`, `pow_replay`, `state`; the connection's registers `sqlite3_changes`, `sqlite3_last_insert_rowid` | one statement each; autocommit; foreign keys with cascade | every thread of `--run` shares ONE connection; `--reset-admin` opens its own |
| Visitor service (`src/feedback/service.cpp`) | none but the request in a worker's stack | `submit_new`, `submit_reply` | challenges, replay store, tickets, messages, sender |
| Challenges (`src/pow`) | the secret; a static decode table filled on first use | `issue`, `verify` | service, captcha handler |
| Validator (`src/feedback/validator.cpp`) | limits | `validate`, `validate_reply` | service |
| Bot (`src/dc/bot.cpp`) | the owner (atomic, and a row of `state`); blocked contacts in the Delta Chat core | first contact becomes owner; owner's message is routed; strangers are blocked | database, Delta Chat core |
| Router (`src/dc/admin_route.cpp`, `admin_parse.cpp`) | none | quote, typed `[ID]` or `[ID]` in the quoted text to a ticket; `/close` | bot, messages |
| Sender (`src/dc/sender.cpp`) | the owner handle | `send_to_owner` | service, Delta Chat core |
| Process (`src/main.cpp`) | configuration, account file, threads | `--run`, `--register`, `--invite`, `--reset-admin`; purge thread; `_Exit` on a signal | all |
| Account file (`src/app/config.cpp`, `src/main.cpp:72-132`) | the file; the copy a save works on | `load`, `get`, `save_account`; `--register` saves credentials, `--run` a generated secret | both commands write the same file; the next start reads it |
| HTTP server (`src/server/server.cpp`) | three token buckets | captcha, feedback, ticket state, reply; the visitor's address | service, database |
| Static files (`file_response` in `src/server/server.cpp`) | none; the file on disk and the browsers' copies are outside | size, time, open, read; `ETag` and 304 | the file system, browsers |
| Rate limiter (`src/server/ratelimit.cpp`) | a bucket per address | `allow` | API handlers |
| Visitor page (`web/app.js`) | `localStorage`, a dozen script variables, the timer | submit, poll, render, reply, new ticket, language switch, reload | API handlers |

What is hard here:

* many threads on one connection: statements interleave, and so do the two
  registers that are read after a statement;
* checks far from their use: the ticket's status in `submit_reply`, the
  ticket's existence in the bot's reply, each several statements before the
  write, with the purge, the other workers and the bot in between;
* crashes and `_Exit` at any step, with state split between memory, our
  database and the Delta Chat core's;
* time: two expiries of one challenge, a retention period, a purge that reads
  the clock once and begins each life of the process with a sleep;
* overlapping polls whose answers arrive in any order, and script variables
  that belong to the ticket before;
* a mutex entered in another order than the clock was read, and a static table
  filled without one;
* a file that changes between the four looks a handler takes at it, and a save
  that truncates first and writes when nobody asks any more whether it worked;
* one thing spelled in many ways: a token in base64url, an address in proxy
  headers, a text in code points and in bytes, a notification that contains what
  the visitor wrote.

What makes each component correct is what the properties in section 4 say; the
hazards behind them, each at its line, are the list `hazards` in
`PROJECT.json`, the ones no property covers with the reason.

## 2. Modules

| Module | Models | State and actions |
|---|---|---|
| `Database` | `src/db` | the tables as functions and a set of rows; `changes` and `lastRowid` for the registers; one operator per SQL statement |
| `Runtime` | clock, owner handle, sender, Delta Chat core | `SendToOwner` with a fresh id, or `SendToOwnerFails` |
| `Service` | `submit_new`, `submit_reply`, `issue`, `verify` | `work[w]` is the request of worker `w` and the stage it is in; one action per statement, per register read and per send |
| `AdminRoute` | `route_admin_message` | a pure operator |
| `Bot` | the event loop | `bot` is the message being handled; one action per statement |
| `DeltaFeedback` | the program: `Service` and `Bot` on one database, the purge thread, crash, terminate, boot, reset | interleaving of all of them |
| `TicketLife` | nothing of the code: the abstract specification of a ticket | `OpenTicket`, `VisitorSays`, `AdminSays`, `PassTurn`, `Close`, `Drop` |
| `TicketPage` | `web/app.js` with the GET handler of `src/server/server.cpp`, over `TicketLife` as the server | any number of requests under way (`Slots`), each sent, reading the ticket, reading the messages, answered, in any order; another tab writes to the same `localStorage` |
| `TokenBucket` | `src/server/ratelimit.cpp` | `ReadClock`, then `Allow` under the mutex |
| `DecodeTable` | the static table of `b64url_decode` | per worker `Check`, `Clear` (one entry, in any order) and `ClearEnds`, `Fill` and `FillEnds`, `Publish`, `Read` |
| `StaticFiles` | `file_response` and the cache of a browser | `file` with the time of its last write; `request[b]` goes through `ReadSize`, `ReadMtime`, `NotModified` or `OpenFile`, `ReadFile`; `Edit` and `Delete` at any point |
| `AccountFile` | `Config`, `save_account`, `cmd_register`, `ensure_hmac_secret` | `file` as it would be loaded; `job[p]` is the save of command `p`: `SaveLoad`, `SaveOpen` (which empties the file), `SaveFlush` or `SaveFlushDiskFull`; `Crash`, `Stop` |
| `Texts` | `trim`, `find` and the like | operators on sequences |
| `AdminText` | `format_admin_notification`, `admin_parse.cpp`, `admin_route.cpp` | the parser and the router as functions of texts |
| `Fields` | `validator.cpp` and the two `maxlength` of `web/index.html` | the field rules, over code points and their UTF-8, for every limit in `Limits`; what the page lets through has limits of its own |
| `Address` | `visitor_ip` | first hop, port, brackets, length |
| `Token` | `challenge.cpp` without the HMAC, `leading_zero_bits` | base64url with the int its decoder collects bits in, the four fields, the count of zero bits |
| `ConfigText` | the text of a configuration, the hexadecimal secret, integers | load, save, `Leading`, `Retention` |
| `Inputs` | the composition of the text modules | `subject` is what is typed (a message of the admin, a field, an address, bytes, a value, the secret, a number of days); `text` grows by one unit at a time; the properties are about every text |
| `MC...` | | symmetry sets for TLC |
| `...Proofs` | | theorems and their proofs |

`DeltaFeedback` EXTENDS `Service` and `Bot`, which EXTEND `Runtime` and
`Database`: the shared state is shared by being the same variables.
`TicketLife` is the seam between the two halves: `DeltaFeedback` is shown to
implement it (`Life == INSTANCE TicketLife WITH phase <- ..., log <- ...`), and
`TicketPage` takes its actions for the server behind the page, so that the page
meets more than one small instance of it. The two results are separate: what is
shown of the page is shown of that server, in which an id that was handed out is
not drawn again, and is not derived for `DeltaFeedback`.

`AdminRoute`, which `Bot` uses, is the abstraction of `AdminText`: what a message
says is there one of three remainders and a typed id. `RouteAgrees` checks that
the two route every message alike.

Operators named as mutants are small plausible bugs (a dropped guard, an
off-by-one, a forgotten reset). Each stands before the definition it would
replace; with it in that place some property of the runs is violated. They are
used by no specification.

### How the code is read

* A SQL statement is atomic, nothing larger is. SQLite's serialized mode locks
  the connection for a statement; no code here opens a transaction.
* Of the data, ids are model values; names, bodies, locales, token hashes and
  addresses are left out. `0` stands for SQL `NULL` in `closed` and `dc`, so the
  clock starts at 1.
* A request that is refused before its first write changes nothing and has no
  step. `submit_reply` reads the ticket first and verifies the challenge next;
  both are one step, since a challenge valid at the later moment was valid at
  the earlier.
* The validator and the Delta Chat core may accept or refuse anything.
* `InsertTicket` draws an id that was never a row; `InsertTicketCollides` is the
  draw of one that is. An id of a deleted ticket is not drawn again (30 random
  bits).
* The core keeps message ids across restarts and delivers nothing of a blocked
  contact. A message of the admin that a crash cuts short is not delivered
  again.
* `--reset-admin` runs while the server is down, as `src/dc/bot.h:44` says. It may
  be killed between any two of its three statements, and the next server starts
  with what is left.
* `issued`, `drawn`, `told`, `accepted`, `firstContact` and `bot.quoted` are
  what the outside knows (signed tokens, tokens handed out) or history that
  properties refer to; no guard of the code's reads a history variable, except
  `drawn`, see above.
* `DecodeTable`: the race is undefined behaviour; the module keeps what plain
  loads and stores do on x86 in program order, with the stores of `memset` in
  any order, and already that is enough to violate `LettersDecode`.
  `TableSettles` is a statement about such a build.
* `TokenBucket` counts in integer units where the code has doubles: `Cost` units
  are one token and `Rate` of them come with each tick.
* `TicketPage` has one tab that is modelled in full and a second of which only
  what it does to `localStorage` is seen. Requests overlap as `setInterval` and a
  new ticket make them. The awaits of `onSubmit` (`web/app.js:102-125`) are one step:
  until the answer the form stays in view with its button disabled, and what
  arrives meanwhile is a step of its own before. `lastMsgCount` and `lastStatus` are
  kept as the rendering they were taken from (`last`); `Unchanged` compares only the
  count and the status of it. A poll that fails on the way and one that is turned
  away (429) look the same to the page.
* `StaticFiles` names a content by the time it was written, since the code counts
  on the time to advance on any change (`src/server/server.cpp:147-148`). A body is
  the contents its first and its last byte were read from.
* `AccountFile` has the layout of a single file, in which the operator's settings
  are at stake too. A file is what `load` makes of it; an order of keys is kept,
  because a cut falls behind one of them.
* The text modules scale widths, not rules: with `Unit = 1` a byte has 4 bits
  and a base64 digit 3, so three bytes are four digits as with 8 and 6 (`Unit =
  2`); `IntBits`, `Base`, `IntMax`, `DayLength`, `IdLength` and the field limits
  are the constants of the code made small. The page's limits are fixed
  (`web/index.html:19,24`), the server's are configurable
  (`src/main.cpp:275-276`), and `required` is not enforced, the form being
  `novalidate` (`web/index.html:16`): so the two are separate constants, and an
  empty message is one the page sends and the server refuses. `newline` stands
  for all three control characters that pass. Characters are the classes the
  code tells apart. What `parse_i64` does with a number of too many digits does
  not matter: the signature is over the text and such a text was never signed.

## 3. Bounds and fairness

Every bound is a constant: `MaxClock`, `MaxDc` (sends beyond it fail),
`MaxMessages` (nobody starts to write beyond it), `MaxCrashes`, `MaxResets`,
for the page `Slots` (its requests under way at a time) and `MaxEntries` (messages of
all tickets; polls lost, reloads, language switches and writes of another tab are
not bounded), for the files `MaxEdits`, `MaxAccounts`, `MaxSecrets` and `Faults`
(which of a crash, a full disk and an overlap may happen), for texts `Lengths`.
They stand in the guards of what the
environment does, never in a step that finishes something begun; `HasRoom` and
`HasIds` reserve room for what is under way.

Two workers and two tickets are enough for each of the races: one to be
overtaken and one to overtake, with the bot and the purge as third and fourth
actor. Times are scaled: what matters is their order, so lifetimes and the
retention are 1 or 2 ticks against a clock of 3. Two requests of a page under
way are one to be overtaken and one to overtake it. Three accounts and three
secrets let a save fall between two others and be overwritten by a third; two
edits can come before and within a read. Texts are long enough for each rule to
be met by a text that uses it twice: an id in brackets within a body that has
brackets, an address with two hops and a port, three bytes that fill four
digits, a line with two equals signs, a number over the limit.

Fairness of `DeltaFeedback` (`Fairness`): threads of a running server are
scheduled (weak fairness of each worker's `RequestStep`, of `BotWork` and of the
purge), time passes, systemd restarts the service
(`packaging/deltafeedback.service` has `Restart=`), and a reset comes to an end,
its own or that of a process that is killed. Nothing is assumed of visitors, of
the admin or of the sends.

Fairness of `TicketPage`: of each request under way the handler runs, and the
answer arrives unless the request is lost (weak). The timer gets strong
fairness: `setInterval` fires whatever is under way, only the model's bound on
requests can disable it, and it does so again and again. Polls may be lost without
end; `PageCatchesUp` names that as the case in which nothing is promised.

`CHECK_DEADLOCK FALSE` stands in the runs of `TicketPage`, `TokenBucket`,
`StaticFiles`, `AccountFile` and `Inputs`: a page with a form nobody fills in, a
limiter at the end of its clock with no worker waiting, a deleted file nobody asks
for after the last edit, commands without another account to register, a text of
full length have nothing to do. The other runs check for deadlock; an idle
server is the explicit step `Wait`.

## 4. Runs

Passing:

| Run | Instance | What it shows |
|---|---|---|
| `Conversation` | 2 workers, 2 tickets, 2 challenges, 2 contacts, 3 messages, a crash, a reset; the purge never wakes (clock 1) | `TypeOK`. `AdminSpokeFirst`: a ticket waits for the visitor only if it shows a message of the admin, although append and status are two statements and others write between them. `DcMsgIdsUnique`: no two messages share a Delta Chat id, even when one is bound to the wrong row. `OkMeansAdminNotified`: who was answered Ok has a row and the admin a notification. `OwnerInStep`: memory and database agree on the owner but for one window. `OwnerNeverBlocked`. `AdminNeverReplaced` except by a reset. `ClosedIsFinal`. `TicketLife`: the refinement. |
| `Lifetime` | 1 worker, 1 ticket, 2 challenges, 1 contact, clock 3, retention and period 1, a crash, a reset, fair | `ReferentialIntegrity`. `ReplayMemory`: a challenge that was accepted and is still valid is still remembered, if `ChallengeTTL <= ReplayTTL`. `PurgeOnlyInactive`: the purge deletes nothing anybody touched within the retention, measured at the moment of the delete. `TicketLife` again, with a purge that works, processes that end between any two statements, and a server that starts on what a reset has done by then. `InactiveTicketsPurged`: an abandoned ticket is deleted, whichever side left it, unless the server goes down. |
| `Page` | 2 requests under way, 2 tickets, 2 messages; polls lost, reloads, language switches, writes of another tab, tickets dropped at any time | `PageTypeOK`. `TurnIsShown`: where the page asks the visitor to answer, it shows what the admin said, in whatever order answers arrive. `NotModifiedIsTrue`: a poll that carries what the page has of the ticket it asks for is answered 304 only if that is all there is. `TokenKept`: the token of an open ticket goes in three ways and no other: another tab, a late 404 of another ticket, the button another ticket's rendering left behind. |
| `PageLive` | 2 requests under way, 1 ticket, 3 messages, fair | `PageCatchesUp`: a ticket the timer polls is shown as it is again and again, whatever late answers come between, unless it keeps changing or polls keep failing. |
| `RateLimit` | 3 workers, 2 addresses, clock 5 | `AdmissionBound` and its strengthening `Ledger`, with workers that overtake each other. |
| `DecodeSettles` | 3 workers, 2 letters | `Pending`, `TableSettles`: overlapping first calls, each clearing entry by entry and then filling, do no lasting damage. |
| `StaticFiles` | 2 browsers, 2 sizes, 2 edits | `TypeOK`. `ConfirmedCopyIsCurrent`: 304 confirms only a copy that is one whole content and the current one; a body torn by an edit never gets a tag that matches later. `AnswerIsFresh`: nothing a browser holds after an answer is older than the file it asked for. |
| `Account` | 3 accounts, 3 secrets, all faults | `TypeOK`. `NothingForgotten`: without a mishap the two writers keep each other's keys and the operator's. `CredentialsTogether`: processes that end within a save leave no address with another account's password, nor one without the other. `RestartKeepsSecret`: after saves that were cut short no server comes up with another secret or database, until an account is registered anew; it does not start instead. |
| `Inputs` | texts up to 3 to 6 units | `RouteAgrees`, `NotificationParsesBack` (the visitor's words in a notification do not lead to another ticket), `FormAndServerAgree` (under every limit of the server: it accepts what is clean, not empty and within its limits in code points; so nothing the page lets through is too long for a server with at least the page's limits), `ProxiesAgree` (every spelling of an address is one key), `BytesSurvive`, `SpellingsAreOneChallenge` (no spelling of a spent token is a new challenge), `ZeroBitsMeasureWork`, `SavedIsLoaded`, `DaysAreKept`. |

Expected violations. Each checks one sentence of a comment, a document or a test
against what the code does; the counterexample is the finding in
`PROJECT.json`.

| Run | Property | The sentence |
|---|---|---|
| `ReplayRace` | `AcceptedOnce` | `src/db/replay.h:16`, no race window: but `sqlite3_changes` is read one statement later |
| `QuoteRace` | `QuotedReplyReachesItsTicket` | `src/db/messages.h:26`, `append` returns the new row's id: but the register is the connection's |
| `PurgeUnderReply` | `ServiceStaysUp` | `src/dc/bot.cpp:79-82`: but the purge may come after that lookup, and the exception is nobody's |

More configurations are kept beside the runs. TLC finds each violated, and each
marks the limit of what a run above shows:

* `ReplayForgotten` (`MCDeltaFeedback`, `ReplayMemory`): with a
  `pow_challenge_ttl_seconds` above 3600 the purge forgets a challenge that is
  still valid. `src/feedback/service.cpp:110` takes the replay lifetime for
  generous.
* `UnsentTicket` (`MCDeltaFeedback`, `UnsentTicketRecoverable`): a ticket whose
  notification failed is never shown to the admin; `src/feedback/service.cpp:151`
  counts on a `/list` the bot does not have.
* `PageLateAnswer` (`MCTicketPage`, `TokenKeptFromOthers`): with two requests under way
  a late 404 for the previous ticket clears the new one's token. `TokenKept` names
  this case as one of its three.
* `ResetCut` (`MCDeltaFeedback`, `NoCarryOver`): a `--reset-admin` that is killed after
  its first statement leaves the tickets of the old admin to the next one, against
  `src/dc/bot.cpp:286`.
* `DecodeRace` (`MCDecodeTable`, `LettersDecode`): while two first calls overlap,
  a letter may be looked up as none.
* `TurnRace` (`MCDeltaFeedback`, `VisitorWaitsForTurn`): the tests
  `ReplyRequiresAwaitingVisitor` and `ReplyRejectsClosed` hold for one request at a
  time; of two, the second appends on a status read before the first.
* `OwnerLost` (`MCDeltaFeedback`, `FirstContactIsAdmin`): memory is first and the
  database second, so a crash in between makes room for another first contact.
* `PageOverlap` (`MCTicketPage`, `PageFollowsTicket`): one ticket and two polls: an old
  answer comes last, after a newer one said `closed` and stopped the timer, and
  stays on the page. `PageCatchesUp` promises no more than what the timer polls.
* `TwoTabs` (`MCTicketPage`, `OtherTokenKept`): a tab on an old ticket clears the
  credentials another tab has stored for a new one.
* `LeftoverForm` (`MCTicketPage`, `RepliesGoWhereShown`): a new ticket is shown, its
  first poll is lost, and the reply form of the previous one is still on the page.
* `SavedUnwritten` (`AccountFile`, `RegisteredMeansSaved`): a full disk is noticed
  when the stream is closed, after `good()` was asked; the account is reported as
  registered and is gone.
* `SaveBeside` (`AccountFile`, `CredentialsTogetherBeside`): two saves at once, the
  shorter written over the longer, mix two accounts.

The properties of the page say themselves where they stop. `showTicketView` hides
nothing of the previous ticket's rendering (`web/app.js:134`), and a language switch
before the first answer renders the previous ticket again (`web/app.js:52`), with its
count and status. A poll for the new ticket that carries those may be answered 304
though the page shows the other one: `NotModifiedIsTrue` is about polls that carry
what the page has of the ticket they ask for, and `PageCatchesUp` leaves out a
rendering of another ticket that looks the same (`LooksLike`). `ReplayMemory` holds
in one configuration and fails in another: it names the condition it needs.

Some disagreements need no run. `src/main.cpp:297` speaks of closed tickets where
the purge takes any inactive one. `README.md:79-80` speaks of the next contact
where one that was blocked before the reset stays blocked. `src/main.cpp:93-94`
preserves anything else that is in the account file, but the comments in it are
gone after a save. From 24856 days on the product in `src/main.cpp:305` runs over,
which `DaysAreKept` leaves out. `src/server/ratelimit.h:13-15` speaks of buckets
being dropped, which no code does. `src/feedback/validator.h:21,69` says that newline
and tab pass; the carriage return passes too. `tests/pow_challenge_test.cpp:47-50`
and `tests/service_test.cpp:127-131` change the last character of a token to `A`, or
to `B` where it was `A`, and expect it to be refused; where only left-over bits change,
it is not, and `SpellingsAreOneChallenge` says that it then is the same challenge.
With `message_max_chars` below 500 (`src/main.cpp:275-276`) the page, whose `maxlength`
is fixed, lets through texts the server refuses as too long.

## 5. Proofs

Checked by `tlapm` for every value of the constants (any number of workers,
tickets, challenges, contacts, browsers, accounts, any times), from the named
assumptions of the modules (`DatabaseAssumption`: ids are finite sets and `None`
is none of them; `RuntimeAssumption`, `ServiceAssumption`,
`DeltaFeedbackAssumption`: times and bounds are natural numbers;
`TokenBucketAssumption`: the burst covers one request; `DecodeTableAssumption`:
there is a letter; `StaticFilesAssumption`, `AccountFileAssumption`,
`TicketPageAssumption`: bounds are natural numbers, no file has the size of a
missing one, no ticket is `None`, faults are those named; `AdminTextAssumption`,
`AddressAssumption`, `FieldsAssumption`, `ConfigTextAssumption`,
`TokenAssumption`: ids have a length, the limits of page and server are natural
numbers, any set of them, no address of a run is longer than the longest, the
default retention fits an int, which has room for a digit above the bits that
are pending, the alphabet has the numerals in a row). The bounds stay in the
theorems as parameters.

`DeltaFeedbackProofs` proves every safety property the runs check of the program,
and the refinement. Its parts:

* *Types and tables*: `TypeCorrectness`, `MessagesBelongToTickets`,
  `ClosedStaysClosed`. The inductive invariant is
  `IInv == TypeOK /\ ReferentialIntegrity /\ RequestsWellFormed /\ BotWellFormed`.
  `TypeOK` alone is not inductive: what a statement binds is in the record of
  the handler, and only the handler's stage tells that it has a ticket by then
  (`RequestsWellFormed`, `BotWellFormed`). The proof is layered like the
  modules: `HandlerProofs` has a lemma per statement (it keeps `DatabaseInv`
  and leaves closed rows alone, `ClosedRowsStay`) and on top of them a
  lemma per action of `Service` and of `Bot`, and `DeltaFeedbackProofs` one
  per disjunct of `Next`. `TableSteps` then sums up what a step may do to the
  tables; the parts below split on it and not on the actions.
* *The owner*: `MemoryAgreesWithDatabase`, `AdminIsHeard`, `AdminStays`. What has to
  be added is that the bot stores an owner only where none is stored.
* *The conversation*: `VisitorIsAskedAfterAdmin`, `OkIsNotified`. `TalkInv` gives
  each stage what the handler has done before it: a request that passes the turn
  has spoken, one that binds has notified. It survives deletes because an id that
  was drawn is not drawn again: `VisitorSpoke` and `AdminSpoke` only grow.
* *The abstract specification*: `ImplementsTicketLife`. Each step of the program is
  a step or a stutter of `TicketLife` under the mapping. The one that needs an
  argument is the append of the admin, which `TicketLife` allows in an open ticket
  only: only the bot closes tickets, so what it found open is not closed when it
  appends.
* *The notifications*: `QuotesHaveOneAnswer`. `BindInv`: the id a request is about to
  bind is one no row and no other request has; so the row it hits, which may be
  another ticket's, is the only one with that id.
* *Time*: `PurgesAreLate`. The purge's clock lags behind (`ProcessInv`), and no message
  is older than its ticket (`AgeInv`), which is why `created_at` need not be looked
  at where there are messages.
* *The challenges*: `ChallengesAreRemembered`, with `ChallengeTTL <= ReplayTTL` as its
  hypothesis. `ClaimInv`: a row outlives its challenge, so one that the purge
  deletes stands for a challenge that is dead.

The other modules:

* `TokenBucketProofs`: `LedgerBalances`, `RateLimited`. `AdmissionBound` is not
  inductive; `Ledger` is: tokens and the time of the last refill move together,
  so a worker that comes late takes tokens away and gives them back with the
  next refill, and only the cap at the burst loses some. The products of two
  constants are factored out into lemmas since the solver is linear.
* `DecodeTableProofs`: `TableComesOutRight` from `Pending`, which is
  `WrongEntriesArePending`: from the first whole clear on, an entry that is not right
  is a letter that some worker will still fill in, now or after its clear. The
  characters that are no letters are written by clears only, so whoever has stored
  that entry finds it cleared (`Cleared`); the letters are filled in after every
  clear, each clear's own loop being still to come.
* `StaticFilesProofs`: `ConfirmedCopies`, `FreshAnswers`. The times a handler has seen
  are in the order it looked; a tag taken before the file was opened is therefore
  not newer than any byte of the body, and a tag that still matches leaves no room
  for an edit in between.
* `AccountFileProofs`: `NothingIsForgotten`, `CredentialsStayTogether`,
  `SecretIsKept`. What a save is going to write is an agreement between the file it
  loaded and the keys it sets (`AtWork`, `Calm`), no two saves overlap unless that
  is among the mishaps (`Alone`), and a file cut by a crash is an empty one
  (`Together`). `Kept` adds, for saves cut short: a file from which a server may
  start has the secret last reported as saved and the operator's database, and so
  have the server that runs and the save that would write them.

* `TicketPageProofs`: `PageTypeCorrect`, `RenderedIsReal`, `TurnIsAlwaysShown`,
  `NotModifiedHolds`, `TokenIsKept`, all for any number of requests under way in any
  order, and for any number of tickets, messages, lost polls, reloads, switches and
  other tabs. The invariant `PageInv` is about what an answer says, wherever it is:
  kept by the page, carried by a poll, read by the handler or on its way back
  (`Real`, `RequestOK`). It was so once, and the ticket has only gone on from there
  unless it is gone for good. That 304 is true is then a matter of sets: of two
  conversations, one in the other, with as many messages; and a token is taken by a
  404, which is of a ticket that no longer exists, so of another one.

`InputsProofs` proves all nine properties of `Inputs` for texts of every length
(`RoutesAlwaysAgree`, `NotificationsAlwaysParseBack`, `FormAndServerAlwaysAgree`,
`ProxiesAlwaysAgree`, `SavedIsAlwaysLoaded`, `DaysAreAlwaysKept`, `BytesAlwaysSurvive`,
`SpellingsAreAlwaysOne`, `WorkIsAlwaysMeasured`). Each rests on a theorem that does not
mention `Spec` and is about any text at all. The invariant they need of `Spec` is only
that the text is made of units (`TextsTyped`); the rest is about functions:

* *Induction*. The induction theorems of the library are out of reach, and
  `NumbersInduction` takes their place: a set that has 0 and with each number the
  next has them all, from the well-foundedness of `<`. What is proved by induction
  is written as such a set.
* *Folds and recursive functions*. A fold is a CHOOSE of a recursive function, and
  that there is one has to be proved: `FoldExists`, `FlattenExists`, `PowersExist`
  build it from those for shorter texts. `NumberIs`, `LoadIsFold`, `MagnitudeIs`,
  `DecodeIs` then give each function of the code the equations of its loop.
* *The admin's text*. `FindIs` and `TrimIs` say what `find` and `trim` return; the tag
  that leads back is the first pair of brackets with an id between, and the header of
  a notification has it before anything the visitor wrote (`NotificationIs`).
* *The form*. The continuation bytes of a code point are not counted (`CheckedField`),
  so the server's count of a text is its number of code points, never more than
  what the page counts; the limits are any.
* *The file*. A line is cut at its first equals sign, which no key has, and blanks go
  (`LineIsLoaded`); two lines of which each sets its own key do not disturb each
  other, and hexadecimal is undone byte by byte (`SecretComesBack`).
* *Bytes in base64url*. The decoder carries on with an int that it never clears.
  `Decodes(t, out, bits, rest)` says what matters of it: after the text `t` the bytes
  `out` are out and the lowest `bits` bits of the int are `rest`; what is above was
  read and may run over (`TokenAssumption` leaves room). `OneMoreGroup` then goes on
  by one group of one, two or three bytes (`BytesComeBack`).
* *The token*. `FourFields`: a text of three dots is four fields without one, and
  joined again they are the text. What is signed is the text of the first three
  fields, and since none of them has a dot, equal payloads are cut into equal fields:
  another spelling of the id or of a number is refused. Only the signature may be
  spelled otherwise, in the bits its last digit has left over, and that is the same
  challenge (`TokenIsOneChallenge`), whose numbers come back from their printed
  form (`NumberComesBack`).
* *The work*. Leading zeros are counted to the first byte that has a one and within
  it; the number the digest is lies below a power of two exactly then
  (`WorkIsMeasured`). `Token` has `Power` for powers, since the provers take `^` for an
  unknown function.

Only model-checked: liveness (`InactiveTicketsPurged`, `PageCatchesUp`), since
the prover has no rules for fairness; and the expected violations, which are
counterexamples. That `Inputs` has the character classes and the widths of the
code is an abstraction (section 2) and not a theorem.

## 6. Not modelled, and why

* The statement wrapper (`src/db/statement.cpp`): binds and steps; that a step throws
  on a failed constraint is part of the actions that end in an exception.
* SHA-256 and HMAC: calls into OpenSSL. Only the count of zero bits is code.
* `--invite` and the dialogue of `--register` with the Delta Chat core: they change
  nothing of the program beyond the account file.
* JSON, the bearer header and status codes, beyond what the page tells apart.
* MIME types, and the check that a path stays below the root: no state.
* Translations and the proof-of-work search in the browser; of two quick language
  switches the dictionary that arrives last wins, which nothing written forbids.
* Packaging and build.
* `--reset-admin` beside a running server: planned, see below.
* Other outcomes of the decode-table race than stale and fresh bytes.

## 7. Plan

Done, in this order: `Database`, `Runtime`, `Service`, `AdminRoute`, `Bot`,
`DeltaFeedback` with `TicketLife`; `TicketPage`; `TokenBucket` and `DecodeTable`;
a second tab in `TicketPage`; `StaticFiles`; `AccountFile`; the text modules and
`Inputs`. Proved: all safety properties of `DeltaFeedback`, the refinement, and the
safety properties of `TokenBucket`, `DecodeTable`, `StaticFiles`, `AccountFile`,
`TicketPage` and `Inputs`.

Next, models: `DeltaFeedback` with `--reset-admin` beside the running server
(`SQLITE_BUSY` swallowed, the owner in memory only), for which `ResetOwner` loses its
guard and each statement gains a step that fails; the race of two language switches.

Next, proofs: that the server of the page is what `DeltaFeedback` is to it, by a
refinement of both to one specification of the GET handler.

## 8. Running

    tlc -config Conversation.cfg MCDeltaFeedback
    tlc -config Page.cfg MCTicketPage
    tlc -config PageLive.cfg MCTicketPage
    tlc -config StaticFiles.cfg StaticFiles
    tlc -config Account.cfg AccountFile
    tlc -config Inputs.cfg MCInputs
    tlapm DeltaFeedbackProofs.tla
    tlapm InputsProofs.tla

Each passing run takes two and a half minutes at most on two workers; the proofs
take from a few seconds to ten minutes a module from nothing.
