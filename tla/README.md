# TLA+ verification of jdShopServer

jdShopServer is the account server of a desktop client: users register with an SMS
code, log in, refresh their session, report heartbeats, read announcements and ask
for the newest client version; a super administrator enables, disables and limits
accounts. It is one Go process on one SQLite database. This directory holds TLA+
models of its core, TLC configurations that check them on small instances, and
proofs that TLAPS checks.

    tlc -config MCAuthSessions.cfg MCAuthSessions     # one run
    tlapm AuthService_proofs.tla                      # the proofs of a module

## What the system is made of

All state that survives a restart is in SQLite. The pool is opened with one
connection by default, so a statement or a transaction is atomic, and requests
(one goroutine each) interleave *between* their statements. That is the grain of
every model here: one action per statement or transaction, with everything the code
does before the next one folded into it, and the handler's local variables as state.

| Component | State | Operations | Hard part |
|---|---|---|---|
| Sessions (`service/auth.go`, `user.go`, `admin.go`, `middleware/auth.go`) | `users.status`, `user_auth_versions`, `refresh_tokens`; signed access tokens held by clients | Login, RefreshToken, Logout, Auth, ChangePassword, UpdateUserStatus | requests in flight across a sign-out; the revocation is a statement after the transaction and may fail |
| SMS codes (`service/sms.go`, `captcha.go`) | `sms_verifications`; captchas and two mutexes in memory | Captcha, Send, VerifyCode | limits counted before and recorded after a call to the provider; check-then-act on a row |
| Control hub (`service/control.go`, `handler/control.go`) | channels of capacity one per subscriber | Subscribe, Publish, Broadcast, Stream; Heartbeat as confirmation | dropped events, overlapping streams, restarts, "commit, then publish" |
| Announcements (`service/announcement.go`, `repository/announcement.go`) | `announcements`, targets, receipts per revision | Create, Update, Publish, Unpublish, Delete, list, read, acknowledge | read–merge–write, revisions against late receipts, notification after commit |
| Client versions (`repository/version.go`) | `app_versions.is_latest` | Create, Update, Delete | the flag is read outside the transaction that acts on it |
| Registration and usage period (`service/auth.go`, `access.go`) | `users`, `user_access_control`, `registration_defaults` | Register, Evaluate, UpdateUserAccess, UpdateRegistrationDefaults | an account, its role and its policy are created by separate transactions; a missing policy is created lazily |
| Roles (`service/admin.go`, `repository/role.go`) | `roles`, `user_roles`, permissions | CreateRole, UpdateRole, DeleteRole, AssignUserRoles | a role is looked up in one statement and changed in another; foreign keys may not be enforced |
| Login throttle (`repository/login_log.go`) | `login_logs` | CountFailures, Create | comparisons of times |
| Request envelope (`service/request_crypto.go`) | the private key and its file, request ids in memory | Decrypt, markRequestID, loadOrCreatePrivateKey | two readings of the clock, clocks of clients, restarts |
| Rate limiter (`middleware/ratelimit.go`) | a count and a window per address, in memory | Handler, cleanup | the edges of windows, a goroutine that deletes |
| Start-up (`main.go`, `repository/db.go`) | `schema_migrations`, the schema | RunMigrations, reconcileExistingMigrations | crashes in the middle; two processes; databases of earlier programs |
| Heartbeat records | `heartbeat_logs`, which nothing reads | Report | |
| Router, configuration, logging, administration page, deployment | none across requests | | |

They interact through the database (an account's status and version, read by every
request), through `SMSService.VerifyCode`, which Register and ChangePassword call, and
through the hub, which AdminService and AnnouncementService publish to.

What makes each component correct, in a sentence:

- *Sessions*: after a sign-out everywhere, nothing issued before it is usable, and
  nothing checked before it becomes usable later.
- *SMS codes*: each message costs a captcha, recorded messages respect the limits, a
  code bears a bounded number of guesses and is accepted once, but for overlaps.
- *Control hub*: a client whose picture of its account is out of date is going to
  ask, whatever was dropped.
- *Announcements*: a revision number means one content, a receipt means that the user
  was shown it, and a list that is out of date is announced.
- *Client versions*: a platform that has versions has exactly one latest.
- *Registration*: an account's default policy is the template of the time of its
  registration, and nothing but an administrator changes it.
- *Roles*: the seeded administrator alone holds the role `admin`, which permits
  everything, and a new role permits nothing until it is granted something.
- *Login throttle*: whoever is refused has failed often enough, recently enough.
- *Envelope and limiter*: an envelope is accepted once; bursts are bounded, and a
  refusal has its cause within the last window.
- *Start-up*: what is on record was done, the server serves on a whole schema, under the
  key it has always had, and gets there again after any crash.

The hazards behind these sentences are listed, with their lines, under `hazards` in
`PROJECT.json`.

## Modules

| Module | Models | Role |
|---|---|---|
| `AuthSessions` | sessions | specification, properties, inductive invariant `IInv` |
| `SessionLedger` | what a client may rely on | abstract specification; `AuthSessions` implements it |
| `LoginThrottle` | the count of failures and the login log | specification, properties, `ThrottleInv` |
| `AuthService_proofs` | | theorems about `AuthSessions`, the refinement included, and about `LoginThrottle` |
| `SMSVerification` | captchas, Send, VerifyCode | specification, properties, `IInv` |
| `SMSVerification_proofs` | | theorems about `SMSVerification` |
| `WakeUp` | | abstract specification of a wake-up service |
| `ControlHub` | hub, streams, publishers, client | specification; implements `WakeUp` |
| `ControlHub_proofs` | | theorems about `ControlHub`, the refinement included |
| `Announcements` | one announcement, its editors and readers | specification and properties |
| `Announcements_proofs` | | theorems about `Announcements` |
| `AppVersions` | `is_latest` | specification and properties |
| `AppVersions_proofs` | | theorems about `AppVersions` |
| `Directory` | | the constants that `Accounts` and `Roles` share |
| `Accounts` | registration, the usage policy, the template | specification, properties, `IInv` |
| `Roles` | roles, their holders and permissions | specification, properties, `RolesIInv` |
| `AccountsRoles_proofs` | | theorems about `Accounts` and about `Roles` |
| `Startup` | migrations, the key file, two processes | specification, properties, liveness |
| `Startup_proofs` | | theorems about `Startup` |
| `RateLimiter`, `RequestEnvelope` | one component each, without a clock | operators and actions |
| `RequestGate` | what a request passes before its handler | composes the two under one clock |
| `RequestGate_proofs` | | theorems about `RequestGate`: the envelope, the limiter |
| `MC…` | | values of constants and symmetry sets for TLC |

`Roles` and `LoginThrottle` say `RolesInit`, `ThrottleNext` and so on, and have `stage` where
other modules have `pc`, because a module of proofs extends each together with a second
specification.

Operators whose comment begins with "Mutant of" are deliberately wrong versions of
the operator that follows them; no specification uses them. Each shows that a
property would notice the corresponding mistake.

### AuthSessions

`pc[h]` names the next statement of request `h`. Login and RefreshToken share the
steps `EvaluateAccess`, `SignAccessToken` (which reads `auth_version` for the
claims) and `CreateRefreshToken`. ChangePassword and UpdateUserStatus go through
`BumpVersion` in the transaction that writes `users`, then `RevokeAll`. `Abort` ends
a request between any two statements: an error, a panic caught by the Recoverer, or
the process stopping, after which a handler remembers nothing. `RefreshRevoke` may fail
without the request noticing, since the code ignores that error.

Time is not modelled: expiry only takes tokens out of use, and the properties hold of
tokens that never expire; `RefreshFind` takes "expired" as a free choice because it
selects a branch. The outcome of `Evaluate` is free too, except that the super
administrator is never refused. `born` and `asOf` are history: the owner's version when
a row was inserted, and when the request that led to it read the account.

`SessionLedger` says what remains when requests and rows are forgotten: authorities (an
account, and the epoch in which somebody found it in order) that are promised, in force as
tickets, or renewable; a sign-out takes all tickets of an account, and nothing taken comes
back by itself. It leaves open that a promise given before a sign-out is kept after it,
which is what the run `auth_reauthorised` shows of the code. `Ledger` in `AuthSessions` is
the refinement mapping.

### SMSVerification

`Check` is the critical section of `Send` up to the provider: only `Send` inserts rows
and it holds `sendMu`, so its queries see one table. `CallProvider` separates "the
message went out" from "the answer was read". `Record` stores the moment of the check.
`VerifyCode` is `ReadLatest` followed by `IncrementAttempts` or `Consume`. Times are
ticks; the store keeps whole seconds, which is what a tick stands for.

### ControlHub and WakeUp

A change is a committed increment of `truth`, followed by `Publish` or `Broadcast` on
the hub. `slot` is the channel of capacity one. `HandlerEnds` is the deferred
unsubscribe; `Connect` runs `Subscribe`, and `WriteConnected` writes the first event
only afterwards. The client is external and modelled as the documents describe it: it
confirms by heartbeat on every event, lists announcements on an announcement event,
polls, and reconnects. `lost` records publications that never happened (the request
failed after its commit). `WakeUp` says in five actions what this machinery is for;
`ImplementsWakeUp` is the refinement, under `due <- {c : Due(c)}`.

### Announcements

The announcement may or may not exist at first; `Create` inserts it as a draft, and a
deleted one does not come back, since ids are not reused. Editors run read – write –
re-read – notify. `UpdateWrite` merges the request into the
row read earlier. Readers list (`ListQuery`, then `MarkDelivered`), and read or
acknowledge what they display (`ReceiptCheck`, `ReceiptRevision`, `ReceiptInsert`). The
filters by platform, client version and time are taken to hold. Whether SQLite
enforces foreign keys depends on the connection (see findings), so `DeleteWrite` and
the inserts allow both outcomes. The signal to a client is `told`; the ways in which the
hub may lose it are the subject of `ControlHub`.

### AppVersions

`Create` is one transaction; `Update` with `is_latest = 1` and `Delete` read first and
act in a second step. `doubled` and `unflagged` are history: platforms on which a
request acted on an outdated flag.

### Accounts

A request is `Register`, step by step (`RegisterFindPhone` … `InsertDefaults`), or the
lazy creation of a policy by `Evaluate`, which joins it at `ReadDefaults`. `Abort` is an
error, a panic or the end of the process between two statements, and `cutShort` remembers
the accounts it leaves half made. The contents of the template and of a copy are reduced
to the edition of `registration_defaults` they come from. `born` and `settled` are
history: the edition in force when the account was inserted and when its Register ended.
Requests of an administrator that are a single statement are single actions.

### Roles

`AssignFind`, `AssignCheck` (one turn of the loop) and `AssignWrite` are
`AssignUserRoles`; `UpdateFind`/`UpdateWrite` and `DeleteFind`/`DeleteWrite` are the other
two requests that look first. `RegisterInserts`, then `RegisterAssigns` or `RegisterFails`, is
what Register, in `Accounts`, does here; accounts register at any time, after a restart as
before it. `SetPermissions` is the transaction that follows a creation or a renaming, whose
error nobody looks at. `fk` says whether the connection enforces foreign keys: it may until
the first restart, and not afterwards (see findings); the model starts in either state.
Without them a deleted role leaves its rows behind, and a role deleted in the middle of an
edit gets rows it never had; `NewRolesPermitNothing` says that no other role inherits them.
`Seeded` is the account of `001_init.sql`, and `Super` the one the configuration names
(`SUPER_ADMIN_USERNAME`), which may be another.

### Startup

Two processes, `serve` and the subcommand `migrate`, run `RunMigrations` on one database;
nothing in the code keeps them apart. The schema is the set of the parts the scripts make:
four of `001_init.sql`, which runs statement by statement, and one transaction for each of
the others. `Init` is a new database; or one in which the first scripts are complete, with or
without `schema_migrations`, 005 perhaps no further than its column (`Upgraded`); or one in
which `001_init.sql` was cut short (`HalfInstalled`). The rows that 002 and 003 copy for the
accounts of the day are not followed: each copy commits with the table it fills, and an
account without a row is an ordinary case (`Evaluate` creates a policy, a missing version
reads as 1). A crash may fall between any two statements. The server then reads or
creates its key; `os.WriteFile` creates the file before it writes it (`Torn`). `cut` is
history: `001_init.sql` was left in the middle.

### RequestGate, RateLimiter and RequestEnvelope

`RequestGate` holds the clock and composes the limiter, on public routes, with the
envelope. `Decrypt` has three steps (`CheckStamp`, `MarkRequestID`, `Open`), because the
clock is read before the mutex and again under it. A copy may arrive late, damaged, or any
number of times. `passed`, the moments at which the requests of an address were let
through, and `accepted` are history of the process.

### LoginThrottle

`Attempt` counts, `Compare` decides, `LogLogin` inserts the row, each a statement of its
own. `Counted` compares as the query does, by date (see findings). Rows of success are left
out, since no query looks for them; `logged` is the sequence of the others, in the order of
their insertion.

## Runs

| Run | Instance | Shows |
|---|---|---|
| `auth` | 2 accounts, 2 requests in flight, 3 refresh tokens, one sign-out of the ordinary account | the session properties and `ImplementsLedger` hold |
| `auth_reauthorised` | the same | a session that was authorised before a sign-out may end in an accepted access token (finding) |
| `sms` | 1 phone, 2 addresses, 2 purposes, 2 codes, 3 captchas, 2 requests, clock up to 3 | limits, captchas and guess budget hold; a code is accepted again by overlap only |
| `control` | 1 client, 2 overlapping streams, 2 publishing requests, 2 account changes and 1 announcement, 2 breaks or restarts | no account change is lost, the refinement, and liveness |
| `announcements` | 2 editors, 1 user, revisions up to 2 | revisions and notifications hold |
| `acknowledged` | the same | a receipt for a revision never shown (finding) |
| `versions` | 2 platforms, 3 version codes, 4 rows, 2 requests | exactly one latest, but for named races |
| `accounts` | 2 phones, 2 accounts, 3 requests, 3 editions of the template | policies of their time, policies that stay |
| `roles` | the super administrator and 1 account, 3 roles, 3 names, 2 requests, with and without foreign keys | the role `admin` is reserved, and new roles permit nothing |
| `startup` | 2 processes, 6 scripts, 2 keys, 2 crashes, 1 run of `migrate`, every database of `Init` | records are true, whole schema, one key, and the server serves again (liveness) |
| `gate` | 1 address, 1 envelope in any number of copies, 2 handlers, clock up to 4, a restart | bounded bursts, earned refusals, ids accepted once |
| `throttle` | 1 name, 2 addresses, 2 attempts in flight, two days | a lock has its cause, guesses early in the day are limited |

### Why the bounds are enough

- Two requests in flight give every interleaving of two operations; each of the races
  in the code is between two. The theorems about sessions cover any number.
- `auth`: three refresh tokens are one for the administrator and two for the account:
  a session and its successor, or two sessions. One sign-out separates "before" and
  "after"; repeated sign-outs are covered by the proofs.
- `sms`: with an interval and an hour of two ticks, a day of three and limits of one, each
  limit is met where the other two would let the message pass: the daily one two ticks
  after a first message at 0, the interval between two addresses across midnight, the
  hourly one from one address across midnight. Without any one of the three comparisons the
  run fails. `MaxFaults` bounds increments that fail, which only weaken the budget by as many.
- `control`: two changes are needed for one signal to be dropped behind another, two
  stream ids for an old and a new subscription to overlap, two breaks to break the new
  one as well. `WireSize` 1 makes a slow reader block the handler.
- `announcements`: a second revision is what receipts can be confused about; more
  revisions repeat the pattern. Clients ask for acknowledgement only (`Asked`): reading
  runs the same code with one flag less.
- `versions`: three versions on a platform let a successor and a newer version both
  exist while one is deleted; the fourth row keeps the other platform in play.
- `accounts`: three requests are a registration, a lazy creation and one more of either
  kind; two changes of the template separate "before", "during" and "after" a registration.
- `roles`: a third role is created, renamed and deleted beside the two seeded ones, and
  assigned before it exists. The super administrator is the seeded one here; the theorems
  cover any other, and any number of roles, accounts and requests.
- `startup`: one crash leaves a script or the key file in the middle, the second meets what
  the first left; the scripts are those of the repository, not a sample.
- `gate`: windows of one tick and a clock up to four let a window begin, end, and be followed
  by two more; clocks are off by up to two, so that a timestamp may be outside the window
  on either side; addresses and ids do not influence each other. A limit of two and one
  more request counted reach a refusal.
- `throttle`: a day of two ticks and a lock of one make each half of a day met; a second
  name behaves as a second address does. The third attempt is the first refused.
- Deadlock is checked except in `sms` (the clock and the captchas run out), `versions` (rows
  run out), `gate` and `throttle` (the clock runs out).

### Fairness

`ControlHub` and `Startup` state fairness. In `ControlHub`, goroutines that can run are scheduled (`Publish`,
`Broadcast`, `WriteConnected`, `Deliver`), a handler whose connection is gone ends (a
write fails at the latest with the keep-alive of 15 seconds, or the request context is
done), and the client notices the end of its stream, reconnects, and answers what it
reads. Nothing is assumed of administrators, of breaks and restarts, or of the poll:
`SignalsReachClients` shows that signals alone suffice.
In `Startup`, a process runs on, and the server is started again: the unit file says
`Restart=on-failure`, and `deploy.sh` starts what it stops. Nobody has to run `migrate`, and
stopping a server that serves is not bounded: `ServesAgain` says that it comes back each time.

## Proofs

`AuthService_proofs` proves, for any sets of accounts, requests and refresh tokens and
any bound on versions, that `Spec` satisfies `TypeOK`, `LiveTokensAreCurrent`,
`DisabledAccountsGainNothing`, `ExchangedTokenIsRevoked`, `ReplaysOverlap`, `RefusedForEver`
and `SignOutIsImmediate`. The only assumption is `ConstantsAssumption`: the super
administrator is an account, and the absence of a token is not a token.

None of the invariants is inductive alone. `LiveTokensAreCurrent` and
`DisabledAccountsGainNothing` compare versions that a request read at different times,
so `VersionsOrdered` says that a version read earlier is never ahead of the current one:
disabling bumps the version, so everything authorised before is then strictly behind.
`ExchangedTokenIsRevoked` needs to know of a refresh in flight that the token it carries
is already revoked: `CarriedTokenIsRevoked`. `ReplaysOverlap` follows from the two: once a
token has a successor it is revoked, so `RefreshFind` lets nobody join. `IInv` is the conjunction. `IInvStep` has
one case per action and in each one step per conjunct; the action properties follow from
`IInv` and `VersionsGrow`, which says that no step lowers a version and that the step
into `RevokeAll` raises it.

`AccountsRoles_proofs` proves, of `Accounts`, `TypeOK`, `CopiesDateFromRegistration` and
`SettingsStay` for any sets of phones, accounts and requests and any number of editions.
`CopiesDateFromRegistration` is not inductive: it needs that the copy a request carries was
read after its account was created (`RequestsFollowAccounts`) and that nothing dates from an
edition still to come (`EditionsOrdered`). Of `Roles` the module proves `RolesTypeOK`,
`AdminRoleIsReserved`, which includes that the role `admin` keeps every permission, and
`NewRolesPermitNothing`, whether foreign keys are enforced or not. The strengthening says that
the role `admin` keeps its id (`AdminRoleStands`), that every request past its lookups is
about other roles (`NoRequestTouchesAdmin`), and that an id nobody has used has no
permissions and no request about to set any (`UnusedIdsAreBlank`). The assumptions, `AccountsAssumption` and `RolesAssumption`,
say only that the constants are distinct where the code needs it.

`AuthService_proofs` also proves the refinement, `SessionsImplementLedger`. A pledge of a
request (the account and the version it found) is a promise of the ledger; the lemmas before
`LedgerStep` say what becomes of pledges, tickets and renewals when one request moves, and
`LedgerStep` maps each action to a step of the ledger or to a stutter, using `IInv` where a
sign-out must take every ticket.

`AppVersions_proofs` proves `TypeOK`, `OneLatestUnlessDeleteRaced` and `ALatestRemains` for
any number of rows, platforms, requests and codes. `TypeOK` carries what the code relies on
elsewhere: a code is unique on its platform and only a present row is flagged. The
successor of a deleted version is the row of the highest code, so there is exactly one
(`HighestIsOne`) as long as any is left (`HighestExists`).

`SMSVerification_proofs` proves all that the run `sms` checks (`TypeOK`,
`RecordedSendsKeepTheLimits`, `ConsecutiveCodesDiffer`, `EverySMSCostsACaptcha`, `GuessBudget`,
`AcceptedOnlyByOverlap`), for any finite set of requests in flight and any limits, lifetimes
and bounds. The limits are recorded after the provider was called, possibly much later than
they were checked; they hold because the row stores the moment of the check, and nobody else
inserts a row while `sendMu` is held: `ChecksStillHold` says that the check would still
succeed as of that moment, and that no row is younger than it. `CaptchasUnspent` says that
a captcha which can still buy a message has bought none, and that two requests never carry
the same. For the guesses, `GuessesAccountedFor` counts each wrong one as stored in
`attempts`, lost (`uncounted`), or held by a request about to store it; a request compares
only while `attempts` is below the limit, so what exceeds the limit is at most the
other requests in flight and what was lost. `AcceptedOnlyByOverlap` is an action property: a
row that was accepted is consumed, so `ReadLatest` refuses it, and the requests between
their comparison and the acceptance (`AtStep(i, "consume")`) can only become fewer.

Of `LoginThrottle`, `AuthService_proofs` proves `LockedForCause` and `GuessesEarlyInTheDay` for
any names, addresses and thresholds and finitely many attempts in flight. `LockedForCause` is inductive beside `ThrottleTypeOK`: a
row that the query counts is of a later date than the edge of the window, therefore of a later
moment, although the comparison is not the one intended, and rows are never deleted. `GuessesEarlyInTheDay` is not inductive: in the first part
of a day, while the window still begins on the day before, the failures of today and the
attempts that may still add one stay together below `MaxAttempts` plus the attempts in flight
(`FailuresAccountedFor`). `Attempt` lets one more join only when it counts fewer than
`MaxAttempts` failures of today, and there are never more attempts in flight than `Login`.

`RequestGate_proofs` proves `TypeOK` of the composition and `AcceptedOncePerProcess` for any
windows, skews, ids and handlers. The strengthening says that the handlers that wait with a
marked id and the acceptances on record were received within the window of their timestamp
(`RequestsAreInWindow`, `AcceptedWasSent`), that each of them is still remembered or
received too long ago to matter (`MarksAreRemembered`), and that two of one id differ as the
property says (`MarksDiffer`).

`RequestGate_proofs` also proves `BurstsAreBounded` and `RefusalsAreEarned`. The link between
the limiter's counter and the history is `WindowCounted`: the requests let through since the
window of an entry began number as many as it has counted, up to the limit, none was let
through under it after the window, and the stretch of the same length before it saw no more
than the limit. A stretch across the beginning of the current window is cut there into two.
Without an entry, or once its window is over, the next request begins a window of its own,
whether or not the clean-up came in between.

`Startup_proofs` proves `TypeOK`, `RecordedIsComplete`, `ServingIsComplete` and `KeyIsStable`
for any keys and any number of crashes. Its strengthening follows each process through the
loop: what it has passed is on record (`PassedIsRecorded`), the statements of `001_init.sql`
behind it were run (`StatementsStand`), a schema with the first table alone has a process in
that script or one that left it (`FirstTableMeansScript`), and a key in memory is the one in
the file (`FileHoldsTheKey`).

`Announcements_proofs` proves `TypeOK`, `RevisionFixesContent`, `NewRevisionsAreUnread` and
`StaleListsAreNotified` for any sets of users, contents and editors and any number of
revisions. What was displayed is of a revision that exists, and agrees with the row while
that revision is the published one (`SeenIsOfTheRow`), so a change that leaves the number
alone is one nobody could be looking at; receipts under way are of revisions that exist
(`ReceiptsAreOfTheRow`). For the notifications, `Covers(e, u)` says which request is still
going to notify whom: a publication of what has a list of targets owes an event to them only,
and the others were not to see it before either (`ChangesAreNotified`).

`ControlHub_proofs` proves `TypeOK`, `SubscriptionsMatchHandlers`, the safety part of
`ImplementsWakeUp` (which is all of `W!Spec`: it states no fairness) and `NoLostWakeup`, for
any accounts, clients, streams and publishers. Besides the match of subscriptions and handlers
it needs one fact, that the stream a client believes to have is served to that client
(`StreamsAreTheirs`): it makes an offer to an account reach the channel of each of its
connected clients, and keeps what happens to one stream from the others. `WakeStep` and
`DropStep` say what the abstract steps ask for; the lemmas `PublisherRefines`, `StreamRefines`,
`ClientRefines` and `RestartRefines` map the actions to them. `NoLostWakeup` is then proved of
`WakeUp` and carried over.

The assumptions are those named in the modules (`StartupAssumption`, `GateAssumption` and so
on): constants that must differ do, bounds are natural numbers, and the sets whose members are
counted are finite.

Every invariant and every action property that a passing run checks is stated by a theorem,
and so are both refinements. What stays with TLC is liveness under fairness
(`SignalsReachClients`, `ServesAgain`) and whatever rests on ENABLED, deadlock included: no
prover of TLAPS handles them here. No theorem needs induction over data or a recursive operator;
counts are cardinalities of sets of indices or of requests (`PassedIn`, `FailedToday`, `AtStep`),
for which the facts about finite sets suffice.

## Divergences found

See `findings` in `PROJECT.json`. Two are shown by a run: a session authorised before a
sign-out may end in an accepted access token, and a receipt is stored for a revision that
was never displayed. Others bound what the properties of a module say, and are excepted
there by name: a code is accepted, or a refresh token exchanged, by two requests that overlap
(`AcceptedOnlyByOverlap`, `ReplaysOverlap`), a
platform has two latest versions after a deletion that raced (`doubled`), an announcement
signal is dropped behind another event (the refinement speaks of account changes only), an
account whose registration failed gets a later template (`cutShort`), `001_init.sql` cut short is recorded
as complete (`cut`), an envelope is accepted again if the client's clock was ahead
(`AcceptedOncePerProcess`), and failures are compared by date (`LoginThrottle`). The rest is
read off the code: a refresh token presented twice revokes nothing else, the options that
`Open` appends to the path are not those of the SQLite driver in use, the limiter is neither
global nor a token bucket, and the times of an announcement are compared as text.

## Not modelled, and plan

1. The hazards of `PROJECT.json` without a property: a refresh refused after its token was
   revoked, the roles that Register assigns over an administrator's, edits of an announcement
   merged into an outdated row, and the checks that look at a request only.
2. What `Evaluate` computes from a policy and the clock: the models let it refuse any account
   at any moment but the super administrator's, and nothing proved depends on the edge.
3. The start, the end, the platform and the client versions of an announcement: a change of
   any of them alters who sees it, as `type` and `targets` do in `Announcements`.
4. The pool of one connection. It is the reason why every statement is an action of its own,
   and it is the limit of that abstraction: a request that asks for a second connection while
   it holds rows open would wait for ever. No path of the code that succeeds does so.
5. That a client lists its announcements in the end: it polls, but nothing says how often.

Left out on purpose: the drawing of captchas, cryptography, HTTP plumbing, parsing of
configuration, logging, what a heartbeat stores, the administration page, and the deployment
scripts. They keep no state that the properties depend on.
