# TLA+ models of the WeLive backend

WeLive is an Express and Prisma backend for apartment complexes: residents and managers sign
up and are approved, managers post notices and polls, residents vote, file complaints and
comment, and everybody is notified over server-sent events. Several requests, timers and
processes work on the same PostgreSQL rows, mostly by reading in one awaited call and writing
in a later one. These models are about what that does to the data.

Paths below are relative to the repository; `services/x.ts` stands for `src/services/x.ts`.

1. [Inventory](#1-inventory)
2. [Modules and plan](#2-modules-and-plan)
3. [NotificationOutbox and NotificationDelivery](#3-notificationoutbox-and-notificationdelivery)
4. [PollLifecycle and PollBallot](#4-polllifecycle-and-pollballot)
5. [AdminApproval](#5-adminapproval)
6. [ResidentRegistry](#6-residentregistry)
7. [SessionTokens](#7-sessiontokens)
8. [BoardPosts](#8-boardposts)
9. [SseStream](#9-ssestream)
10. [Where code and documentation disagree](#10-where-code-and-documentation-disagree)
11. [What is not modelled, what is not proved](#11-what-is-not-modelled-what-is-not-proved)
12. [Running the checks](#12-running-the-checks)

## 1. Inventory

| Component | State it keeps | Operations | What makes it hard | What makes it correct |
|---|---|---|---|---|
| **Notification outbox and dispatch** `notification.dispatcher.service`, `notification.outbox.service`, `notification.repository`, `notification.worker` | `Notification.deliveryStatus`; `NotificationOutbox` rows (status, retryCount, availableAt, updatedAt, link); one loop per server process | `createAndDispatchNotification`, `processPendingOutboxes` every 60 s | many processes claim rows; crashes between publication and update; a catch block that runs after partial success; users deleted under it | the two tables stay paired; claims exclude each other; nothing is recorded as delivered that was not; every row is settled in the end |
| **Polls, votes, scheduler** `poll.service`, `poll.repository`, `poll.scheduler` | `Poll` (status, dates, permission), `PollOption`, `Vote`, result `Notice`; the list a scheduler run works through | create, edit, delete; `castVote`, `cancelVote`; `runSchedule` every minute | check-then-write in each handler; overlapping runs; batches read up front | one vote per voter; votes only of those who asked in time and lived in the building when asked where; statuses go forward; each result announced once and complete; every poll is closed |
| **Managers and apartments** `auth.service` (approval, deletion, cleanup), `auth.repository`, `apartment.repository` | `User.joinStatus` of managers, `Apartment.apartmentStatus` and the link | sign-up, single and bulk decision, deletion, cleanup of rejected managers | lists read before the statements that use them; foreign keys that refuse | both sides live and die together and have one status; decisions stand; cleanup takes rejected managers only |
| **Sessions** `auth.service` (login, refresh, logout), `user.service`, `auth.middleware` | `RefreshToken` rows; signed tokens on clients | login, refresh, logout, password change | two rotations at once; refresh racing with logout; answers that are lost | one live refresh token per user; a session that ended has no token, but for three overlaps; a client keeps its session until something ends it |
| **Residents and sign-up** `residents.service`, `residents.repository`, `auth.service.createUser` | `Resident` (isRegistered), `User.residentId`, `User.joinStatus` | roster entry, CSV import, adoption of an account, sign-up, edit, approval, moving out, cleanup | two householders of one unit; rows read outside the transaction; cascades that keep accounts | links are one to one; approval needs a manager and goes with the entry; one householder per unit |
| **Complaints** `complaint.service` | `Complaint.status`, commentsCount | create, edit, delete, change status | checks long before the write; notification after the write | each resolution is notified |
| **Comments** `comment.service` | `Comment`, the counts on notices and complaints | create, edit, delete | count and write apart; no foreign key to the post | the count is repaired by the next comment |
| **Notices and events** `notice.service`, `event.service` | `Notice`, `Event` | create, edit, delete; upsert of one event per post | find-then-create; notice and event written apart | one event per post |
| **Notification streams and inbox** `notification-realtime.service`, `notification-sse.service`, `notification.controller`, `server.ts` | clients of each process; read marks; subscription | connect, emit, poll every 30 s, close, shutdown | closing during set-up; messages lost by Redis | the map of clients follows the connections; what stays unread is shown |
| **Notification queue** `queue/*` | BullMQ jobs | repeated job; administration | library code | the repeated job exists |
| **Apartment queries, upload, routes, validation, generated client** | none of their own | reads, wiring | - | - |

Interaction: the services of polls, notices and complaints call `createAndDispatchNotification`,
which writes notification and outbox row in one transaction and tries to publish at once. The
worker of any server process later claims what is left. Redis hands a publication to the stream
clients of every process. Poll, notice and complaint hang below the boards of an apartment;
deleting a manager deletes his apartment and, by cascade, all of it, under whatever request or
scheduler run is at work there. Deleting a user cascades to his votes and notifications and is
refused while he has comments.

## 2. Modules and plan

| Module | About | Proofs |
|---|---|---|
| `NotificationDelivery` | abstract: a notification is created once, published before it counts as delivered, given up after so many failures, forgotten with its user | - |
| `NotificationOutbox` | outbox and dispatch; implements `NotificationDelivery` | `NotificationOutboxProofs` |
| `PollBallot` | abstract: a poll is rewritten or scrapped only before it starts, whoever asks while it runs and is found in its building has one ballot, lost only to its voter, and one result counts every ballot cast in time | - |
| `PollLifecycle` | polls, votes, scheduler; implements `PollBallot` | `PollLifecycleProofs` |
| `AdminApproval` | managers and their apartments | `AdminApprovalProofs` |
| `ResidentRegistry` | roster and accounts of residents | `ResidentRegistryProofs` |
| `SessionTokens` | refresh tokens and cookies | `SessionTokensProofs` |
| `BoardPosts` | complaints, notices, comments, events | `BoardPostsProofs` |
| `SseStream` | streams, subscriber and shutdown of one process | `SseStreamProofs` |

Every module has an `MC` module and a `.cfg` for each of its runs. Where modules meet, one of them
carries the state and the other the effect: `DeleteUser` and `DeleteApartment` appear in every
module whose rows go by cascade; dispatching a notification is one step in `BoardPosts` and a
process of its own in `NotificationOutbox`; a publication is a step of `NotificationOutbox` and,
seen from a stream, of `SseStream`.

Runs stay small: one contended row, two or three contenders, one or two failures, and a second row
where what happens to one could leak into the other. The models share three habits. What a handler
reads before an `await` and uses after it is an action of its own and is remembered by the request.
A transaction takes effect at its commit; where its statements can interleave with those of another
transaction at READ COMMITTED, they are separate actions. And where the code lets two requests
collide, a history variable records the collision (`raced`, `strayed`, `overran`, `late`, `rival`,
`excused`, `overlapped`, `doubled`), so that the property says precisely what holds in spite of it;
the proofs show that nothing but the recorded collision can break it.

Left: the events of polls, edits of comments, and an abstract specification of sessions.

## 3. NotificationOutbox and NotificationDelivery

One step is one awaited call with the local code behind it.

| Model | Code |
|---|---|
| `users`, `notification`, `outbox` | tables `User`, `Notification` (its deliveryStatus), `NotificationOutbox` |
| `outbox[k].linked` | `notificationId` is not null (`onDelete: SetNull`) |
| `outbox[k].due`, `.stale` | `availableAt <= now`; `updatedAt` older than five minutes |
| `dispatcher[d]` | one execution of `createAndDispatchNotification` |
| `worker[w]` | one process in the loop of `processPendingOutboxes`: rest of the batch, row at hand, next call |
| `FindNotificationByDedupeKey`, `CreateNotificationRecord`, `DispatchPublish` | the three calls of the dispatcher; the insert of both rows is one transaction |
| `ClaimPendingOutboxesForProcessing` | the `UPDATE ... WHERE id IN (SELECT ... FOR UPDATE SKIP LOCKED LIMIT 50) RETURNING` |
| `TakeRow` ... `MarkSent`, `RejectRow`, `MarkNotificationOutboxFailed`, `MarkDeliveryFailed` | loop body and its catch block, call by call |
| `RetryBecomesDue`, `ClaimBecomesStale` | the two windows (60 s, 5 min) run out |
| `Fault`, `DispatcherCrash`, `WorkerCrash`, `DeleteUser` | failed calls whose effect is or is not committed, exits, deletion with its cascades |
| `direct`, `relays`, `overran` | history read by properties only |

Properties: `TypeOK`; `Paired` (transaction and cascades keep the tables in step); `RetryBound`
(retryCount passes its limit by at most one failure per process and fault); `NeverStranded` (a
row left in PROCESSING will be claimed again); `NoFalseDelivery` (PROCESSED and SENT come after
a publication); `ExclusiveClaim` (one holder per row unless one outlived its window); without
faults and overruns `RelayedOnce` and `AgreeAtRest` (one publication; both status columns
agree); `EventuallySettled` (published or given up, for each row); `Delivery`, the refinement.

*Refinement.* `Delivery` is the specification of `NotificationDelivery` under the mapping at the end
of `NotificationOutbox`: `inbox` is the set of notification rows, `stage` what the outbox row says
(absent, owed, delivered, abandoned), `attempts` its retryCount, `published` what a worker has
published. Claims, stale claims, overruns and crashes are stutters of it; the insert is `Create`,
a worker's publication `Publish`, `markNotificationOutboxProcessed` `Deliver`,
`markNotificationOutboxFailed` `Fail`, the deletion of a user `Forget`. As every step of it changes
at most one notification, it also says that the rows of a batch do not leak into each other.

| Run | Instance | Shows |
|---|---|---|
| `outbox_race` | 1 row, 2 dispatches, 3 processes, limit 1, 3 retries, 2 faults | all safety properties and `Delivery` under contention for one row |
| `outbox_live` | 2 rows, limit 1, 2 retries, 1 fault, fairness | no starvation behind a failing row |
| `outbox_guarantee` | as small as possible | `GuaranteedDelivery` does not hold (section 10) |

*Bounds.* Rows do not interact except by competing for a batch or sharing one. One row carries the
races, two the competition; that the rows of one batch do not disturb each other is proved, as all
safety here and `Delivery` are, for any `Limit` and any number of rows. Three processes allow a holder, a second one after an overrun and a third after
the second's. Two faults allow a crash during the recovery from a crash. Symmetry (processes and
dispatches) is used in safety runs only. *Fairness.* Each process keeps working
(`WF(WorkerStep)`) and the two windows run out: the job repeats every 60 s and processes are
restarted. This assumes the registration of the job at `workers/notification.worker.ts:33`
succeeded; its failure is only logged. Nobody has to dispatch, and Redis may refuse for ever,
which is why the promise is "published or given up".

*Proofs* (`NotificationOutboxProofs`, from `ConstantsAssumption` only, for any numbers of users,
keys and processes): `TypeCorrect`, `TablesPaired`, `RowsNeverStranded`, `DeliveryIsReal`,
`ClaimsExclude`, `RetriesBounded`, `RelaysOnce`, `ColumnsAgree`. None but the type invariant is inductive by itself. They rest on
`HeldRows` (what a process has in its batch exists, and what it does next fits what it read),
`PublishedFirst` (a process about to write PROCESSED or SENT has published that row) and
`Guarded` (a held row is PROCESSING, fresh and held once, unless it overran). The proof of each
uses one lemma on how a step may change a row (insert, claim, complete, fail, reopen, unlink),
so that the case split over actions is done once. `OutboxDelivers` proves `Delivery`, that every step
maps to a step of `NotificationDelivery` or a stutter, for any number of rows and processes; besides
`PublishedFirst` it needs `NothingFailedBefore` (a row that does not exist yet has no failures).
`RelaysOnce` and `ColumnsAgree` both follow from `OnCourseUnlessFaulty`: without faults, whoever holds a
row nobody overran has not published it before its turn, and the columns differ only while that
process is between its two updates; `Guarded` makes it the only one that could interfere.
`EventuallySettled` is model-checked only.

## 4. PollLifecycle and PollBallot

| Model | Code |
|---|---|
| `poll[p]` | `Poll`: status, dates, `permission` (`buildingPermission`, of which 0 is `Everyone`) and `edition`, the identity of its option list, which an edit replaces |
| `votes`, `members`, `apartment` | `Vote`, `User`, and the apartment whose deletion cascades to boards and polls |
| `home` | `Resident.building` of each user's roster entry, or `NoHome` |
| `notices[p]` | result notices, by the tally they print |
| `admin[a]` | `updatePoll` or `deletePoll` between `findPollById` and the write, with the row as read |
| `request[r]` | `castVote` or `cancelVote` between its calls, with the permission `castVote` has read |
| `run[s]` | one execution of `runSchedule`: the list it read and what is left of it |
| `FindPollById`, `UpdatePoll`, `DeletePoll`, `CastVote`, `FindUserResidentBuilding`, `GetUserVote`, `InsertVote`, `CancelVote`, `FindVoteToCancel`, `DeleteVote` | the calls of those handlers; the unique index and the foreign keys decide `InsertVote` |
| `FindPendingToStart`, `StartPoll`, `FindInProgressToClose`, `ClosePoll`, `CreateResultNotice`, `FinishRun`, `AbortRun` | the run; a write to a poll that is gone throws and ends it |
| `Move` | `updateResident`, `deleteResident` and the approvals that link accounts: at any moment a voter's building may change |
| `Tick`, `now` | the clock; dates are instants below `Horizon` |
| `raced` | history: polls overwritten by somebody who had read a different row |
| `autoClosed` | history: polls the scheduler closed |

`updatePoll` and `updatePollStatus` write by id alone, so nothing stops a write based on an old
row. Properties about the content of polls therefore speak of polls outside `raced`: they say
what the code promises as long as such a collision does not happen, which is exactly what a
version check in the `where` clause would ensure; section 10 says what a collision does.
Independent of it are `BallotBox` (one vote per voter and poll, no dangling vote) and
`ClosedIsAnnounced` (no closed poll without notice unless a call failed). With it come
`DatesInOrder`, `OneResultNotice`, `VotesInTimeCount` (the tally, read before the poll is closed,
covers every vote cast in time and not withdrawn), and the action properties `StartedIsSettled`
(statuses go forward; a started poll is not edited or deleted) and `VotesAreKept` (a vote goes only
with its voter's own request, its voter or its apartment). `EventuallyClosed` is the liveness
property, `HeldByTheRules` the refinement.

`castVote` reads the option with its poll, then the voter's building, then his vote, and inserts, in
four calls. Residents move between any two of them and afterwards, and nobody looks at their building
again. So no property says that every vote is of somebody who lives in the poll's building: what holds
is that its voter asked while the poll ran and was, at one moment since, registered in the building the
poll is for.

*Refinement.* `HeldByTheRules` is the specification of `PollBallot` under the mapping at the end of
`PollLifecycle`: `stage` is the status of a poll, `permission` the building it is for, `queue` the voters
whose requests have yet to be compared with it, `desk` those who have passed and may put in a ballot,
`box` its votes as pairs of voter and choice with whether they came after the end date, `result` its
notices. Program points and all that administrators and runs have read do not appear there. Creating,
editing and starting a poll is `Draft`, possible only before it starts; `Ask` joins a line of a poll
that runs, `Admit` passes from `queue` to `desk` and needs the voter to live in the building at that
moment, `GiveUp` leaves either; the insert of a vote is `Cast`, possible for a resident at the desk who
has no ballot in the box, and late only after the end date; the notice is `Declare`, once, with a tally
no smaller than the ballots in time. `Move` changes where somebody lives and nothing else, whatever
lines he stands in and ballots he has cast. A write that met another row than it was based on is
`Spoil`: nothing is promised of that poll afterwards, and everything of the others.

| Run | Instance | Shows |
|---|---|---|
| `poll_votes` | 1 poll for everybody or for 1 building, 2 voters, 1 choice, 2 requests, 1 administrator, 1 run, 1 edit or move, horizon 2 | the ballot box: votes, cancellations, moves, edits, deletions and the closing run in any order; `HeldByTheRules` |
| `poll_live` | 1 poll, 1 administrator with 2 edits, 2 runs, 2 failures, horizon 3, fairness | the poll itself: dates, status, announcement, `EventuallyClosed` |

*Bounds.* A race needs a reader, a writer in between and the late write. `poll_votes` has two
requests, of one voter or of two, against one run and one edit; `poll_live` has two overlapping
runs against edits and failures, and no voters, since nothing a run or an administrator does
depends on votes except the tally. Two instants before the horizon give start before end and a
time after the end. In `poll_votes` every voter starts inside the building or outside it, so one
move is enough for each way of getting past the comparison or not. One choice halves what a vote can
be: two votes of one voter are told apart there by the instants they were cast at, and a cancellation
always names the option voted for. The model looks at the choice in the tally and in that comparison
only, and `OneVoteEach`, `VotesKept`, `AnnouncedVotesInTime` and `PollsHeldByTheRules` hold for any
number of choices. Polls share only voters, unique votes are per poll, and a tally that is read
with a whole batch differs from one read for a single poll only in its age, which is arbitrary
already: one poll is enough. *Fairness.* Time passes and runs take their steps
(`setInterval` of `utils/poll.scheduler.ts:67`); failures are bounded; no client has to act.

*Proofs* (`PollLifecycleProofs`, from `ConstantsAssumption`): `TypeCorrect`, `OneVoteEach`,
`DatesStayInOrder`, `VotesAskedWhileOpen`, `PollsSettle`, `VotesKept`, `ClosingAnnounces`,
`ResultsAnnouncedOnce`, `AnnouncedVotesInTime`. The central strengthening is `SeenRows`: what an
administrator or a run has read is either still the poll's row, or the poll has only moved
forward, or it is in `raced`. `AskedWhileOpen` carries what `castVote` has read through to
the insert: the poll of a request to vote has started, and its permission is still the one remembered; `AnnouncedOnce` says that a run about to announce is the only one and the notice is not
yet there, and `TalliesCover` that every tally in a run's hands already counts each vote cast in
time. `PollsHeldByTheRules` proves `HeldByTheRules` for any number of polls, voters, requests and
runs. It uses all of these and three more invariants: `Housed` (polls exist only in an apartment),
`CastsLate` (a vote on its way to a poll that has been closed comes after the end date, as only a
run that has seen the date pass closes a started poll) and `TalliesPlausible` (a tally counts no more
votes than there are voters, because of `BallotBox`). Its lemmas are on what is seen of a poll:
`ViewKept` and `OneViewChanges` reduce a step to the one poll it is about, `AskingChanges` gives the
voters in a line when one request moves; `RowShows`, `InsertShows`, `AskingShows`, `AdmissionShows`,
`GivingUpShows`, `WithdrawalShows`, `MovingShows`, `LeavingShows`, `DissolutionShows` and
`AnnouncementShows` match the kinds of steps with those of `PollBallot`. `EventuallyClosed` is
model-checked only.

## 5. AdminApproval

| Model | Code |
|---|---|
| `admin[a]`, `apartment[a]` | `joinStatus` of a manager and `apartmentStatus` of the apartment he registered; "NONE" before, "DELETED" after |
| `entered`, `authored` | managers with a session; managers with comments |
| `request[r]` | a bulk decision or cleanup between its statements: the list it read, the rows it holds |
| `CreateAdmin`, `UpdateAdminStatus`, `DeleteAdmin` | transactions whose reads fetch nothing that changes: one step each |
| `GetPendingAdminApartmentIds`, `BulkUpdateAdminStatus`, `BulkUpdateApartmentStatus` | the three statements of `bulkUpdateAdminStatus`, the last with the commit |
| `RejectedAdmin`, `AdminClean`, `AdminCleanFails` | the list of `adminClean`, read before its transaction, and the transaction, committed or rolled back |
| `Abort` | any failure of a request: rollback |
| `strayed` | history: managers the last bulk decision met on one side only |

Transactions run at PostgreSQL's READ COMMITTED: each statement sees what is committed, written
rows stay locked until the end, and a statement that needs a locked row waits and looks at it
again. `BulkUpdateAdminStatus` therefore changes nothing others see and only records the locked
rows; they are written at the commit. A waiting statement is modelled as taking place when it
can proceed. A manager's comments are abstracted to whether he has any.

Properties: `ApartmentWithAdmin` (manager and apartment exist together), `InStepUnlessStrayed`
(they have one status unless the last bulk decision met one side), `DecisionsStand` (bulk
decisions never overturn a decision), `UndecidedNotCleaned` (no cleanup removes a manager nobody
decided on). Run `admin_race`: 3 managers, 2 requests, unbounded operations (the state space is
finite as it is): two requests are the two super administrators that race, three managers let
a list hold a manager that was decided, one that is new and one that is gone. `createSuperAdmin` and
`updateAdminInfo` write columns nothing here reads and are left out.

*Proofs* (`AdminApprovalProofs`, no assumption on the constants): all five, each by way of
`LocksHeld` (rows of an uncommitted bulk decision are PENDING and held once) or `ListsDecided`
(nobody on a cleanup's list is PENDING).

## 6. ResidentRegistry

| Model | Code |
|---|---|
| `roster` | `Resident`: id, person, unit, role, isRegistered; `contact` stands for the pair of name and contact the code looks persons up by |
| `users` | `User` with role USER; `link` is `residentId`, 0 for null; `onDelete: SetNull` |
| `rows`, `accounts` | ids given out; uuids are not used again |
| `standing` | apartments that exist |
| `request[r]` | what `createUser`, `createResident`, `createResidentFromUser`, `deleteResident` or a decision has read before it writes |
| `CheckHouseholder`, `MatchResident`, `SignUpMatched`, `SignUpUnknown` | the reads of `createUser`'s transaction and its commit, with an entry found or without |
| `FindAccount`, `CreateResident` | `createResident`: the look for an account only sets isRegistered |
| `ProcessResidentCsv` | all lines of a file in one `createMany` |
| `FindUser`, `CreateResidentFromUser`; `UpdateResident` | adoption of an account; an edit, which passes the changed fields on to the account |
| `ReadResident`, `DeleteResident`; `DeleteApartment` | moving out; the cascade from the apartment to its roster, accounts stay |
| `FindResidentUser`, `FindApartmentUsers`, `UpdateUserStatus`, `ResidentClean` | decisions, one account or those pending of an apartment, and the cleanup |
| `Fail` | a constraint, a row that is gone, a lost connection: rollback |
| `entered`, `newcomers`, `decided`, `excused`, `abandoned` | history |

Transactions that write hold their rows until the commit, so the writes are one action with the
commit; their first reads are not, for at READ COMMITTED what `checkHouseholderjoined` saw may be
gone when the entry is written. The unique contacts of both tables are part of `TypeOK`.

Properties: `LinkedAgree` (links are one to one, to a registered entry of the same person),
`ApprovedHaveEntry` (moving out takes the approval away, but for three recorded overlaps),
`OneNewcomerPerUnit` (one newcomer becomes householder of a unit, unless another was past the check),
`ApprovalByManager` (nobody is approved without a manager). The last has one exception that needs no
overlap: `residentClean` deletes a rejected account and leaves the entry its sign-up made, registered
and without an account. It keeps householders out of the unit, and the rejected person, signing up
for any other unit, or after the entry was edited, matches it and is approved at once; `abandoned`
records these entries.

Run `registry_race`: 2 people, 1 unit, 2 requests, 3 entries, 2 accounts. Every race is between one
request that has read and one that writes; two people are needed for a unit to be contested and for an
edit to take over a contact; a third entry lets a person leave and come back. Roles other than
HOUSEHOLDER only weaken the check and appear in the proofs; so do several apartments.

*Proofs* (`ResidentRegistryProofs`, from `ConstantsAssumption`): all five. Lemmas `RowsAfter`,
`UsersAfter`, `CallsAfter`, `LinksAfter`, `NewRowsAfter` say which action can have caused a change seen
after a step, so that each invariant is split over few causes. The strengthenings: `NewcomersKnown` (a
sign-up past the check knows of every newcomer of its unit), `FoundOwn` (a matched entry is the
person's own unless it was edited), `AdoptedByManager` and `FreeAreEntered` (an entry without account
was made by a manager or left by a cleanup).

## 7. SessionTokens

| Model | Code |
|---|---|
| `tokens` | `RefreshToken`; a token is what its string encodes: user, whether it has an apartment, second of signing |
| `account[u]` | `User`: joinStatus, password, whether a resident has a roster entry |
| `jar[c]` | cookies of a browser: the pair set by `setAuthCookies` |
| `Login`, `Refresh`, `ChangePassword` | reads and checks of the handlers, up to their transaction |
| `RotateDelete`, `RotateCommit` | `rotateTokens`: the DELETE takes its snapshot; it deletes what it found, inserts and commits |
| `ChangeDelete`, `ChangeCommit` | the transactions of `changePassword` (password first, which locks the user's row) and `updateProfile` (tokens first); what was inserted after the DELETE began stays |
| `Logout` | `deleteRefreshTokens` by the string of the cookie, which may match no row; the cookies are cleared and the session counts as ended either way |
| `Fail`, `Answer`, `AnswerLost` | rollback; the answer that sets the cookies, or does not arrive |
| `Decide`, `MoveOut`, `DeleteUser`, `Tick` | what other components do to accounts; time |
| `pc`, `call`, `stamp`, `seen`, `since` | a request between its steps |
| `opened`, `ended`, `late`, `rival`, `orderly` | history: sessions, those that ended, requests that outlived theirs, rotations that were overtaken, clients that wait for their answers |

The second of signing matters: two tokens with the same contents signed in one second are the same
string, whose column is unique, so the second insert rolls its rotation back.

Every logout that was answered, every password change and every login that replaces a session ends it.
`EndedStaysEnded`: such a session has no token, but for the three ways the code leaves one, each marked
(`late`) where it happens: the request that stored it had read the old token or password and was at
work when the session ended; it was stored between the DELETE and the commit of the password change
(`id > since`); or the client logged out without having had, or awaited, every answer since its login,
so that its cookie was not the row's string. A row a password change could have found and did not, or
one left by the logout of a client that waited, breaks it. `OneTokenPerUser`, `ClientKeepsSession` (a
client that waits for its answers always holds a token the table knows, or its session was ended: the
deletion never survives without the insert). Not holding: `LogoutEndsSession`, the promise of
a logout without that excuse, and `ResidentKeepsScope` (section 10).

| Run | Instance | Shows |
|---|---|---|
| `session_race` | 1 user, 2 browsers, 2 requests, 2 passwords, 2 logins, 3 tokens, 2 instants | the three properties; users share nothing, so one is enough |
| `session_logout` | 1 browser, 1 request, 1 login, 2 tokens | `LogoutEndsSession` does not hold |
| `session_scope` | 1 browser, 1 request | `ResidentKeepsScope` does not hold |

Three tokens are a login, a refresh and its rival; a run with four tokens (7.8 million states) shows
nothing else. Lifetimes of one second make every token expire in the run.

*Proofs* (`SessionTokensProofs`, from `ConstantsAssumption`): `TypeCorrect`, `OneTokenUnlessRivals` (by
`FoundAll`: the DELETE of a rotation has found every token that is still there, unless a rival committed
since), `ClientsKeepSessions` and `EndedSessionsStayEnded`. The last two need to know whose a session
is, which no table says: `Owners` (no two cookies share a session, and a request works on a session only
for the client that holds it or is logging in), `Numbered` (row ids are not used again, and a DELETE
finds rows of its own user only, that of a password change all of those issued before it) and `Waiting`
(a client that waits for its answers has one request at work). `SessionsCarried` then says where the
session of such a client is: in the one row its cookie matches, or, when its answer is on the way, in
the one row that answer carries; and the DELETE of its refresh has found every row of the session, so
that the commit leaves exactly the new one. `RowFates`, `BystanderKept` and `RotationCarries` follow a
session through the commit of its own request and of every other one: a row goes only with the end of
its session or for the next row of the same session. `EndedSessionsStayEnded` adds `LateOnes` (a
rotation of an ended session is known to be late): the rows that a password change leaves are younger
than its DELETE by `Numbered`, and the row of a client that logs out after all its answers is the one
its cookie matches, by `SessionsCarried`.

## 8. BoardPosts

| Model | Code |
|---|---|
| `status[p]`, `board` | `Complaint.status`, existence of a notice; the boards of the apartment |
| `comments`, `count[p]` | `Comment`, which names its post by value only; `commentsCount` |
| `events` | `Event`, by `boardId` likewise |
| `notified` | complaints whose author has COMPLAINT_RESOLVED, of which the dedupe key admits one |
| `request[r]` | a handler between two awaited calls, with what it read |
| `CreateComplaint`, `NotifyCreated`, `FindToEdit`, `FindToDelete`, `FindToDecide`, `UpdateComplaintStatus`, `NotifyResolved` | `complaint.service` |
| `CreateNotice`, `NotifyPosted`, `PlanEvent`, `FindNotice`, `UpdatePost`, `DeletePost` | `notice.service`; edits and deletions write by id |
| `FindPost`, `CreateComment`, `FindComment`, `DeleteComment`, `CountComments`, `StoreCount` | `comment.service` and `updateCommentsCount` |
| `FindEvent`, `UpdateEvent`, `CreateEvent`, `DeleteEvent` | `event.service` |
| `DeleteApartment`, `Fail` | the cascade, which leaves comments; a failing call or an exit, after which what was written stays |
| `overlapped`, `doubled`, `untold` | history: what two requests, or a failing one, left behind |

No handler here has a transaction. Properties: `CommentsCounted` (a comment request that meets no other
leaves the exact count, whatever was there), `ResolvedIsNotified` (the author of a resolved complaint
is told, whoever of several managers resolved it, unless that request failed in between),
`OneEventPerPost` (two events only if two requests were adding at once).

Run `posts_race`: 1 complaint, 1 notice, 2 requests, 2 comments, 2 events. Posts share nothing but
the apartment; a collision is between two requests; two comments make a count wrong, two events are
one too many. The events of polls take the same two calls as those of notices and are not repeated.

*Proofs* (`BoardPostsProofs`, from `ConstantsAssumption`): all four. `ToldOnce`: a manager who found a
complaint resolved can rely on its having been told. `Rooted`, `FoundNone`: who is about to add an
event without looking found none, unless another one is adding, too. `Named`, `CountedAlone`,
`CountRight`: comment ids are not used twice, and what a lone request is about to store is the number
of comments.

## 9. SseStream

| Model | Code |
|---|---|
| `sseclients`, `conn[s]`, `handler[s]`, `polling`, `snapshot[s]` | the map of `notification-sse.service`; connections; how far `streamUnreadNotifications` has come, and what it or its timer has read |
| `subscriber` | subscription of the process: being made, listening, lost, never made |
| `AddSseClient`, `GetUnreadNotifications`, `StartTimers`, `PollRead`, `PollWrite`, `Close` | the controller; a failing first query destroys the connection |
| `CreateNotification`, `ReadNotification`, `Publish` | rows of the user; `emitToUser` when a message arrives |
| `SubscribeNotificationChannel`, `Disconnect`, `Reconnect` | refused for good or confirmed; `ioredis` reconnects by itself, messages in between are lost |
| `Shutdown`, `Exit`, `Kill` | `server.close` waits for the streams; `compose.yaml:14` does not |
| `early` | history: streams that closed before their close handler was set |

Properties: `RegistryFollows` (with the types): the map holds the open streams and those in `early`,
which stay until the process ends: the handler registers the stream at line 16 and its close handler
at line 33, with a query between. `EventuallyShown`: a stream that stays open shows every notification
that stays unread, whatever Redis does.

Run `sse_streams`: 2 streams, 2 notifications, 1 failing query: one stream closes while another opens;
one notification is read while another is not. *Fairness*: queries end and the interval fires again
(`notification.controller.ts:24`), for each stream. Nothing is assumed of Redis, of the
clients or of the shutdown. *Proof* (`SseStreamProofs`): `RegistryIsExact`. `EventuallyShown` is
model-checked only.

## 10. Where code and documentation disagree

| Run | Statement | What the code does |
|---|---|---|
| `outbox_guarantee` | "Outbox ensures guaranteed delivery" (`notification.dispatcher.service.ts:21`, `:25`) | after three failures a row is never claimed again; the notification is not published |
| `session_logout` | logout invalidates the token in the database (`auth.controller.ts:104`, `tests/auth.test.ts:537`) | `logout` (`auth.service.ts:236`) deletes the row with the string of the cookie: a client whose refresh has not been answered yet, or whose answer was lost, presents the old string, deletes nothing and is told that it is logged out |
| `session_scope` | residents can list the notices (`tests/notice.test.ts:249`) | `refresh` (`auth.service.ts:222`) signs the new tokens with the apartment of the account, which residents do not have, while `login` takes that of the roster entry: after the first refresh the lists of notices and complaints answer 400 |

Seen in the models without a run of its own:

- `tests/user.test.ts:146` expects all sessions to be gone after a password change. A refresh that commits
  between the DELETE and the commit of `changePassword` (`user.service.ts:62`) leaves its row, and the
  session goes on: the second excuse of `EndedStaysEnded`.
- `tests/poll.test.ts:346`: only polls in progress accept votes. `castVote` checks, awaits and inserts;
  the scheduler closes the poll in between (`FindInProgressToClose`, `ClosePoll` before `InsertVote`).
- `services/poll.service.ts:155`: only residents of the building vote ("해당 동 주민만 투표할 수 있습니다.").
  They are residents of it when their building is read; `Move` may come before `InsertVote`, and after
  it the vote stays and is counted.
- `docs/poll.docs.ts:62`: a started poll cannot be edited. `updatePoll` and `deletePoll` check and
  then write by id; `raced` records those that met a poll that had started.
- `tests/poll.test.ts:430`: cancelling another option than one's own is refused. `cancelVote` deletes by
  voter and poll, whatever the option by then.
- `utils/poll.scheduler.ts:15`: closing registers the result notice. A failure between the two
  (`AbortRun` after `ClosePoll`) leaves a closed poll no later run looks at.
- `auth.service.ts:380`: the cleanup deletes rejected managers. It deletes by ids read before its
  transaction, also a manager approved in between.
- `tests/auth.test.ts:222` expects managers and apartments to agree after a bulk approval. A manager
  who registers, or is decided alone, between the list and the updates is the case `strayed`
  records: one side changes.
- `tests/auth.test.ts:250` expects the cleanup to delete all rejected managers. One of them with a
  comment makes `AdminCleanFails` the only step left to it.
- `tests/event.test.ts:200` expects one event after two upserts. Two of them at once make two
  (`doubled`).
- `README.md:61` promises a notification when the status of a complaint changes. Only resolving it
  notifies, and resolving it again after it was reopened has the dedupe key of the first time and
  notifies nobody.
- `poll.scheduler.ts:39-42` calls itself the only path that creates notices, while
  `notice.service.ts` has `createNotice`.
- The list of complaints shows `_count.comments`, which counts by a column `createComment` never sets.
- `addNotificationJob` (`queue/queue.service.ts:6`) has no caller outside tests.

## 11. What is not modelled, what is not proved

Not modelled for good: CSV parsing, object storage, apartment queries, validation schemas, routes,
start-up wiring and the generated client, which keep no state of their own. Two thirds of the lines
under `src/` (15 thousand of 22.7 thousand) are that generated client (`src/generated/prisma`); of
the rest, about half are route tables, API descriptions, request schemas, types, DTOs and queries that
only read. Within the modelled components: wording of notifications, titles, texts, view counters,
pagination, and the lists clients read. `updateComment` replaces a text by id; the events of polls
repeat those of notices; `createSuperAdmin` and `updateAdminInfo` write columns nothing reads here.
Three functions of `notification.repository.ts` (lines 119-173) have no caller. `updateMany` is taken
to evaluate its condition and write at once, as PostgreSQL does for a row. Wall-clock time is reduced
to the comparisons the code makes.

TLC checks all runs on the instances above; TLAPS proves safety for every value of the constants.
Out of the prover's reach and left to TLC: liveness under fairness and ENABLED (`EventuallySettled`,
`EventuallyClosed`, `EventuallyShown`), and what a recursive definition computes for all inputs (none
is used here). Every safety property a run checks and that holds is also a theorem.

## 12. Running the checks

    tlc -workers 2 -config MCPollLifecycle.cfg MCPollLifecycle
    tlapm PollLifecycleProofs.tla

`PROJECT.json` lists every run with its properties, for each property a mutation of the model
that violates it (the definitions preceded by a "Mutant" comment), the source lines of every
definition, the hazards and the theorems.
