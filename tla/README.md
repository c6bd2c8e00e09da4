# KB Connect in TLA+

KB Connect is a tutoring portal: tutors and students chat and call each other
when an administrator has mapped them, and a background engine computes exam
readiness for every student. One Node process serves REST routes and sockets
over one PostgreSQL database, and a static page is its client. This directory
holds TLA+ models of the parts of that system whose correctness depends on the
order of events, the TLC runs that check them on small instances, and TLAPS
proofs of what matters most for every instance.

Paths below are relative to the repository (`src/server/src/...`,
`src/web/app.js`, `src/docs/...` in `PROJECT.json`).

## The system

| Component | State | Operations | Interacts with |
|---|---|---|---|
| Accounts and sessions (`routes/auth.routes.js`, `auth/`) | `users.is_active`, `refresh_tokens`, access JWTs in circulation | login, refresh, logout, me, `authenticate` | every route stands behind `authenticate`; the admin routes create and deactivate accounts |
| Permission helpers (`rbac.js`) | none of its own; reads `users`, `mappings` | `areMapped`, `peersOf`, `canCommunicate`, `canAccessConversation`, `requireRole` | called by messages, meetings, AI and admin routes |
| Messages (`routes/messages.routes.js`, `services/conversations.js`) | `conversations`, `messages` | contacts, list, open a DM, read, send | permission helpers; broadcasts to sockets |
| Admin (`routes/admin.routes.js`) | `users`, `mappings` | create, patch, deactivate; assign, remove; monitoring, export, announce | everything above reads what it writes |
| AI engine (`ai/engine.js`, `ai/data.js`, `routes/ai.routes.js`) | `ai_insights`, `ai_insight_history`, `gamification`, `badges`, `copilot_summaries` | one run, run for all, copilot, views and refresh | timer of `index.js`, admin and tutor routes, mappings |
| Scoring (`ai/providers/`) | none | `analyzeStudent`, `weeklyHeadline` | called by a run |
| Notifications (`services/notify.js`, `routes/notifications.routes.js`) | `notifications`, `notification_prefs`, the map of online sockets | notify, list, count, read, read all, preferences | announcements, the socket server, the client's badge |
| Meetings (`routes/meetings.routes.js`, `services/jitsi.js`) | `meetings`, issued room tokens | start with a peer, start for a batch, monitor | permission helpers, Jitsi |
| Web client (`web/app.js`) | tokens, local storage, current chat, incoming and active call, badge | log in and out, refresh, open a chat, send, ring, accept, decline, end | all routes, the sockets |
| Socket server (`sockets/index.js`) | presence, calls | ring, accept, decline, cancel, hang up, send | **not in the tree**: `index.js` imports a file that is missing |
| Audit, database access, boot, seed, configuration | `activity_logs`, pool, environment | insert; query; create tables; seed | everything |

What makes the system hard to test:

* A handler is a chain of awaited SQL statements **without a transaction**
  (`db.js` has `tx`, nobody calls it). Between two statements of a request
  anything may happen: another request, an admin's change, a failure.
* `req.user` is a copy made by `authenticate`; every later decision combines
  that copy with what the tables say by then.
* The documents promise *immediate* effects: revoked tokens, cut chats.
* The engine runs the same student from four places at the same time.
* The client keeps promises across awaits (`current`, the shared refresh
  token) while the user clicks on.

What makes each component correct, in a line: a session chain never forks
silently and dies with its account; communication is mutual and only follows
mappings; a pair has one conversation, as long as ids are spelled as the server
spells them, and only its members write in it; what a
request does rests on a permission that was true while it ran; insights follow
the records and a failing student costs no other; every job ends; doing better
never costs points; the page shows what was asked for last, and what it shows,
of views, chats, calls and sessions, is what the server has.

## Modules

| Module | Models | Extends |
|---|---|---|
| `SessionLife` | the abstract life of accounts and tokens, without requests | |
| `Sessions` | accounts, refresh tokens, `authenticate`, login, refresh, logout, account creation and deactivation; implements `SessionLife` | |
| `Rbac` | the permission helpers as operators over `users` and `mappings` | |
| `Channels` | the abstract promise of the chats: who may open, write and read what, without requests | |
| `Messaging` | the message routes and the admin routes that change users and mappings, query by query; implements `Channels` | `Rbac` |
| `Meetings` | the meeting routes, rooms and room tokens, among the admin routes of `Messaging` | `Messaging` |
| `AiEngine` | runs, loops, copilot, streaks, badges | |
| `Scoring` | what one run computes: the heuristic score, risk, plan, points | |
| `Notifications` | the notifier, announcements, the notification routes, and the badge, bell and switch of one page | |
| `Views` | the navigation of one page | |
| `ChatClient` | the chat pane of one page and its socket rooms | `Views` |
| `CallClient` | calls and meetings as one page sees them | `ChatClient` |
| `Page` | the composition of the three above | `CallClient` |
| `WebSession` | the tokens of the pages of one browser | |
| `SessionsProofs` | theorems about `Sessions`, and that it implements `SessionLife` | `Sessions`, `TLAPS` |
| `MessagingProofs` | theorems about `Messaging` and, in it, the helpers of `Rbac`, and that it implements `Channels` | `Messaging`, `TLAPS` |
| `MeetingsProofs` | theorems about `Meetings` | `Meetings`, `MessagingProofs` |
| `AiEngineProofs`, `ScoringProofs`, `NotificationsProofs`, `PageProofs`, `WebSessionProofs` | theorems about the module each is named for | that module, `TLAPS` |
| `MC...` | small instances for TLC | their module |

Conventions. A request is a slot with a local state `h[r]`: `pc` names the next
SQL statement (or bcrypt call), the other fields are the handler's local
variables. An action is the code between two awaits. `Fail` ends a handler at
any statement, which is a 500 (a 401 when it is the read of `authenticate`) and
leaves what earlier statements did. Variables and handler fields called
*history* record the past for a property; no guard reads them. A definition
called a *mutation* is a plausible bug, used to see that a property notices it;
no specification uses it.

### Sessions

`account`, `owner`, `revoked`, `expired` are the columns of `users` and
`refresh_tokens` that decide; `signedIn` says for whom an unexpired access JWT
exists. A raw token and its hash are one value, as SHA-256 is taken to be
injective and `randomBytes(48)` never to repeat. `LoginSelect`, `LoginVerify`,
`LoginInsert` are the three awaits of `/login`; `RefreshSelect`,
`RefreshRevoke`, `RefreshInsert` those of `/refresh`; `LogoutAuth` and
`LogoutRevoke`, `CreateAuth` and `CreateInsert`, `DeactivateAuth`, `ClearFlag`
and `RevokeAll` the others. Anybody may present any token that was ever issued,
which includes copies kept by a page. The audit inserts have no action:
`logActivity` catches its errors and nothing reads the table back.

`SessionLife` says the same without requests: an account is absent, open,
closing or closed; a token is unborn, live or spent, or late and void when it
was given to an account that was closing. The refinement mapping (`standing`,
`state`) calls an inactive account closed when it is `Dead`, that is when no
token of it works and no handler is past its `is_active` test. One sweep, one
expiry or one answer may so close an account: `Retire` covers them together.

### Rbac and Messaging

`users` holds role, batch and flag of each id, `mappings` pairs. A client names
the peer by a *text* of the path, which nothing normalises. PostgreSQL takes an
upper-case uuid for the same user, so that every query goes by `UserOf[text]`;
`canCommunicate` compares the text itself with the caller's own id
(`rbac.js:41`), and `getOrCreateDm` sorts the texts. `Text` has every text a
client may send that PostgreSQL takes for an id in use; they are numbers, whose
order is the order of JavaScript's sort, and `UserId` are those in the spelling
of the server. A text that is no id makes the first query fail, as `Fail` does.
A conversation *is* the key its unique constraints define: the two members in
the order of the columns, or a batch. So a pair may have two rows, one for each
order; `SecondDmIsRespelt` says when it has. In `Rbac` a helper is its
value on one state; in `Messaging` it is spread out: `OpenPeer` and `OpenMap`
are the two queries of `canCommunicate`, `SendSelect` and `SendTeach` the row
select and the batch query of `canAccessConversation`. `Done` stands for every
answer. A mapping is removed by row id: `RemoveDelete` therefore also finishes
the requests that name the same deleted row. Contacts and the conversation list
change nothing and are operators (`Contacts`, `Listed`).

`Channels` says the same without requests: a permit is granted to who is entitled
in that moment, is used once later, and nothing is opened, posted or shown
without one. The refinement mapping reads `mappings`, the batches and the active
admins as they are *now*, not from a history, and gives a handler a permit as
soon as its remaining tests cannot fail any more (`Opens`, `Posts`, `Reads`):
where the copy of the caller's row decides, that is at `authenticate`; where a
query decides, at that query. So the moment in which a permission is right is
named for each route. That the permit stays when the mapping goes is what
`messaging_revoke` shows.

### Meetings

A room is named by a hash of two sorted texts or of a batch; the model names it
by what is hashed, so two rooms are equal exactly when the hashes are. One text
is the caller's id as the server writes it, the other that of the path: the
room of a pair depends on how the peer was spelled, and `Party` is the pair
whose room it is. The
steps of a request are those of the permission helpers, then `UpsertMeeting`
(the unique `room` keeps one row per pair for ever) and `AnswerToken`. A failed
select of `/monitor` answers like a refusal. The admin requests are the actions
of `Messaging` itself; its chat requests touch nothing that a meeting reads.

### Scoring

The record of one student as `gatherStudentData` returns it, in integers:
rates in millionths (`Unit`) rounded down, the score rounded to a percent as
the code rounds it. `Init` is one of the students of `seed_ai.js` or a student
without rows; the actions add what a teaching module would write: a mock, an
answer, an attendance, a worksheet, an evening of study, a mistake, two weeks
that pass. `Readiness`, `Risk`, `Weakest`, `Plan` are `analyzeStudent`; `Points`
and `BadgesDue` what the engine makes of its result. Topics are the five of the
demo students and one more (`TopicName`). A mock is between nothing and full
marks, and no more answers of a topic are right than were given: assumptions
about the modules that would write the rows, not facts about this code. The
tables have no check (`schema_ai.sql:33`) and the provider clamps the score but
neither the mock average (`heuristic.js:31`) nor the topic mastery. A mock with
bonus marks gives a component above 100 percent; nothing is claimed of such
records. The sort of the weak topics is the number of topics that come before
each (`Before`).

### AiEngine

The records of a student are a version number. `Gather` notes the version when
the first query runs and `Analyze` the one when the last query has run, so an
insight is known to be no older than `low`. `Upsert`, `Log`, `GamiSelect`,
`GamiInsert`, `GamiUpdate`, `Award` are the statements of one run; `List`,
`NextStudent`, `EndLoop`, `Summary` the loops around it; `Ask`, `CheckMapped`,
`SelectInsight`, `Reselect` the routes. Time is counted in half-days, because
the code rounds the distance to the last midnight.

### Notifications

`notifs` is the table in the order of `created_at`, `prefs` the preferences of
the user `Me` whose page is modelled (a missing row means two falses). A call
of `notify` is `Gate`, `Insert`, `Emit`; `Return` goes on to the next recipient
of an announcement. Of the missing socket server only two things are assumed:
it calls `notify`, and it keeps a map of who is `online`; an event on a
connection that breaks is lost. The page has slots `ask` for its requests:
`Deliver`, `Bell`, `Toggle` start them, `Serve` and `ServeError` answer them in
any order, `Apply` is the code behind the await, and `Lose` is a request whose
connection breaks, served or not. What other pages of the account do is
`ReadElsewhere`, `DndElsewhere`, `MuteElsewhere`. The histories `sure`, `exact`
and `synced` say which answers are to the last question and have not been
overtaken by a change the page is not told of; only then can the badge and the
switch be expected to be right, and `BadgeCurrent` and `SwitchCurrent` say that
nothing else makes them wrong.

### Views, ChatClient, CallClient, Page

One page. Each asynchronous function of `web/app.js` is a slot (`fetch`,
`opening`, `joining`) whose `pc` says which request is under way; the code
behind an `await` is one action, and requests are answered in any order. A view
is the entry that drew it and the version of the tables its answer saw; a
message is its conversation and its place in it. `ViewsNext` are the clicks and
answers of the side bar; `ChatNext` has `openChat` (`OpenChat`, `AskHistory`,
`DrawHistory` behind their awaits), `sendMsg` and what other members write
(`Post`), and the handler of `message` (`Arrive`); `CallNext` has `startCall`
and its acknowledgement (`Answered`), the modal (`Accept`, `Decline`,
`HideIncoming`), `joinMeeting` (`MeetAnswered`, `OpenRoom`), `endMeeting`
(`PressEnd`, `CallOver`). `Page` lets them interleave; they share the contact
that is current (a call rings it and joins its meeting), the view (a chat is
clicked only in the list), the events on their way in one connection (`down`),
and `Reconnect`, which loses the rooms and the events of all.

The socket server is not in the tree. The headers of `ChatClient` and
`CallClient` say what is assumed of it: a message is inserted, then broadcast
to the sockets in the room; a ring makes a call that is taken, refused,
cancelled or timed out once; events of one connection keep their order; what is
asked of a call that is over changes nothing.

The page is *not* right under every interleaving (see "Noticed"). Each property
therefore says under which condition, kept as a history, the code makes it
right: `patient` (a click waits for the view before it), `exact` (nobody wrote
in the chat while it opened, and the socket held), `steady` (no other chat was
opened between ring and answer), `single` (one call of this page at a time),
`intact` (no end of a call overtook its meeting).

### WebSession

Pages of one browser share local storage (`store`) and each have their own
copy of the tokens (`page[p].pair`). A pair is an access and a refresh token
that were issued together. A call is a task: `ServeAsk` answers it or says 401;
`Denied` starts the exchange with the token the page has *by then*, `Renewed`
saves and asks again, `Refused` signs the page out; `ServeCheck` and
`ServeExchange` are the two halves of `/auth/refresh`, so two exchanges may
both pass the first. A page that is signed out is `leaving` until it reloads,
and what it had under way goes on, as in a browser. `Fail` is an answer with an
error, or the 401 of a failed query; `Lose` a broken connection. `Expire` ends
an access token; `Lapse` ends refresh tokens on the side of the server, one
whose time is over or all of an account that is deactivated, with its access
tokens. Which pair belongs to which account is left open.

## Runs

Deadlock is checked in the runs of `MCSessions`. The others stop by design,
because a request or a call of the notifier runs once (`MCMessaging`,
`MCMeetings`, `MCNotifications`) or because a bound on moves, versions or time
is used up (`MCAiEngine`, `MCScoring`, `MCPage`, `MCWebSession`).

| Run | Instance | What it shows |
|---|---|---|
| `sessions` | admin, one account, 3 tokens, 2 requests | types; `RotatedOut`, `OnlyLateSurvive`; `KeepsLife`: the refinement of `SessionLife` |
| `sessions_deactivate` | same | **violated**: a token inserted after the sweep stays live |
| `messaging` | admin, tutor, student with two spellings, a free id, 1 batch, 3 requests | types; `CommunicationIsMutual`, `ListsAgree`, `SecondDmIsRespelt`, `OpenWithinGrant`, `EveryChatTied`, `MembersOnly`; every step is one of `Channels` (`KeepsPromise`) |
| `messaging_revoke` | same | **violated**: posting goes on after the mapping is removed |
| `meetings` | admin and student with two spellings, tutor, 1 batch, 2 admin requests, 2 meeting requests | types; `MeetWithinGrant`, `NoHiddenRoom` |
| `ai_runs` | one student, 2 jobs, 2 versions, 2 half-days, 7 counted days | types; `InsightLogged`, `AloneIsFresh`, `StreakBacked` up to the badge |
| `ai_loops` | tutor, 2 students, 1 job | `TutorSeesOwn`, `NobodySkipped`, and `JobEnds` under fairness |
| `ai_days` | one student, 2 jobs | **violated**: a streak longer than the days |
| `scoring` | 4 changes to a demo student or to an empty record | rates and bounds; `EffortPays`, `Explained` |
| `notifications` | 2 users, 2 calls of the notifier, 2 requests at a time, 2 moves | types; `BadgeCurrent`, `SwitchCurrent`, `BellReads`, `NoCallUnderDnd`, `AnnouncedOnce` |
| `page` | 2 contacts, 3 entries, 2 slots of each kind, 2 calls, 3 moves | types; `ViewCurrent`, `PaneExact`, `RightRoom`, `NoCallLeft`, `RoomGone` |
| `websession` | 2 pages, 2 tasks, 5 pairs, 5 moves | types; `KeepsSession`, and `CallEnds` under fairness |

A *violated* run checks one statement of a document or comment that the code
does not keep; `PROJECT.json` quotes the line under `findings`.

Why the bounds are enough. Every race in these handlers is between two requests
and at most one admin change in between, which two slots (three in `messaging`,
where a slot is used once) can express. Three tokens give a chain of two
exchanges, or a fork. The free id of `messaging` becomes a second tutor or a
second student, so two users of one role exist, and one batch against none is
all the code compares. One id with a second spelling is enough for a second DM
row: the other spelling of the student sorts before the tutor and the admin, its
id after them. In `meetings` the admin has a second spelling too, so that it may
also call itself, which the test of oneself does not notice. In `meetings` the mapping starts absent, is assigned by
one admin request and removed by the other, and both sides may call. Two
versions make one run older than another; the first has study time and the
second has none, so both branches of the streak are taken. Two half-days tell a
morning from an afternoon, where the rounding already counts the next day; the
reset a day later only lowers a streak, which `StreakBacked` cannot notice.
Seven counted days reach the badge. Four changes of a record push the oldest of
a student's mocks out of the window of four, fill and empty a topic, and cross
each threshold from a demo student near it; a mock has one of four results.
A move of `notifications` is a call of the notifier, a click, or a change made
elsewhere; what follows from it is not bounded. Two moves and the row an earlier
session may have left make two unread rows, with a list of one (`Latest`) that
cannot show both, two toggles that overlap, or a click while a notification is
on its way. One request more at a time would only add a question that is
overtaken like the others; with three moves the run no longer ends in time.
A move of `page` is a click, a message, a ring, a change or a broken
connection; since a chat may be open already, three moves are a ring, another
chat and an accept, or two chats and a message between them, or a change, a
click and an answer that overtakes it. A move of `websession` is a click, a
reload, an expiry, an end of refresh tokens or a failure: five expire a token
under a call of each page and reload in between, expire two exchanged tokens of
one call, or deactivate the account between the halves of an exchange.

Fairness. `JobEnds` assumes of each job that its next statement is answered,
with a result or an error: Node runs every continuation and the pool rejects
what it cannot run; with `AI_PROVIDER=llm` this also assumes that the fetch to
the model ends. `CallEnds` assumes of each task of a page that its request is
answered and that the code behind the await runs, which the browser does until
the document goes, and then the task goes with it. Nobody is assumed to click,
and no token to expire or not to expire: the retry ends because each turn of it
takes one more expiry or failure, which the bound on moves makes finite. What
is checked is thus that the page itself never turns in a circle.

## Proofs

`SessionsProofs` proves for any set of users, tokens and requests:
`TypeCorrect`, `RotationCorrect`, `SweepCorrect`, `LateCorrect`, `DeadForever`.
None of the safety properties is inductive alone. The invariant `IInv` adds
what handlers know: a handler at `reissue` has its token revoked already
(`TokenInv`); a handler past the test holds a token that was not late
(`HandlerInv`); and for an account whose deactivation has answered, every token
not late is revoked (`CutInv`, which needs that `ClearFlag` comes before
`RevokeAll` and that no route sets the flag again). `DeadForever` is an action
property and follows from the same invariant.

`SessionsProofs` also proves the refinement, `LifeImplemented`: `Spec =>
Life!Spec`, for any sets. `RInv` adds to `IInv` that a token that was never
inserted has no parent and is not late (`BornInv`). The statements fall into
three kinds, one lemma each: those that insert a token are an `Issue`
(`IssueStep`; its first conjunct, that the exchanged token is spent and of the
same account, is where `TokenInv` and `LateIsBarren` are needed), those that
write an account are a `Register`, a `Deactivate` or a `Retire`
(`AccountStep`), and all others only take tokens away or end handlers, which is
a `Retire` or a stutter (`RetireStep`). That a closed account stays closed is
`DeadStep`, the step behind `DeadForever`.

`MessagingProofs` proves `TypeCorrect`, `SecondDm`, `OpenGranted`, `TiedCorrect`
(from `DmOrigin` and `BatchOrigin`) and `MembersCorrect` (from
`PostersAreMembers` and `ReadersAreMembers`). The strengthening says
that a principal with role admin is a seeded admin (routes only demote), that a
handler at `find` or `insert` has seen its grant, and that a handler at `send`
or `read` has been admitted, in terms of the history of mappings and batches;
and that every DM row there is, or that a handler carries to its insert, has its
columns in an order in which a text of one member and the id of the other sort
(`TextsSorted`). Of two rows of one pair, one is then out of the order of the
ids, and a spelling is to blame (`SecondRow`): that is `SecondDm`. `OneDm` is
what is left of the comment in `schema.sql`: if `Text = UserId`, so that ids have
one spelling, as they have for the page of this repository, `OneDmPerPair` holds.
`MutualCorrect` and `ListsCorrect` are about the helpers in every reachable state. They follow from the types of the tables alone, by cases
on the roles (`MutualAlways`, `ContactsComplete`, `ListAlways`): no invariant of
the mappings is needed, which is why role changes cannot break them.

`PromiseKept` is the refinement of `Channels`. A statement that writes no table is
a `Lapse`, or a `Grant` when the handler gains its permit (`QuietPromise`, for
which `PermitsMove` says how the set of permits follows from the move of one
handler); the three that write a chat table are `Open`, `Post` and `Show`; the
admin's are `Reassign`, which needs that no route makes an admin. `MayOpen`,
`MayPost` and `MayBeShown` compare the tests of the code with `Entitled`;
`CopyAdmits` is why a decision from the copy is right at `authenticate`, and
`OpenPromise` and `ChatPromise` why the others are right at their query.

`MeetingsProofs` proves `MeetTypeCorrect`, `MeetGranted`, `RoomsKnown` and, if
ids have one spelling, `OneRoom`. The
admin requests are actions of `Messaging`, so its `IInv` and the lemmas about
its steps are used as they are. `MInv` adds what a request for a room knows
behind each statement (`MeetKnows`), said of things that no later step takes
away: the mappings noted since the request began, the batches taught so far,
the rows of `meetings`. `NoHiddenRoom` needs that every room is a sorted pair
of texts or a batch, and that an answered token names a row that is there.

`AiEngineProofs` proves `AiTypeCorrect`, `LoggedCorrect`, `StreakCorrect`,
`FreshCorrect`, `OwnCorrect` and the action property `LoopCorrect`. What a job
has read is compared with what only grows: the versions of the records, the
days counted, the mappings there have been (`JobRead`, `JobGranted`).
`StreakBacked` needs to know what a job at `update` holds, a streak read before
other jobs wrote the row, is still backed, one more day included if its version
has study time. `AloneIsFresh` needs `FreshInv`: whoever gathers behind a job
that was alone gathers no version older than the question, so whichever of them
stores last, the row is no older.

`WebSessionProofs` proves `WebTypeCorrect` and `SessionKept`. A pair that the
server has issued and no page has taken is known to nobody else (`Fresh`). While
nothing has come between an exchange and its page (`smooth`), at most one
exchange is under way, the pair it gives up is held by its own page alone
(`TaskLive`), and outside of it what every page and the local storage hold is
alive (`TokensLive`); so no exchange is refused. A `Lapse` ends `smooth`: who is
then signed out is signed out rightly. `KeepsSession` alone is not
inductive: it says nothing of the token that a refusal would be about.

`NotificationsProofs` proves `NotifierTypeCorrect`, `BadgeCorrect`,
`SwitchCorrect`, `BellCorrect`, `DndCorrect` and `AnnouncedCorrect`, with three
invariants one on top of the other: the types; what the calls of the notifier
have left in the table (`NotifierInv`: a recipient is still to come, or in hand,
or has exactly one row); and what the page may conclude from an answer
(`PageInv`). The last is needed since a badge is right because of an *answer*
that was: a count that is known to be to the last question equals the number of
unread rows whenever nothing is on the wire and no marking is unheard of
(`CountOf`), and each change of the table is followed by an event or by a
question that makes an older answer stop being `sure`.

`PageProofs` proves `PageTypeCorrect`, `ViewCorrect`, `PaneCorrect`,
`RoomCorrect`, `NoCallLeftCorrect` and `RoomGoneCorrect`. Each property speaks
of a page at rest; its part of the invariant says what is still on the way when
the page is not. A fetch that is under way is the one of the entry chosen last
(`ViewsInv`). Of a conversation the first messages are drawn and the others are
in `down`, in order, each once (`Aligned`). For the calls, `up` and `down` are
read as sets of tokens: `Once` says which tokens about one call exclude each
other, `Sides` who made the call they are about, and on these stand `SteadyInv`
(a ring, its call and its meeting have the contact that is current),
`SingleInv` (a live call of this page is unanswered, active, or being hung up)
and `IntactInv` (a call that is over and still awaited or in the overlay has its
end in `down`, or its acceptance in `up`). The lemmas `Taken`, `Pushed`,
`Handled` and `Emitted` say once what reading or writing a queue does to its
tokens; each action then has a lemma of its own, and what it does not touch is
kept by a lemma for the component. TLC has checked this invariant on the
instance of `MCPage`.

`ScoringProofs` proves `ScoringTypeCorrect`, `EffortIsRewarded` and
`ScoreIsExplained`, for records of any length and size, any results of mocks and
any number of changes. Only `Sound` (the record is one the queries can return)
is inductive; the other properties hold of every such record. A sum over a
record is a recursive function, and its lemmas (`SumIs`, `SumMonotone`,
`SumBetween`) are inductions over the length, each by the least number that
breaks the claim (`NatLeast`, from the theorem of the library that `<` is
well founded on the naturals). `NoWorse` compares two records part by part: if
no part falls, and the mean of the mocks rises by as much as the nudge of the
trend takes back, the score, the points and the badges do not fall
(`NoWorseReadiness`, `NoWorsePoints`, `NoWorseBadges`); each way of doing better,
and a best new mock, is then one lemma about the parts it touches (`Mediant`
for the rates whose two numbers both rise). `ScoreIsExplained` bounds the
rounding of six contributions and of the score, and shows that a record without
any reason for a high risk scores at least 50: 17.5 points of the mocks (18.2
with mocks that average 52 percent, of which the decline may take 1.2 back) and
the rest of the parts that the empty plan keeps up. At first the property said
46 percent, which the four changes of the run could not refute; the proof did
not go through, and TLC found a longer record with mocks of 48.5 percent, an
empty plan and a score of 48.

Assumptions are the ones named in the modules (`SessionsAssumption`,
`RbacAssumption`, `MessagingAssumption`, `AiAssumption`, `ScoringAssumption`,
`NotificationsAssumption`, `ViewsAssumption`, `ChatAssumption`,
`CallAssumption`, `WebSessionAssumption`): special values are not members of the
sets, bounds are numbers, admins are users, seeded rows are well typed, the
entries of the side bar that wait for an answer are not those that are static.
None bounds a set: the theorems hold for any number of users, requests, pages
and pairs. The bounds on moves, versions and time are constants like others.

Only model-checked: the three violated runs; and `JobEnds` and `CallEnds`, since
liveness under fairness is out of the prover's reach. No module has recursive
operators: the sum of `Scoring` is a recursive function.

## Noticed while modelling

The violated runs above are the disagreements worth a counterexample. These
have no run of their own, because one state or one line shows them:

* `getOrCreateDm` (`conversations.js:5`) sorts the *texts* of two ids, one of
  which comes from the path as the client wrote it (`messages.routes.js:36-39`).
  With an upper-case uuid the sort may come out the other way, and the pair gets
  a second row: the constraint of `schema.sql:72` is on the ordered pair,
  although `schema.sql:66` says that a pair maps to one row, and the comment at
  `conversations.js:3` speaks of the single one. The reachable states of `messaging`
  contain such pairs (`OneDmPerPair` fails there); `SecondDmIsRespelt` says that
  there is no other cause.
* `roomForPair` (`jitsi.js:6-8`) hashes such texts (`meetings.routes.js:22`): two
  who call each other, one of them with another spelling, wait in two rooms
  (`OneRoomPerPair` fails in `meetings`). `docs/ARCHITECTURE.md:82` calls the
  room deterministic.
* An admin whose own id is spelled otherwise in the path passes the test of
  oneself (`rbac.js:41`) and gets a DM, or a room, with itself.
* `messages.routes.js:29` lists a batch channel by the caller's own
  `users.batch`, a tutor's too, while `canAccessConversation` (`rbac.js:57-61`)
  asks the batches of the mapped students: a tutor may be shown a channel that
  answers 403, or not be shown one that is open (`docs/API.md:20`).
* `PATCH` and `DELETE /admin/users/:id` (`admin.routes.js:48-70`) change the row
  of an admin as well; the comment at line 13 says tutors and students. The
  last admin can be demoted.
* `peersOf` (`rbac.js:32`) returns whoever is in a mapping; after a role change
  that may be a user of the same role (`docs/SECURITY.md:22-23`).
  `canCommunicate` refuses the pair.
* `GET /ai/students/:id` makes an insight of any id for an admin
  (`ai.routes.js:63`, `schema_ai.sql:89`).
* A streak is kept, not reset, by a run without study time (`engine.js:83`; the
  comment at line 78).
* The logout button of the page (`app.js:47`) drops the tokens without calling
  `/auth/logout`: the refresh token stays live.
* A student may start the meeting of the own batch
  (`meetings.routes.js:36`; the comment above says tutor or admin).
* The bell sends `read-all` even when the list was answered with an error
  (`app.js:376-377`), and for rows beyond the 100 it shows.
* An error of `unread-count` hides the badge, an error of the preferences turns
  the switch off (`app.js:63-64`, `373`): the body is used without a look at the
  status.
* A muted message counts but is not announced to the page, and a page that
  reconnects does not ask again: the badge is behind until the next event.
* Two quick clicks on the switch overlap, and the server may keep the first
  (`app.js:67-71`); the root `README.md:19-20` promises that the toggle silences
  the alerts.
* `GET .../messages` returns the 500 *oldest* rows (`messages.routes.js:52`).
* Two concurrent refreshes with one token both pass the test of
  `auth.routes.js:46` and both get a successor, since the update of line 51 does
  not ask for `revoked_at`: the chain forks (`docs/ARCHITECTURE.md:65-66`).
* Of two overlapping runs of one student the one with the older data may write
  last (`engine.js:11`; `schema_ai.sql:89` speaks of the current insight).

Scoring:

* A student may be at high risk with an empty plan (no topic below its
  threshold), for attendance, decline or mocks alone; one with more *conceptual*
  mistakes scores higher than one with as few silly ones and no others, because
  only the share of silly ones counts (`heuristic.js:57-60`); study of an
  earlier fortnight lowers the score of this one (`heuristic.js:54`).
* The nudge of the trend is in the score and not among the contributions shown.
* `late` counts as absent (`data.js:32-38`); worksheets of another batch count
  as handed in, so more may be handed in than assigned (`data.js:40-49`).
* `seed_ai.js:2` calls itself safe to re-run, but mocks, study sessions and
  mistakes are inserted again each time.
* The LLM provider labels its result `llm` also when no endpoint is configured
  or when the answer is empty.

Meetings:

* A row of a pair is reused for ever: `ended_at`, the duration and
  `meeting_participants` are never written, although the root `README.md:15`
  promises a history of them.
* A room token lives on when the mapping is removed (`jitsi.js:24`), against
  the "instantly cuts off" of `docs/ARCHITECTURE.md:48`; the making of a new one
  is refused.

The page:

* `openChat` (`app.js:248-260`) writes behind its awaits to whatever contact is
  current by then: two quick clicks store the conversation of the first contact
  in the second, whose messages then go there; an error of the first request
  leaves no conversation and asks for one named `undefined`.
* A message that arrives between the join and the history is drawn twice, or
  wiped; rooms are not joined again after a reconnect, and never left.
* `startCall` joins the meeting of the contact that is current when the ring is
  answered (`app.js:292`), not of the one that rings.
* `joinMeeting` does not look whether the call is still alive: a call that is
  over while the meeting is being prepared opens it all the same (`app.js:327`),
  as does the acceptance of a call that no longer rings.
* The callee never notes the call (`activeCallId`), so the End button tells
  nobody; the page never emits `call:cancel`; a second ring overwrites the first.
* A failed load of the Jitsi script is remembered until the page is reloaded
  (`app.js:316-325`).
* A view that is slow to answer draws over the one clicked after it, and over
  the chat list.
* Two calls of a page that get 401 together, or two pages of one browser, send
  one refresh token twice: the second is refused and signs its page out, which
  removes the tokens of the other from local storage too. A call that is under
  way when the page signs out may put tokens back before the reload.

## Not modelled

The socket server is missing from the tree: what it does is assumed, in the
headers of `ChatClient` and `CallClient`, and nothing is claimed of it. The LLM
provider only rewords a summary. Of the page, the details fetched inside a view
(one student of the insights, one transcript), the export and the search box
are left out, and the layout of everything; the two requests of `adminMappings`
are one answer. The limit of 500 messages, rate limits, the audit log and
wording are left out: no property is about them. Passwords are a yes/no
answer of bcrypt; a PATCH that changes one revokes no session, and no document
says that it should. Read-only monitoring routes have no actions.

## Plan

1. *(done)* `Sessions`, `Rbac`, `Messaging`, `AiEngine`, `Notifications`.
2. *(done)* `Scoring`, `Meetings`, `Page` with its three parts, `WebSession`;
   `SessionLife` and the refinement.
3. *(done)* Proofs of every safety invariant and action property that a passing
   run checks, and of the refinement of `SessionLife`.
4. *(done)* `Channels`, an abstract specification of who may open, write and read
   what, implemented by `Messaging`, and the proof of that refinement.
5. What no specification states yet: that a notification once read stays read
   under the two writers of its row (the bell and a click), and a hazard listed
   without a property, the window of 500 messages. That a channel or a message
   never goes, and a spent token never comes back, needs no property of its own:
   `Channels` and `SessionLife` have no step that does either.
