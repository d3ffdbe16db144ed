# TLA+ verification of the LostMedia backend

The repository is the Go backend of a social network: HTTP handlers
(`internal/app`) call services (`internal/service`), services call
repositories (`internal/repository`) over Postgres (GORM) with a Redis cache
beside it, and a WebSocket hub (`internal/websocket`) pushes events to
browsers. E-mail goes through RabbitMQ, payments through Midtrans, media
through Cloudinary. Every HTTP request is served by a goroutine of its own; no
handler uses a database transaction or a lock, and many start further
goroutines they do not wait for. The hard behaviour of this program is
therefore what these goroutines do *between* each other's statements, and what
is left behind when one of several statements fails. There are no tests in the
repository, so nothing else checks it.

The project has specifications of the parts with the most interaction, TLC
runs that check them on small instances, and TLAPS proofs of what matters most
for instances of any size.

| file | what it is |
| --- | --- |
| `Hub.tla` | the hub goroutine, the two pumps of every connection, presence |
| `HubProofs.tla` | theorems about `Hub` |
| `Friendship.tla` | friend requests, their cache and notifications, and chat |
| `Consent.tla` | the abstract promise `Friendship` implements |
| `FriendshipProofs.tla` | theorems about `Friendship` |
| `Payment.tla` | payments, webhooks, polls, and the role upgrade |
| `PaymentProofs.tla` | theorems about `Payment` |
| `Groups.tla` | groups, their members, roles and slugs |
| `GroupsProofs.tla` | theorems about `Groups` |
| `Account.tla` | one users row: registration, one-time codes, tokens, bans, roles |
| `AccountProofs.tla` | theorems about `Account` |
| `Posts.tla` | a post, its upload in the background and its caches |
| `PostsProofs.tla` | theorems about `Posts` |
| `Notices.tla` | the notifications table and its unread count |
| `Engagement.tla` | likes, views, comments, their numbers, the score, over `Notices` |
| `EngagementProofs.tla` | theorems about `Engagement` and, through it, `Notices` |
| `EmailQueue.tla` | publishing to RabbitMQ, the email worker, outages and restarts |
| `EmailQueueProofs.tla` | theorems about `EmailQueue` |
| `MC*.tla`, `MC*_*.cfg` | instances for TLC, one cfg per run |
| `PROJECT.json` | components, runs, mutants, the map from definitions to source lines, findings, hazards, theorems |

In every module an operator whose name ends in `_Something` and whose comment
says "wrong on purpose" is a plausible bug of the definition with the same
stem. It is used by no action; `PROJECT.json` pairs it with the property that
must fail once it takes the definition's place.

## 1. Inventory

| component | state | operations | hard behaviour | what makes it correct |
| --- | --- | --- | --- | --- |
| **WebSocket hub** (`websocket/`) | registry of connections by user, `broadcast` channel, a `send` channel per connection | connect, disconnect, ping, notify one user or all, evict a slow client, presence events | three kinds of goroutine share channels that one of them closes; buffers at their limit; the hub announces into the channel only it drains | never a double close or a send on a closed channel in the hub; the hub never waits for a client; online list and presence agree; notifications stay private; broken links are forgotten |
| **Friendships** (`friendship_service`, `friendship_repo`) | `friendships` table, `friendship:<id>` keys and list keys in Redis | send, accept, reject, remove, status, read, lists | read-decide-save-whole-row with a cache in between; check-then-create; save resurrects a deleted row; a goroutine per notification | a friendship takes its sender's request and its receiver's acceptance; answers announced were given; stale entries expire |
| **Chat** (`chat_service`, `chat_repo`) | `chat_messages` | send, conversations, read marks | friendship is checked in one statement and the message stored in another | messages only between users who agreed to be friends |
| **Payments** (`payment_service`) | `payments` table, `users.user_type` | create and charge, poll, webhook, upgrade, notify | three handlers write the same row; webhooks repeated, late, out of order, with any body; upgrade fails after the status was stored | a role follows a report of a payment, of its own user and target; who paid gets the role, and nothing but a failed update or Midtrans giving up loses it |
| **Role prices** | `role_prices` table | CRUD by the owner | none | prices are positive, a role has one price |
| **Notifications** (`notification_service`, `notification_repo`) | `notifications` table, unread list and count in Redis | create and push, mark read, delete, purge | check-then-create of like notifications; cached count | each user sees their own; one like notification per like; unread count agrees |
| **Users and roles** (`user_repo`, `user_handler`) | `users` table | role, ban, unban, profile fields | whole-row saves against single-column updates | a ban or role is not lost but to a whole-row save under way |
| **Authentication** (`auth_service`) | OTP columns of `users`, tokens | register, OTP, resend with cooldown, login, reset, OAuth, delete | OTP read then whole-row save; cooldown arithmetic; a ban lifted on a row read before | an OTP verifies once and ends on time; a code is not resent too early; no token for an account with a password before a mailed code came back |
| **Groups** (`group_service`, `group_repo`) | `groups`, `group_members` | create, update, delete, join, leave, role, remove | create without a transaction; handlers decide on memberships read earlier; save of a soft-deleted group brings it back; the slug search does not see deleted groups, the index does | authority comes from the creator; a group keeps an administrator; slugs stay unique and the search for one ends |
| **Posts, uploads, views** | `posts`, `post_views`, list caches, engagement scores | create with asynchronous uploads, update, delete, view, feeds | an upload outlives its request; score computed from counts that change | what was written on purpose stays; caches follow; a deleted post disappears; views are counted once per user; the rank follows the rows |
| **Comments** | `comments`, caches | create, update, delete, list | an edit that saves a comment deleted meanwhile; cache and count | deleted comments stay deleted; counts follow the rows |
| **Likes** | `likes`, caches | like, unlike, react | check-then-create | one like per user and target |
| **Profiles** | `profiles`, caches | create, update, delete | one per user | one profile per user |
| **E-mail queue** (`rabbitmq`, `email_worker`) | connection, queue, worker | publish, reconnect, consume, ack, requeue | a publication nobody confirms; connection lost between check and use; redelivery; SMTP errors after delivery; a worker that never comes back; emails that always fail | an email the broker has stored is kept until it is sent, sent twice only if its answer or SMTP's was lost, and not held up by bad ones |
| **Redis client** | the keys above | get, set, delete, sorted sets | errors ignored by most callers | as part of each cache |
| **Rate limiter** (`middleware`) | a limiter per client address | take, clean up | table at its limit | the table stays bounded |
| **Start-up, routes; media storage** | none of their own | wiring; calls of Cloudinary | retries of the first connections | none |

Interactions: services push through the hub (`BroadcastToUser`,
`BroadcastToAll`) after they have written; friendships, likes, comments and
payments create notifications, which push through the hub; chat reads
friendships; payments read role prices and write `users`; posts, likes, comments
and views feed the engagement score; authentication publishes to the e-mail
queue. The only shared memory is in the hub and the rate limiter, everything
else meets in Postgres and Redis.

`PROJECT.json` lists the hazards at the lines where they bite, each with the
properties that cover it or the reason why none does.

## 2. The modules and the code

### Hub

| model | code |
| --- | --- |
| `online`, `conns` | the keys of `hub.clients`, and the inner maps |
| `broadcast`, `send[c]`, `closed[c]` | the two kinds of channel, and `close(client.send)` |
| `reader[c]`, `writer[c]` | where ServeWS/readPump and writePump are |
| `link[c]` | the TCP connection as the code sees it: reads and writes fail on a broken one |
| `announced`, `dropped`, `view`, `crashed` | history: the last presence event of a user, whether it was dropped because `broadcast` was full, what each peer was told, and which goroutine panicked |
| `HubRegister`, `HubUnregister`, `HubBroadcast` | the cases of the `select` in `Hub.Run` |
| `Connect`, `Start` | `ServeWS`, `client.Start` |
| `ReadError`, `ReadPing`, `SendPong` | `readPump` and its deferred function |
| `WriteBatch`, `WriteError`, `WriterSeesClose` | `writePump` |
| `Notify` | any service that calls `BroadcastToUser` or `BroadcastToAll` |
| `PeerGone` | external: the peer or network |

`register` and `unregister` are unbuffered, so sending on them is a control
point the hub moves the sender on from. The loop over the clients of a
broadcast is one action: its iterations touch different clients, and the pumps
of a client touch only that client, so any interleaving inside the loop is
equivalent to one outside it. `SetPresenceCallback` is never called, so the
default announcement is the only one.

### Friendship, Consent

| model | code |
| --- | --- |
| `rows`, `cache`, `notifs`, `messages` | the tables and the `friendship:<id>` keys |
| `tasks` | goroutines started with `go func()` that will create a notification |
| `pc[p]`, `job[p]` | the handler goroutine: its next statement, its request and the row it has read |
| `issued`, `log` | history: ids ever used; requests made and answers stored |
| `BeginPair`, `BeginById` | a request arrives (`FriendshipHandler`, `ChatHandler`) |
| `Lookup`, `Forget` | `FindBySenderAndReceiver`: SELECT, then DEL of the key |
| `FromCache`, `FromDB`, `Fill` | `FindByID`: GET, else SELECT and SET |
| `Create`, `Save`, `Select`, `Delete`, `Invalidate` | the repository's writes and the DEL that follows them |
| `Purge`, `RunTask`, `LoseTask` | deletion of the request notification and creation of notifications |
| `Insert` | `chatRepo.Create` |
| `Expire`, `Abort` | Redis expiration; an error or the end of the process |

Two facts about GORM shape the model: `Save` updates every column and, if the
row has gone, inserts it again; `First` orders by primary key. Ids are UUIDs,
so the id of a new row may be below or above those of older rows, and
`Create` picks any unused one. A `blocked` status exists in the code, but
nothing ever stores it, so the model leaves it out. Handlers end when a
statement fails (`Abort`), with the exceptions the code makes: a failing Redis
command is ignored (`ClearKey`, `FillKey`, `FromCache`), `SendFriendRequest`
goes on to create a row after any error of its lookup (`Lookup`), and an answer
is announced although the purge of the request's notification failed (`Purge`).

`Consent` is the promise: requests are made by their sender, a friendship
begins in the step in which the receiver accepts that request, and it may end
at any time. `Friendship` implements it with `requests` and `granted` read off
the history and `friends` off the table. The step that is not obvious is
`Save`: it stores a row read earlier, from a cache that may be stale, possibly
over a row that changed or disappeared.

### Payment

| model | code |
| --- | --- |
| `payments`, `role`, `notified` | the rows of `payments`, `users.user_type`, `role_purchased` notifications |
| `bank`, `hooks` | external: the transaction at Midtrans, and webhooks still to be delivered |
| `by`, `heard`, `upgraded`, `missed` | history: which order gave a role, orders a handler was told are paid, upgrades carried out, paid orders whose upgrade failed or which Midtrans gave up |
| `Create`, `Charge`, `StoreAnswer` | `CreatePayment`: INSERT, HTTP call, UPDATE |
| `Poll`, `Ask` | `CheckPaymentStatusFromMidtrans` with its early returns |
| `Deliver` | `HandleWebhook` up to the row it looks up, for a webhook of Midtrans or for any other body |
| `Apply`, `Upgrade`, `Notify`, `Finish` | `updatePaymentFromMidtransResponse` and the answer |
| `UpdateUserRole` | the owner's handler of that name |
| `Proceed`, `GiveUp` | external: the customer and Midtrans |

`CreatePaymentForRole` differs from `CreatePayment` in where the amount comes
from. Amounts are left out, because no statement after the INSERT looks at
them, so both are `Create`. A refused charge, an answer to a poll and a webhook
may have no `transaction_status`, which is stored as pending without a transaction id
(`"none"`). A webhook for an unknown order fails before it writes anything and
is not a step. The row that is read again after the update is only used for
its owner and target, which never change; an error there ends the handler
(`Abort`). The push of the new status over the WebSocket is `Hub!Notify`.

The webhook's route asks for no login, and its handler reads nothing of the body
but the order and the transaction. So `Deliver` takes two kinds of calls: those
Midtrans has in `hooks`, which come again until they are answered, and any other body
about a known order, of which `Budget` bounds the number. What Midtrans really has
is in `bank`, what handlers were told in `heard`, and the two may differ.
`RolesFollowReports` says what the handlers guarantee of the second,
`PaidRolesAreNotForgotten` what they guarantee of the first: whatever else is
stored over a paid order, its role was given, its single update failed, or a
webhook is still to come or was given up. The step to look at is a handler that
ends between the stored success and the upgrade: polls return early then, and only
because a webhook upgrades whatever the row says is the role not lost. That is
what the mutant `Upgrades_Once` breaks.

### Groups

| model | code |
| --- | --- |
| `groups`, `members` | the tables; a soft-deleted group is a row with `deleted` |
| `pc[p]`, `job[p]`, `left` | the handler goroutine: its next statement, its request with what it has read, and how many requests may still come |
| `appointed`, `crossed` | history: who gave whom which role; groups whose administrators changed under a handler that had decided on what it read |
| `CreateGroup`, `CheckSlug`, `Insert`, `AddMember` | `CreateGroup`: the slug loop, the INSERT, the creator's membership |
| `JoinGroup`, `FindGroup`, `GetMember`, `AddMember` | `JoinGroup` |
| `LeaveGroup`, `GetMember`, `CountAdmins`, `Delete`, `Dismiss` | `LeaveGroup` |
| `UpdateGroup`, `FindGroup`, `GetMember`, `Save` | `UpdateGroup`, `UpdateGroupCover` |
| `DeleteGroup`, `GetMember`, `Delete` | `DeleteGroup` |
| `UpdateMemberRole`, `GetMember`, `SetRole` | `UpdateMemberRole` |
| `RemoveMember`, `GetMember`, `GetTarget`, `Dismiss` | `RemoveMember` |
| `Abort` | an error of a statement, or the end of the process |

`AfterMember` is what each handler does with the membership it read. All groups
have the same name here, which is the case the slug loop exists for, so a slug is
the number appended to it. `DuplicateKey` is the unique index: unlike
`IsSlugTaken` it counts groups that were deleted, so creation may be refused
after a search that succeeded. `JoinGroup` ignores an error of `GetMember` and
`LeaveGroup` one of `GetMembers`; both have the outcome the code gives them. No
handler approves a pending member (`UpdateMemberStatus` has no caller), bans one
or deactivates a group; a pending row stays pending in the model too, which is a
disagreement with what the code says (see Findings). The page of 1000
members `LeaveGroup` reads is taken to be all of them.

`GroupsKeepAnAdmin` is why `LeaveGroup` deletes instead of leaving, why nobody
demotes or removes himself and why moderators remove no administrator: after any
sequence of requests that do not overlap at the wrong moment a group whose creator
was admitted has an administrator, although each of these rules sits in another handler.
`crossed` is set only by a step that takes an administrator's role away, or admits the creator,
while another handler of the same group has read a membership and decided on it.

### Account

| model | code |
| --- | --- |
| `row` | the row of one email address in `users`; `deleted` is `deleted_at` |
| `now`, `Tick` | external: the clock |
| `pc[p]`, `job[p]`, `left` | the handler goroutine: its next statement, its request with code and row as read, and how many requests may still come |
| `drawn`, `resends`, `redeemed`, `tokens`, `proved`, `orders`, `raced` | history: when each code was drawn, resends, codes that verified, whether a token was given and the address proved, what was last acknowledged, and whether a row was written back that had changed |
| `Register` ... `UpdateUserRole` | a request arrives (`AuthHandler`, `UserHandler`) |
| `Find`, `FindGoogle`, `AfterFind` | `FindByEmail` or `FindByID` and each handler's checks of the row |
| `Guard`, `AfterGuard` | `AuthMiddleware` |
| `Match` | the SELECT of `VerifyOTP` by address, code and end |
| `Insert`, `UpdateOTP`, `UpdateOTPWithResend`, `Save`, `UpdatePassword`, `Delete`, `Ban`, `Unban`, `SetRole` | the statements that write the row: some columns, or all (`Save`) |

A code is named by its position among those drawn, and a password by the code
that set it. An `UPDATE` does nothing to a row deleted meanwhile, but `Save` then
inserts it, and the conflict on the key makes that an update of all columns,
`deleted_at` included: the account is back. Wrong codes and passwords change nothing. The role is
one the request to register names, as in the code. `proved` says that a code mailed to the address came back, and nothing else sets it.
`GoogleOAuth` takes the address and the Google id from the body of its request and
asks Google nothing, so a row that comes into being through it is verified without
a proof (`NewUser`). What the code does guarantee is about accounts with a password:
`TokensNeedVerification` says that no token is given for one, and that it does not count
as verified, before a code came back - not through `VerifyEmail`, which takes any token,
and not through Google, which is refused for such an address or, when its lookup fails, by
the index. That needs several steps to see.

### Posts

| model | code |
| --- | --- |
| `row` | the post; `media` stands for image and video URLs |
| `cache`, `list`, `count` | `post:<id>`, one list for those of user, group and feed, and the number of posts |
| `pc[p]`, `job[p]` | a request, or the goroutine it leaves behind to upload |
| `wanted`, `raced`, `late` | history: what was last written on purpose, whether a row was written back that had changed, and keys filled too late or not deleted |
| `CreatePost`, `Insert`, `Upload`, then as `attach` | `CreatePost` with the URLs of its JSON body, which need no upload; `CreatePostWithImages`, `CreatePostWithVideos`: the row, the files, and `UpdatePost` by the goroutine; `Notify` is what it says to the user |
| `GetCached`, `Query`, `Fill` | `FindByID` through the cache, for every handler |
| `Save`, `SetCached`, `ClearList` | `Update` of the repository |
| `SelectForDelete`, `Remove`, `Forget` | `Delete` of the repository: only the post's own key |
| `GetList` ... `FillCount` | lists and counts, read through the cache |

`Decoded` is a conversion that matters: `MarshalJSON` writes the URLs of media
as an array and `json.Unmarshal` cannot read an array into the string field, so
a cached post with media is never used. Which row an update starts from depends
on it.

### Notices, Engagement

| model | code |
| --- | --- |
| `notices`, `unread` | notifications of the post's owner, and the cached number of unread ones |
| `rows`, `cached`, `shown` | `likes`, `post_views` and `comments` of the post, the cached number of each, and comments cached by id |
| `score`, `rank`, `expires` | the cached score, the member of the sorted set of the feed, and whether that set has a time to live |
| `gone`, `raced`, `doubled`, `torn`, `late` | history: deleted rows, a deletion that overlapped a save, a like that overlapped the search of another, workers whose sum is not that of the rows, and stale keys |
| `CheckUserLiked`, `Find`, `FindAgain`, `Insert` | looking for a row and making it; `DuplicateKey` is the unique index |
| `FindComment`, `ShowComment`, `Save`, `Select`, `Remove`, `Clear` | reading through the cache, saving whole rows, deleting, and the DELs that follow |
| `CountLikes` ... `StoreScore` | `UpdatePostEngagementScore`, statement by statement |
| `FindNotice`, `CreateNotice` | `SendPostLikedNotification` and those of comments |
| `MarkNotices`, `DeleteNotice`, `ClearUnread` | read marks and deletion, then the DEL of the count |

`Engagement` extends `Notices` and composes the two: it supplies the actions that
create and change notifications. Handlers that look the post up first get it
from a cache that may be stale (module `Posts`), so no request but an edit
or deletion of the post itself, whose races are in `Posts`, depends on `alive`. The boost of new posts depends on time alone and is left out: the
rank stands for the part of the score that the rows make up.

`UpdatePostEngagementScore` ignores the errors of its three counts, and a count that
fails is 0 (`CountRows`). The sum of such a worker is `torn`, as is one that a change of
the rows overtakes while it is being put together; storing a torn sum makes the key
`late`, storing one that is not makes it right again. `RankFollowsRows` therefore
says that every other sequence of changes ends with the right rank. The SET of the score and
the ZADD of the rank are one step. The search for an earlier like
notification reads the newest 1000; the model finds it among all of them.

### EmailQueue

| model | code |
| --- | --- |
| `up`, `flight`, `ready`, `stored` | external: the broker, what was written to a connection and not taken, its queue, and what it has on its disk |
| `client`, `pub[m]` | the publishers' `RabbitMQClient`, and the goroutine that publishes `m` |
| `boot`, `link` | `NewRouter` and the goroutine it may leave to retry, with its connection |
| `consumer`, `inbox`, `holding`, `step`, `owed` | the worker's loop: deliveries, the one in hand and whether its answer can still reach the broker |
| `sent`, `broken`, `dropped` | history: how often each email was sent, which were sent without an acknowledgement, and which were lost on the way to the broker or with it |
| `Connect`, `Start`, `Retry`, `StartAgain` | `initRabbitMQWithRetry`, `EmailWorker.Start` |
| `Ensure`, `EnsureConnection`, `Publish` | `ensureRabbitMQ`, `ensureConnection`, `PublishEmail` |
| `Receive`, `Send`, `SendFails`, `Answer` | the loop of the worker |
| `Accept`, `Store`, `Forget`, `Deliver`, `Down`, `Up`, `Restart` | external: the broker takes a message, stores it, loses one it had not stored, delivers, stops and starts; the server restarts |

`PublishEmail` does not ask for confirmations: without an error the message was written
to the connection, which is when the log says "queued". So `Publish` puts it in
`flight`; what the broker has not taken goes with the connection (`Down`, `Restart`), and
what it has not stored may go with the broker (`Forget`). The queue is durable and the emails
persistent, so what is `stored` survives, and `Kept` gives back everything not
acknowledged. `SendFails` is an error of `smtp.SendMail`: the email was refused, or it was
taken and the last reply or the QUIT was lost; the worker gives it back either way.
`SendMail` has no deadline; that it returns is assumed. The retries with growing pauses
are one step: they end with a connection, or with none when the broker is down.

## 3. Runs

Every property of a passing run has a mutant in `PROJECT.json` that TLC finds
violated under the same cfg.

| run | question | instance |
| --- | --- | --- |
| `hub_two_users` | capacities, privacy, presence converging to the announcements | 2 users, 1 connection each, capacities 1 |
| `hub_shared` | no panic, online list; the hub never blocks, broken links leave | 1 user, 2 connections, capacities 1, fair |
| `friendship_two` | consent, chat, real answers, refinement of `Consent` | 2 users, 2 ids, 2 workers with 2 requests, no failures |
| `friendship_live` | stale entries go away, although commands fail | 2 users, 1 id that the first asks for, 2 workers with 2 requests, failures, fair |
| `groups_two` | authority, an administrator for every group, slugs | 2 users, 2 groups, 2 workers, 5 requests, failures |
| `payment_two` | roles follow reports, paid roles are not forgotten | 2 users, 1 order, 2 workers with 1 payment, poll or foreign body each, any number of webhooks of Midtrans, failures |
| `payment_live` | who paid gets the role | 1 user, 1 order, 2 workers as above, no failures, fair |
| `account_two` | acknowledged changes, codes, tokens, cooldown | 2 workers, 4 requests, clock up to 4, codes valid for 3, failures |
| `posts_two` | late uploads, caches, a deleted post goes | 2 workers, 3 requests and the uploads they start, failures, fair |
| `engagement_two` | one row per user, deleted rows, like notifications, numbers, rank | 1 user and the owner, 2 workers, 3 requests, failures, one stale key or false sum at a time |
| `email_breaks` | emails are kept, not sent twice, not held up; the worker starts | 2 emails, 1 always refused, 3 outages or restarts, fair |

Why these bounds are enough to be interesting. The hub's code tells a first
and last connection of a user from the others, and a full channel from one
with room: two connections and capacities of one reach every such case, among
them a full `broadcast` channel while the hub itself announces, and an eviction
before, while and after the pumps of the same client end. Racing handlers share
one row, so two workers on one id show every two-way race over it, with a cache
that is stale, empty or right; a second request of each lets a race follow an
earlier request. Two ids let the same users have two rows; with one id the users are
interchangeable, and `FirstAsks` in `MCFriendship` lets the first of them ask. In `Payment`, two
workers are the charge answer against a webhook, a poll against a webhook, and
two deliveries of one webhook; the second user and the roles show whether a role
reaches the wrong one. In `Groups`, five requests are a creation, a member who joins, a
change of authority, and two that race over it, and two groups are what the slug search
needs to collide; the search sees a second turn of its loop.

In `Account`, a code is drawn, drawn again while the first is valid, presented,
and meets a ban or a role: four requests, of which two overlap. The clock keeps the order of the code's times:
30 seconds, 5 minutes, 10 minutes (a code), 3 hours, 3 days are 1, 2, 3, 4, 5.
A resend follows another after the first pause and before the code ends, and
may come at the very end of a pause. In `Posts`, three requests are a creation with its upload, an edit or deletion, and
a reader who fills a cache late. In `Engagement`, a row is made, changed and
deleted with one request overlapping; the third reads. `OneStale` in `MCEngagement`
stops a run where more than one key is out of date or one sum false, so that each lost
command, failed count and late fill is met alone, with any overlap. Two likes of one user
are what the unique index, the notification and the numbers are about. In
`EmailQueue`, one email is good and one is bad, and either is in hand, waits or is on its way
while the other moves; three failures let the broker go down again when the server
has not recovered from the first, and again when it has.
Users, roles, groups and workers are interchangeable where the cfg declares symmetry:
no definition names one of them. What the instances cannot show of safety, the
proofs do: they hold for any number of users, connections, ids, workers, orders,
emails and requests, any capacity and any length of codes and pauses.

No run checks for deadlock: a panic ends the process in `Hub`, an email queue
without a worker has nothing left to do, and workers that have used their
budget stop in the others.

### Fairness

* Hub: Go's `select` picks among ready cases at random and serves waiting
  senders in order, and runnable goroutines run. So weak fairness of every
  case and pump step is justified. Reads from a broken link fail because of
  `pongWait`, writes because of `writeWait`. Nothing is assumed of `Notify`,
  `Connect`, `PeerGone` or `ReadPing`.
* Friendship: handlers and started goroutines run; Redis expires keys after
  15 minutes. Nobody has to send a request.
* Payment: handlers run, and Midtrans repeats a webhook until it is answered.
  Each delivery has its own goroutine in the code, so fairness is stated for
  each webhook over all workers.
* Groups, Account, Engagement: none; their properties are safety properties.
* Posts: handlers run and Redis expires keys. Nobody has to send a request, and
  uploads end one way or the other.
* EmailQueue: goroutines run, the broker comes back, takes what it is sent and
  delivers, `SendMail` returns, and sending an
  email that SMTP takes in principle does not fail for ever (strong fairness,
  for each email, when it is in the worker's hands again and again). Nothing is
  assumed about the retries of the start beyond that they go on, as the code
  does.

The liveness properties hold under these conditions and the exceptions they
name: no panic; a pong that waits for a buffer nobody drains (`PongStuck`) keeps
its connection registered; and in `payment_live` no statement fails.

The runs of `Posts` and `Engagement` leave `TypeOK` out in favour of properties
that relate the variables; it is proved for both (`TypeCorrect`).

Several safety properties name an exception by a history variable: `raced`,
`doubled`, `crossed`, `missed`, `torn`, `late`, `broken`, `dropped`. The exception is set in the
step that does the harm - a row written back that changed since it was read, a key filled
with something read before the last write, an update that failed - and the property says that nothing else
does. The exceptions themselves are what the code allows, and are listed below
where a comment or message of the code says otherwise.

### Findings

`hub_ping` is a run that TLC must find violated: "Respond with pong"
(client.go:79) is refuted by an evicted client, whose pong is sent on a closed
channel, a panic that nobody recovers and that ends the process.

Disagreements between the code and what it says of itself that TLC refutes when
the definition is listed for the instance of the run in brackets:

| definition | what is said | what happens |
| --- | --- | --- |
| `Friendship!AcceptedIsNotRejected` (`friendship_two`) | "cannot reject an accepted friendship" (friendship_service.go:167) | accept and reject both read pending, the reject is saved last |
| `Groups!LastAdminLeaves` (`groups_two`) | "If admin is the only admin, delete the group when they leave" (group_service.go:279) | a member still pending is made administrator and leaves: only active administrators are counted, and the group of another one is deleted |
| `Payment!SettledIsSuccess` (`payment_two`) | webhook → success (README.md:223) | a charge answer, an older webhook or an answer without a status that is stored last makes the row pending again |
| `Account!BansLast` (`account_two`) | a ban ends by itself after `banned_until` (README.md:348) | the middleware reads a ban that is over and lifts one set since; a whole-row save of `VerifyOTP` or `VerifyEmail` loses one too |

Others, met while modelling:

* "Webhook Midtrans → payment success → user_type otomatis di-update" (README.md:223):
  when `UpdateUserRole` fails, the error is logged and the webhook answered with 200
  (payment_service.go:561), later polls return early, and nobody repeats it. That is the
  exception `missed` in `PaidRolesAreNotForgotten`; without it TLC refutes the property.
* "Jika diisi, pakai harga dari role_prices" (payment_service.go:75): that is so for
  `POST /payments/role`; `POST /payments` accepts a `target_role` with the amount of
  the request. The webhook's handler does not compare the body with Midtrans
  (payment_handler.go:195 says "no auth"). So what a role rests on is what a handler was
  told, which is how `RolesFollowReports` puts it.
* "Waiting for admin approval" (group_handler.go:356) and "Approve / Ban Member" (README.md:639):
  `UpdateMemberStatus` (group_repo.go:213) has no caller, so a pending member stays
  pending. No property says that this is right; `Status` and `Admission` show it.
* "Google users are auto-verified" (auth_service.go:457): the address and the Google id are
  those of the request's body. An account with a password is not joined to them.
* "OTP email queued successfully" (auth_service.go:203) is logged when the message was
  written to the connection; the exception `dropped` is what may still happen to it.
* `UpdatePostEngagementScore` stores a score although a count failed (post_repo.go:419),
  the exception `torn`.

* `GetOnlineUserIDs` keeps a user whose only connection was evicted (hub.go:118
  against hub.go:51).
* Friends can have a new pending request, because only the first row of a pair
  is looked at (friendship_repo.go:106 against friendship_service.go:68); a
  message can be stored after the friendship ended between the check and the
  insert (chat_service.go:47).
* A post with images and no text is always refused: the handler lets it through
  (post_handler.go:452), the service sees neither text nor URLs. The handler of
  videos adds a placeholder.
* "The feed will naturally exclude deleted posts" (post_repo.go:511): cached
  lists and counts show them until they expire, which is what
  `DeletedPostDisappears` is left with.
* Cached posts with media are never decoded (post.go:121), and an edit that
  overlaps an upload, or starts from an older entry, saves a row without media
  over them. `Save` also brings back posts, comments, likes and profiles that
  were deleted since they were read.
* The sorted set of the popular feed gets a time to live only when it is built
  from the table; after it expired, the first update makes one without, which
  holds only the posts updated since.
* "(only once per user per post)" (notification_service.go:356) is a search and
  an insert, which two requests pass together.
* The email worker ends with its channel. Publishers reconnect, but nobody
  starts a worker again (email_worker.go:44), and if it failed to start after a
  first connection that worked, nobody retries (router.go:82). Emails that
  could not be published are dropped, those SMTP always refuses are requeued for
  ever.

## 4. Proofs

`tlapm` checks all of them to the last leaf, for all values of the constants
that satisfy the module's assumption (channel capacities positive, every
connection has an owner; ids are numbers; constants that stand for absence are
no values).

Every theorem of safety has the same shape: a state invariant (`SafeInv`, or the
name given below) that is inductive by itself and contains the types, and for each
property a formula that is inductive given `SafeInv`. Every action has a lemma of
its own; where many actions only move a worker on, one lemma says what such a step
leaves alone, and the actions that matter are proved one by one. TLC has checked
each of these invariants on the instance of the component's run.

**Hub.** `TypeCorrect`, `HubSurvives` and `OnlineListAgrees` rest on one
inductive invariant: the inner maps hold only connections of their own user
whose channel is open and whose pumps have not left, and the keys of the outer
map are exactly the users announced online. Without the second half of the
first part `HubNeverPanics` is not inductive: it is what makes the `if _, ok`
in the unregister case enough against an earlier eviction.
`NotificationsArePrivate` needs the first half of it, and that the empty user id
is no user. `PresenceArrives` (of `PresenceConverges`) is about two queues one
behind the other. What a connection is going to believe of a user (`Believed`) is
what it was told, then what is queued for it, then what the hub has still to
distribute; delivering a message moves it from one of the three to the next and
changes no belief. `LastPresence` of a concatenation is `LastPresence` of the second
part after the first (`SaidBehind`), which needs the last index of a set of
positions (`LastIndex`, from the well-founded order of the numbers). The invariant
adds what a new connection finds: a connection that is not registered has been told
nothing (`FreshUntold`), and the broadcast channel by itself ends with the last
announcement or has none (`WireAgrees`). Without the latter a connection that
registers between an announcement and its broadcast could learn an older one.

**Friendship.** The obstacle is that handlers act on what they read long ago.
`KnowledgeInv` says that everything anybody holds is vouched for by the
history: a row in the table, in the cache or in the hands of a worker was
asked for by its sender, and if it says accepted was accepted by its receiver;
a worker about to save a verdict holds a row its user may decide; a worker
about to insert a message has seen an accepted row of that pair; a task to
announce an answer has that answer in the history. Every part is monotone in
the history, so it survives any step of anybody else, which is why no bound on
races or failures is needed. `TypeCorrect`, `FriendshipsAreMutual`,
`ChatsAreMutual` and `AnswersFollowDecisions` follow, and
`FriendshipImplementsConsent` uses it to map every `Save` to an `Accept` or
`End` of `Consent`, every `Create` to an `Ask` and everything else to a
stutter or an `End`.

**Groups.** `GroupsInv` says what a worker may rely on at each control point
(`Knows`): the row it read has the creator and slug the table still has
(`Version`), its user was given the role its next write asks for (`Given`), the
numbers below the one it tries are used (`Numbered`), and the id of a group that
is not stored yet is known to nobody else (`Reserved`). None of this is undone
by a step of anybody else, because rows keep creator and slug and never
disappear (`Extends`) and the history only grows; the roles and memberships
themselves may change at any time, and the proof does not need that they stay.
`TypeCorrect`, `AuthorityInherited`, `ChangesAuthorised`,
`SlugsUnique` and `SlugLoop` (together `SlugsSound`) follow; `TypeCorrect` needs the whole invariant, for
`Save` and `Delete` write rows that must exist. `AdminsRemain` adds what a handler relies on
that has decided (`WorkersRely` in `AdminsInv`): as long as nobody has crossed it, some
administrator is left whom its write does not touch. The count of `LeaveGroup` gives that one
because two administrators are two elements of a finite set.

**Payment.** `LedgerInv` says what a worker knows at each control point (`WorkersKnow`):
a status of success in its hands was heard for its order, one that is about to upgrade
or to notify works on an order with a target, one that notifies has upgraded,
and one that is about to answer a webhook of success has upgraded or failed to. The last is
what keeps `PaidRolesAreNotForgotten` when a webhook leaves `hooks`; a worker that ends
anywhere before leaves the webhook where it is. Nothing is said of what the row's
status is, for it may be anything. `TypeCorrect`, `RolesFollow` and
`NoPaidRoleIsForgotten` follow.

**Account.** `SafeInv` says of every row a worker holds what it says of the row in
the table: its code was drawn and ends when that code does, if it has a
password it is verified only if the address was proved, it counts resends if and only if it knows
the last (`Stored`); and what each request may count on where it is (`WorkerOK`).
`TokensNeedProof` (of `TokensNeedVerification`) follows once it is known that a row keeps the way
it was registered and that tokens are only given for a row of Google or a proved address
(`Rightful`). `AcknowledgedChangesStay` needs in addition only that
a save that did not overlap another change writes back the row it found.
`PausesGrow` and `CodesWorkOnce` need facts about the future of codes:
codes on their way to the row are fresh and differ from each other and from
those redeemed (`CodesAreFresh`), and the row counts the resends
(`RowCountsResends`).

**EmailQueue.** An email that was not published is nowhere (`UnpublishedNowhere`),
one that was not sent in vain is in one place at most, of which the connection is one too
(`InOnePlace`), and once it is sent only the worker that is about to acknowledge it still has
it (`SentOnce`). What is stored is with the broker: only an acknowledgement takes it off the
disk, and the broker forgets nothing else. `NoQueuedEmailIsLost` and
`NoEmailIsSentTwice` follow, with lemmas about queues put together and taken apart.

**Engagement.** `SafeInv` has the types, that the tables are finite (they are
counted) and which requests reach which control points. `OneLikeAndView`
(`OneRowPerUser`) rests on the unique indexes alone. `OneNoticePerLiker` needs
that at most one worker is about to notify of a like of a user who was not
announced yet. `NumbersAreTrue` needs no more than `SafeInv`: who changes rows is
on the way to delete the number. `DeletionsLast` needs that numbers of rows are new
(`NumbersAreNew`) and that a deleted comment is still cached only while its deletion
goes on (`DeletionsHold`). `RankIsTrue` needs that the sum in the hands of a worker that is not
`torn` is that of the rows counted so far (`CountsKept`), that whoever changed a row computes
the score once more, and that nobody is about to rank a deleted post (`ScoreKept`).

**Posts.** A row that a worker or the cache holds is a `Copy`: it was read from the
table undeleted, its version is not above the table's, and if it has the table's
version it is the table's row. So a save either changes what is in the table now or
is one that `raced`, which gives `ChangesSurvive` (`AcknowledgedChangesSurvive`).
That at most one worker creates the post (`OneCreator`), and what is known before
there is a row (`NothingBefore`), complete `SafeInv`. `CachesFollow` has one
invariant for each key. Of the count it is not enough that somebody is about to
clear a list, as `CachesFollowWrites` says: only the worker that created the post
goes on to delete the count (`Uncounted`), and an update can leave the count alone
only because copies are never deleted rows, so that a save that changes the number
of posts is one over a deleted row, which `late` remembers.

Every invariant and the refinement that a passing run checks are stated by a
theorem. Only model-checked are the liveness properties: `RegistrationIsServed` and
`BrokenLinkIsUnregistered` of `Hub`, those of the runs `friendship_live` and
`payment_live`, `DeletedPostDisappears` of `Posts`, `BadEmailsBlockNobody` and
`WorkerStartsLater` of `EmailQueue`. They rest on fairness and so on ENABLED, which
is out of the prover's reach. The bugs among the definitions named in section 3 as
findings are shown by TLC's counterexamples, not proved.

## 5. What is not modelled

Formatting, validation of input fields, pagination, JSON (but for `Decoded` in
`Posts`), logging, JWT and password hashing, the SMTP dialogue and Cloudinary calls: no state
protocol of this program depends on them. Postgres statements are atomic and
Redis commands too; isolation below that is theirs. A single server process is
assumed, as in the code: the hub is in memory. Beyond that:

* Role prices are CRUD of one row at a time.
* Profiles are one row per user behind a cache by id that is filled, deleted and
  saved over like that of a post; `Posts` has the same races.
* The rate limiter is a table under one mutex, read and written in one call.
* Likes of comments, lists of comments by parent and lists of notifications run
  the statements of `Engagement` over other keys. Their caches are not all
  invalidated: an edit of a reply leaves the lists above its parent alone
  (comment_repo.go:205).
* Conversations and read marks of the chat are single statements.
* The notification worker is never started (`router.go` has it commented out),
  `ResetPassword` looks for a token nothing stores.

## 6. Plan

Left to prove, in this order:

1. Action properties that the invariants already give: what a step may never do to
   the registry of the hub, to a paid role, to a deleted row, said as steps.
2. The safety half of the liveness properties: what is waited for cannot be lost,
   such as a worker whose request ends only by itself.
3. Abstract promises like `Consent` for the email queue (each accepted email is
   handed over once but for lost answers) and for the presence of the hub (each
   connection hears the announcements of a user in order).

The modules are independent of each other where the code is: what one does with
another's state is an input there (`Notify` in `Hub`, `UpdateUserRole` in
`Payment`, which is `SetRole` in `Account`; `DeletePost` in `Engagement`, which
is `Remove` in `Posts`; `Request` in `EmailQueue`, which is what the handlers of
`Account` do with a code they drew).
