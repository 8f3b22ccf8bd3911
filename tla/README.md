# Ivena Meet in TLA+

Specifications of the control plane of Ivena Meet (Rust, Axum, Redis, SQLite,
LiveKit) and of the parts of its React page that decide what the control plane
is asked, checked with TLC and, for the core, proved with TLAPS.

Every handler of the control plane is an async task that goes from one awaited
call to the next: a Redis command or script, a SQLite statement under a mutex,
a call to LiveKit. Between two awaits nothing else of that task happens, but
everything else may: other handlers, expiring keys, a client that hangs up (the
task is dropped where it stands), a call that fails, or one that is carried out
and whose answer is lost. Few unit tests of the repository reach any of this;
it is what the modules are about. In all of the modules of the control plane

- an action is **one awaited call with the code up to the next one**, and the
  label in `pc` names the await a handler stands at;
- `Drop` ends a handler at any await: cancellation, restart, or the `?` of an
  error that undoes nothing. Where the code does clean up, the clean-up is its
  own sequence of actions, each of which can fail or be dropped;
- a failure may hide an effect (the call was carried out, the answer lost);
- time-to-live is a countdown that `Tick` moves for all keys together, or
  (Stage) a clock; the code never reads a TTL as anything but an order of events;
- definitions keep the names of the source where TLA+ lets them.

## 1. Inventory

| component | source | state | operations | modelled in |
|---|---|---|---|---|
| identity: join, lock, session, lease | `routes/room.rs`, `routes/session.rs`, `services/presence.rs`, `services/session.rs` | Redis: identity lock (owner, TTL, last touch), app sessions by token; LiveKit: participant | join with clean-up, leave, host's reclaim, refresh, heartbeat, reconnect, rejoin | `Owners`, `Presence`, `Session`, `Identity`; abstractly `IdentityLease` |
| invitations | `services/invite.rs`, `routes/invite.rs`, `routes/auth.rs` | Redis: tickets, their index per room, redeem tokens | create, redeem, list with pruning, revoke, consumption by join | `Invite` |
| room entry in the browser | `hooks/sidebar/useRoomState.ts` | React state: form, redeem token, invites, broadcast, flags of buttons | host's login check, join, automatic and manual reclaim, leaving, invite and broadcast tools | `HostPage`; a member's join is not modelled |
| chat | `routes/chat.rs`, `services/storage.rs` | message rows, broadcast channel, SSE streams | insert, announce, list, stream (backlog and live part) | `Chat` |
| chat in the browser | `hooks/sidebar/useChatState.ts`, `ChatPanel.tsx`, `Layout.tsx`, `MainStage.tsx` | list of rows, drafts, sends, stream and history calls | submit, retry, merge of five sources, joining, leaving, theatre mode | `ChatView` (and the reader's end in `Chat`) |
| room ingress broadcast | `routes/broadcast.rs`, `services/storage.rs` | start tokens, record of the room, LiveKit ingresses, a background job | issue, start, current, stop, clean-up | `Broadcast` |
| stage permission and moderation | `services/stage_permission.rs`, `routes/moderation.rs`, `routes/session.rs` | grants with leases in Redis, permissions and tracks in LiveKit | grant, revoke, lapse at heartbeat, room tokens, reconnect | `Stage` |
| asking for the stage | `MainStage.tsx` | requests and permissions of each page, messages on LiveKit's data channel | ask, list, decide, announce, drop out | `StageRequest`, on `StageRoom` |
| layout of the page | `Layout.tsx`, `MainStage.tsx` | theatre, chat focus, drawers, fullscreen | buttons, browser events, self-healing effects | `StagePage`, on `StageRoom` |
| session keeping in the browser | `hooks/sidebar/useSessionState.ts`, `Layout.tsx` | timers, stored session, status | heartbeat, countdown, reconnect, check after a reload, signal recovery, leave | `PageSession` |
| agent API and rate limit | `routes/agent/`, `services/rate_limit.rs` | idempotency keys, counters, the agent's cursor | commands, context, events | `Agent` |
| room storage | `services/storage.rs` | rooms with expiry and host | upsert for a host, lookup, clean-up | not modelled by itself; a guard or the environment of the others |
| host login and host session | `services/host_auth.rs`, `routes/host_login.rs` | host sessions | login, refresh | not modelled on the server; the page's use of it in `HostPage` |
| profiles and avatars | `routes/user.rs`, `services/storage.rs`, `useAvatarState.ts` | users, files | upload | not modelled |
| authorisation, plumbing, configuration, clients of LiveKit and HTTP, rendering, deployment | | no state of their own, or third party | | not modelled |

How they interact. A member redeems a ticket (Invite) for a token which its
join consumes; the join takes the identity lock under a claim,
issues a session, and promotes the lock to the session (Identity). All other
requests present the session, and are kept out when it has ended; on the page's
side PageSession sends them and draws conclusions from their answers. Chat and the
agent's commands write the same table and the same channel, and ChatView shows
what comes out of it. Heartbeats and refreshes touch the lock (Identity) and also
notice lapsed leases (Stage). Joins sign room tokens with the grants of the moment
(Stage); a host's page calls the moderation routes and then tells the room
(StageRequest), and the layout follows what is on the stage (StagePage). A host
issues itself a start token and runs an ingress whose record is bound to the room
(Broadcast), from a page that may have been thrown out meanwhile (HostPage). On the
server the components share no key of Redis and no column except the session and
the activity of the room, which the other modules take as guards or as a change
that may come at any time; therefore they are checked one by one. The browser
modules take the server as far as its answers reveal it.

The behaviours that are hard, and what would make each component correct:

- **Identity.** Two browsers join as the same person, one of them with the
  previous session; the promotion fails after the session has been issued; a
  lock goes stale while a reclaim is looking at it; a refresh is half done. At
  most one session must own the identity, a failed join must leave nothing that
  can act, a displaced session must not come back, leases must outlive what they
  protect and nothing else.
- **Invite.** The last use is redeemed twice at once; a revocation meets a
  redemption; an index expires before its tickets. Uses are conserved, a token
  admits once, revocation is final, every live ticket can be found.
- **HostPage.** A call may have had its effect although it failed; a button is pressed
  while the answer to the previous one is on its way, or the hook that made the call
  is gone. No button stays held back, so that a host who keeps trying gets in.
- **Chat.** Writers announce in another order than they inserted; a reader lags
  behind the ring; the session ends while a stream is open; history, backlog and
  live part are three reads of a log that grows. Nothing that was broadcast may be
  skipped in silence, nothing written after the session delivered live, and what a
  connection owes the page gets there.
- **ChatView.** One message reaches the list as an optimistic row, a copy on the data
  channel, an answer, a stream event and a history row, in any order; a retry
  renames a row. One row for each message, no submitted text lost, no own row
  pending for ever.
- **Broadcast.** Two starts, a start and the clean-up job, a stop and a new host, a
  creation whose answer is lost and which is repeated. Tokens pay for starts, nobody's
  broadcast but one's own is stopped, and an expired room comes off the record, but
  not before its broadcast has been ended.
- **Stage.** Record and LiveKit are changed by different calls in either order,
  the record by read, modify, write; leases lapse only when somebody looks, and the
  one who looks must then end what has lapsed.
- **StageRequest, StagePage.** A decision is an API call and then an announcement,
  and either half may fail or come late, while another change overwrites the same
  record; fullscreen is left by the Escape key, by a button, or not at all. An approval holds before it is announced, and the
  layout stays one layout.
- **PageSession.** A countdown, two buttons, a heartbeat and a signal recovery all
  lead to a reconnect; answers come after the page has left or joined anew; theatre
  mode takes the hook away. The countdown is never left behind, the page does not go on
  saying that it reconnects, and a failing heartbeat is followed up.
- **Agent.** Retries while the first call still runs; a counter whose expiry was
  never set; a cursor into a table that others write to.

`PROJECT.json` lists these hazards line by line with the properties that would
catch them.

## 2. The modules

### Identity (with Owners, Presence, Session)

`Owners` names the owner strings of the lock: `Claim(r)` for `join:<uuid>` of a
join in progress and `Jti(r)` for a session's jti. `Presence` has the pure
transitions of the lock (`acquire`, `promote`, `touch`, `release`, the staleness
test, `force_delete`; the Lua scripts are atomic), `Session` those of the store
of tokens, where a token is named by the request that minted it. `Identity` is
the handlers. A variable each for the `lock`, the `sessions`, LiveKit's view
(`active`), and per request `op`, `pc`, the locals of the handler, `bearer`, `owner`,
`seen`, and `failed`: the calls of its clean-up whose errors the code ignores.

| action | code |
|---|---|
| `JoinBegin` … `JoinFinish` | `join_room`: acquire, profile, session, promote, answer |
| `JoinPromoteFails`, `UndoSession`, `UndoLock` | its clean-ups |
| `Look`, `Probe`, `Delete` | the staleness check, `list_participants`, the reclaim, both inside a join and by the host's route |
| `RefreshBegin`, `RefreshStore`, `Touch` | GETDEL of the old token, SET of the new one, touch of the lock |
| `HeartbeatBegin`, `ReconnectBegin`, `LeaveBegin` … | the remaining routes |
| `Tick`, `Connect`, `Disconnect` | time, LiveKit |

`IdentityLease` is what the lock promises without any of that: a holder, and for
each join exactly one attempt to bind. `Identity` refines it with
`holder <- lock.owner`, `spent <- Spent`, where a join is spent once it is past
its promotion.

### Invite

`Invite` has the Lua script of redeem as one action (`RedeemBegin`) followed by
the minting of the token, the three calls of create, the two of revoke, and
list with its pruning, all on absent-or-present records with a TTL.

### HostPage

The hook `useRoomState.ts`, for a host. A call under way is a record in
`calls` that goes through the awaits of its handler: `join` from the login check
to the lookup after it, with the reclaim and the second join an identity in use
makes it go through (`AutoReclaim`); the reclaim button, whose answer goes by the
`joining` of the render it was pressed in; leave, the refresh of the invites, issue,
revoke, start and stop. `hook` has the flags that hold back buttons. The server is
`held`: does LiveKit show the identity? Theatre mode unmounts the hook (`Move`),
whose calls go on without it as far as they change more than the hook (`Orphans`).

### Chat and ChatView

In `Chat`, message ids are 1, 2, … because inserts take the connection mutex. The
channel is the log `bus` of which a receiver may read the last `RingSize` entries; a
receiver that falls behind gets one `Lagged` and goes on with what is left. The
stream lists, subscribes, yields the backlog, delivers what its cursor has not
passed, and checks the session by message and by timer. The page keeps `view`,
loads history, merges the stream, and resyncs after a lag.

`ChatView` is the list of one page. A message is its `client_id`; `Submit` draws
one and shows a pending row, `Post` sends the request once publishing on the data
channel has ended, `Answer` and `Fail` come with or without the row having been
stored, `Retry` sends the text of a failed row under a fresh `client_id`. All
sources go through `Merge` (`mergeMessages`). The layout decides what is mounted:
the composer's drafts go with the ChatPanel, list updates with the Sidebar.
Requests given up by the page may still be stored (`Store`, `Refuse`).

### Broadcast

A start consumes its token, reads the record, asks LiveKit for the recorded
ingress (`Probe`), replaces or reuses, creates, stores. The creation is asked of one
API host after the other (`ApiHosts`: two for an `https` URL) until one answers without
an error, though an error may hide an ingress: an ingress is named by its start and its
attempt. `Replace`, `Forget` and
`StopUnrecord` are the deletes, with the conditions they really have. The clean-up
job (`CleanList`, `CleanDelete`, `Forget`) runs beside the requests as one more
process. The room has one host after another, as `ensure_room_for_host` permits
when it has expired.

### Stage

`record` is the JSON record in Redis, `allowed` and `onair` are LiveKit's. A
moderation reads, resolves, writes, tells LiveKit and mutes; a heartbeat does
the same for lapses; joins and reconnects sign a token with the grants they have
read, which takes effect when the client connects with it. Four *incidents* make
record and LiveKit disagree, and the module marks them with the variable
`incident`: two handlers of the member's grants overlapping, a handler ending
after its write and before LiveKit is told, a connection with a room token that
no longer agrees with the record, and a record that expires with grants in it.
Outside them the two agree; GrantFitsLease holds throughout.

### StageRequest and StagePage

Both are about the scenes of `MainStage.tsx` that are connected, which `StageRoom`
names. `StageRequest` is the `stage.control` topic: a member asks (`Ask`), the host's
page lists (`HostHears`), decides by calling the API (`Decide`, then at the server
`ReadGrants` and `Apply`, two awaits apart) and tells everybody (`Announce`); any of these
may be the last (`GiveUp`, `Drop`), with the server going on alone (`Unheeded`), and the
Sidebar's buttons and lapsing leases take a permission back without a word on the
topic (`TakeBack`). No member has the identity of the host, which the lock of Identity
sees to. The record of each member's grants is read and written as in Stage, whose
leases and whose LiveKit it leaves out. Two history variables say what has become of an
approval that is no longer on record: `undone` (taken back or denied since) and `lost`
(left out by a change that had read the record before).

`StagePage` is the layout of one page over what is published: `StageStep` is a step of
the stage with the effects that follow the media, the other actions are the buttons,
the browser's answers to fullscreen calls, and the Escape key. Who may publish is not
decided there.

### PageSession

A session is a number; `server` says what has become of it. `hook` is
`useSessionState` with its refs, `calls` the calls under way, each marked by what
it is (`beat`, `attempt`, `boot`, `recover`, `leave`, or the `wait` of a timer
whose hook is gone), whose token it carries, the snapshot it will put back, and
whether the hook that made it is still mounted. `joined` and `token` are apart,
because the code sets them apart. `Beat` may happen at any time or never: each render
of the Sidebar restarts the interval.

### Agent

Calls with keys of `SET NX EX`, the INCR and the EXPIRE of the rate limit as
separate calls, a command's effect, its answer, and the two reads of the event
feed against a log other people write to: `Context` starts at the newest row of the
room, `Poll` takes the first `PageSize` of the rows after the cursor, in order.

## 3. What is checked

Each property of a passing run is also checked against a mutant of the module
(an operator marked `Mutant:` before the definition it replaces), which has to
violate it.

| run | checks | shows |
|---|---|---|
| `identity` | `TypeOK`, `FailedJoinCannotAct`, `LeaseFitsHolder`, `DisplacedStaysDisplaced`, `ImplementsLease` | three handlers on a member's identity keep the lease, in any interleaving and with failures anywhere, in clean-ups too |
| `invite` | `TypeOK`, `UsesConserved`, `AdmittedOnceAsInvited`, `RevokedIsGone`, `ListedWhileLive` | four handlers, two rooms, two users |
| `host_page` | `HostTypeOK`, `BusyMeansBusy`, `HostGetsIn` | a host's page with two calls at a time: no button held back by a call that is over, and who goes on trying gets in |
| `chat` | `TypeOK`, `StreamSkipsNothing`, `NothingAfterSession`, `OwedArrives` | one stream and its page against two writers and a ring of one |
| `chat_view` | `ViewTypeOK`, `OneRowPerMessage`, `SubmittedNotLost`, `OwnRowsSettle` | the list of a page with two own messages (or one and its retry) and one of somebody else |
| `chat_retry` | `RetrySafeWrites`, violated | a send whose answer is lost is sent again under a fresh `client_id` and stored twice |
| `broadcast` | `TypeOK`, `OneStartPerToken`, `HostStopsOnlyItsOwn`, `ExpiredRecordGoes`, `JobEndsWhatItForgets` | two requests and the job, two hosts in succession, two API hosts, an ingress of an earlier release |
| `stage` | `TypeOK`, `GrantFitsLease`, `StageAgrees`, `AcceptedEndsLapses` | two host or member calls and the heartbeats on two features |
| `stage_request` | `RequestTypeOK`, `ApprovalBacked` | a member and a host, two open requests, two changes of the record under way |
| `stage_page` | `OneLayout` | the layout of the page of a host or of a member, with the host and two members in the room |
| `page_session` | `TypeOK`, `CountdownShown`, `ReconnectingEnds`, `FailureFollowedUp` | two sessions in succession on one page |
| `agent` | `OncePerKey`, `EventsComplete`, `RefusedNotForEver` | three calls, two keys, a limit of one, pages of one |

`Agent` and `StagePage` state a `TypeOK` as well, for the reader and the proofs; it has
no place in their runs, which have deeper things to check.

Three of the properties are narrower than one would wish, because the code keeps no
more. `FailedJoinCannotAct` allows a join that was answered with an error to act when its
clean-up's revoke failed and its release failed or looked for an owner that was no longer
in the lock; the code ignores both errors. `OneStartPerToken` allows an ingress for each
API host and token, since a creation that failed is repeated whatever it has done.
`JobEndsWhatItForgets` speaks of a row that is still the one the job has read.

### Bounds

- **Requests.** Three handlers on one identity: the races found or excluded here
  need an incumbent, a challenger and one that interferes (a refresh, a reclaim,
  a heartbeat). Four in Invite: a ticket, two redemptions and a revocation or
  join. Two beside the job in Broadcast, and two beside the heartbeats in Stage, since
  an effect there is between a pair. Every request can be any operation.
- **Time-to-live.** `JoinLockTtl = 1`, `SessionTtl = 2`, `RedeemTtl = 1`,
  `InviteTtl = 2`: only their order matters, and a tick may come at any moment.
  `Stage` stops its clock at `MaxTime = 4`, which leaves room for a grant, its
  lapse at `Lease = 2` and a second grant, and for a record that dies
  (`RoomTtl = 3`) before a lease given later.
- **Limits.** One use more than one (`MaxUses = 2`), a ring of one, a page of one,
  a rate limit of one: each is passed in a few steps.
- **Messages.** As many as there are writers in Chat; `MaxOthers` rows of other
  people in Agent. ChatView has two `client_id`s of its own (two messages, or a
  message and its retry), one message of a peer and one history call: a row changes
  places with at most one other.
- **Sessions of a page.** PageSession joins twice (`Sessions = 2`), so that answers
  of the first session meet the second, with `MaxCalls = 2` calls under way.
- **Calls of a page.** `MaxUnderWay = 2` in HostPage: a call and one that overtakes it.
  `RequireInvite` is FALSE there: the form is shown at once, which allows all that
  the other value does.
- **Asking for the stage.** One member beside the host with two features, two open
  requests (`MaxOpen = 2`), and two changes of its record under way (`MaxCalls = 2`):
  approvals of both features overlap, and a decision overlaps a `TakeBack`. The host
  lists one request (`MaxListed = 1`), so that the list is cut. Grants of different
  members are different records, and a decision changes only the page it is for, so that a
  second member would add messages nobody heeds.
- **The layout.** The host and two members: the page shown, and somebody else of either
  kind. At most one fullscreen call of each purpose is under way.
- `Broadcast` names an ingress for each start and each of `ApiHosts = 2` attempts, as many
  as the code makes.

`CHECK_DEADLOCK FALSE` stands where the system, with the numbers of its bounds used
up, may really stop: in Chat, ChatView, Broadcast, Stage and Agent all requests can
have been answered, with nothing left to expire; in PageSession, StageRequest and
StagePage a page may be where nothing is left to do. Identity, Invite and HostPage
check deadlock.

### Fairness

Safety needs none. For liveness:

- `HostPage`: every call ends (weak; the HTTP client gives up after 12 s), a host who is
  out keeps asking for the host form and pressing Join, not every call of a kind
  fails (strong), and what held the identity goes at some time (weak).
- `Chat`: the server's task of a stream runs (weak). Nothing is assumed of writers, of the
  page, or of connections, which may break at once or live for ever.
- `ChatView`: publishing ends and every post is answered or given up (weak). Neither the
  stream nor the history is assumed to work.
- `Broadcast`: the ticker loops for as long as the process lives (weak), and neither
  LiveKit nor SQLite refuses the job the same call for ever (strong). Nothing is assumed
  of requests.
- `PageSession`: every call ends (weak), by an answer or by the HTTP client giving up, and
  a countdown that nothing stops runs out (strong only because the bound on calls, not
  the code, may keep the attempt from starting). No heartbeat need ever be sent: theatre
  mode sends none, and each render of the Sidebar restarts the interval. None need
  succeed.
- `Stage`, `StageRequest` and `StagePage` have no liveness property and assume nothing:
  that a lapsed grant ends is stated of the heartbeats that are accepted
  (`AcceptedEndsLapses`), because nothing makes a page send any.
- `Agent`: a call that does not end runs on, and Redis expires what has a TTL.

## 4. What is proved

Eight modules of proofs, each for every value of the constants its component's named
assumptions allow. All state `Spec => []Inv` (or `Spec =>` an action property or
the refinement), from an inductive invariant stronger than what is wanted.

| module | theorems | the inductive invariant says in addition |
|---|---|---|
| `IdentityProofs` | `TypeCorrect`, `FailedJoinIsHarmless` (`FailedJoinCannotAct`), `DisplacedSessionStays`, `IdentityImplementsLease`, `LeasesFit` (`LeaseFitsHolder`) | where owner strings, jtis and sessions come from; for the last, what a lease and a session have left of their time |
| `InviteProofs` | `TypeCorrect`, `RevocationIsFinal`, `AdmissionIsSingle`, `NoUseTwice` (`UsesConserved`), `TicketsAreListed` (`ListedWhileLive`) | which creation a ticket belongs to, which redemption a token; which uses are charged and not yet minted; what a pruning listing may still remove |
| `BroadcastProofs` | `TypeCorrect`, `StopsOnlyItsOwn`, `JobEndsBroadcasts` (`JobEndsWhatItForgets`), `TokensPayForStarts` (`OneStartPerToken`) | whose start a record names, what a stop or the job has read and ended; an injection from starts to tokens, by cardinalities |
| `StageProofs` | `TypeCorrect`, `GrantsFitTheirLease`, `RecordAndRoomAgree` (`StageAgrees`), `LapsesEnd` (`AcceptedEndsLapses`) | what a handler has read or written; what LiveKit may still have while the one handler under way stands at each await |
| `AgentProofs` | `EffectIsSingle` (`OncePerKey`), `EventsAreComplete` | at most one call is at work under a key, and it has not had its effect; a feed stays within the log |
| `ChatProofs`, on Chat | `TypeCorrect`, `NothingSkipped`, `NothingLate` | rows and channel entries are bounded, where a stream's cursor stands between them |
| `ChatProofs`, on ChatView | `ViewTyped` (`ViewTypeOK`), `ViewShowsOnce` (`OneRowPerMessage`), `ViewLosesNothing` (`SubmittedNotLost`) | of which message a row with an id may tell; whose text a row shows |
| `StagePageProofs`, on StageRequest | `RequestTyped` (`RequestTypeOK`), `ApprovalsAreBacked` (`ApprovalBacked`) | a decision that is applied, and an approval on the wire, are backed; the host's list has no id twice |
| `StagePageProofs`, on StagePage | `TypeCorrect`, `LayoutStaysOne` (`OneLayout`) | which layouts effects leave |
| `StagePageProofs`, on HostPage | `HostTyped` (`HostTypeOK`), `HostBusyMeansBusy` (`BusyMeansBusy`) | only joins are retries; an unmounted hook has no calls |
| `PageSessionProofs` | `TypeCorrect`, `CountdownIsShown` | what a hook and the calls it made owe each other |

The argument in `IdentityProofs`, as an example. `TypeOK` is inductive by itself, the
others are not. That a failed join leaves nothing that can act depends on who could
have put the lock in its name, or its session back, after its clean-ups; so the
invariant has to say where owner strings and jtis come from. `IInv` is the
conjunction of

- `TypeOK` and `OpAtPc`, which awaits belong to which handler;
- `LockOwnerIsSpent`: the lock bears the jti of a join only once that join has tried
  to promote;
- `SessionLineage`: a live session with some jti is that of the join which issued it,
  or descends from it by refreshes after the join had succeeded;
- `OwnerLineage`, `OwnerAtPc`: a request works under its own claim, its own jti, or
  the jti of a join that was answered with success;
- `CleanedUp`: a join that is past the revoke of its clean-up has lost its session or the
  lock, but for the calls that have failed (`failed`).

`InvInit` and `InvStep` show it inductive; the latter goes through the actions with
one lemma for each shape of step (`ArriveInv` for a request that begins, `MoveInv`
for one that only moves on, `AcquireInv`, `IssueInv`, `BindInv`, `RefreshStoreInv`,
`EnvironmentInv`). The refusal to regain an identity follows from `NewOwner`, the
list of the steps that can change whose name is in the lock. The refinement goes
action by action over `IInv` and `IInv'` (`LeaseStep`). `LeasesFit` adds `LeaseInv`:
no session has more time than it was issued for, only joins and refreshes issue one,
and the lease covers a session as soon as its handler has seen to the lock; again
one lemma for each shape of step (`KeptLease`, `RenewedLease`, `TakenLease`,
`IssuedLease`, `AgedLease`).

The other modules are laid out the same way: lemmas on the operators, one on each
shape of step, then the invariance and the theorems. In `StageProofs`, `AgreeInv`
carries agreement through the awaits of a handler: before its write the two sides
agree and it holds what is on record; after it, what LiveKit has beyond the record is
what the handler is about to mute. In `BroadcastProofs`, `Paid` counts starters
against tokens issued by adding one to both or to neither, so that nothing need be
assumed finite; the bound on ingresses follows from it, attempt by attempt.

The proofs about ChatView are the second part of ChatProofs, those about HostPage the
last part of StagePageProofs, which share lemmas with the rest. Those modules EXTEND all
of their components, so `ViewInit`, `ViewNext`, `ViewTypeOK` of ChatView, `RequestInit`, …
of StageRequest and `HostInit`, … of HostPage have names of their own; the
specifications of such a module have nothing to do with one another.

`OneRowPerMessage` is not inductive by itself: a stored row may arrive next to a row
renamed by a retry that bears its id. `VInv` says which rows there may be (`RowFits`:
a row with an id is the row of that id, or an own row with the same text as the
stored message of that id) and which go together (`Apart`: beside the row of a stored
message none has its id). `MergedFits` shows that a merge keeps both, and that what
it drops is a row of the same message or of a text the server has; so
`SubmittedNotLost` follows from `Kept`, which the other sources of loss, a history
answer and leaving, enter into `erased`.

`BusyMeansBusy` needs three things of `HInv`: that no call but a join is a retry, so that
the end of another cannot take the call behind `reclaiming` away; that a mounted hook's
call takes its flag down when it ends; and that with the hook off the page no call is
anybody's (`place = "off"`), so that the next hook does not start with calls of the
last. `OneBegins`, `OneGoes`, `OneOff` and `OrphansLeft` say what the four changes of
`calls` do to who runs.

`EventsAreComplete` rests on `FirstOf`: the first n of the rows after a cursor, put
behind those up to it, are the rows up to the last of them, by counting.

Every safety property that a passing run checks is stated by one of these theorems.
Only model-checked are the liveness properties: `HostGetsIn`, `OwedArrives`,
`OwnRowsSettle`, `ExpiredRecordGoes`, `RefusedNotForEver`, `ReconnectingEnds`,
`FailureFollowedUp` (liveness under fairness and ENABLED are beyond the prover), and the
properties of section 5. `TypeOK` of Agent has neither run nor theorem of its own, that
of StagePage a theorem. There are no RECURSIVE
operators in the project's modules, and where a proof is about a sequence sorted or
filtered, it is a member of a set (`InOrder`), not the result of a recursive library
operator.

## 5. Where code and documents disagree

One disagreement has a run, `chat_retry`: the README calls writes retry-safe, and a
message whose answer is lost is stored a second time when it is sent again. It is
the finding of `PROJECT.json`.

Further promises the code does not keep are stated at the end of their modules under
"What the code does not keep"; they have no run of their own:

- `ReclaimEndsSession` (Identity): a reclaim revokes a jti where a token is wanted,
  and the displaced session lives on.
- `NoHoleInView` (Chat): a message between the backlog's query and the subscription
  is in neither, and the cursor passes it.
- `EveryIngressOnRecord`, `CleanUpSparesActiveRooms` (Broadcast): an ingress whose start
  was dropped before it stored its record, or whose creation was repeated, is on no
  record and is never ended; the job deletes the record of a room that has come back.
- `DuplicateMeansDone` (Agent): a command that failed after its key was claimed is
  answered as a duplicate of a success.
- `LeftStaysLeft`, `StaleAnswersSpare`, `EndFollowedUpAlways`, `LiveSessionKept`
  (PageSession): the answer to a reconnect brings back a room the page has left, or takes
  it out of the next one; a failure noted after leaving keeps the end of the next session
  from being followed up; a check after a reload that fails for any reason throws the
  session away.
- `ApprovalKept` (StageRequest): two approvals for one member at once leave one of them on
  record, and both are announced.
- `TakenBackShown`, `PendingAnswerable` (StageRequest): a member's page goes on offering
  what was taken back, and goes on waiting for an answer nobody can give any more.
- `CaptureNotFullscreen` (StagePage): a page in fullscreen may start to share, and none
  of its buttons leaves fullscreen then.
- `OneJoinAtATime`, `HostStaysHost` (HostPage): a reclaim that answers enters beside a
  join pressed since; an issued invite turns the host's form into a member's.

Weaknesses the models contain and no document promises otherwise: a session is lost
when a refresh ends between GETDEL and SET or its answer gets lost (`RefreshBegin`);
a join is refused when the lock became free between acquire and look (`Look`); a
reclaim may delete a lock taken after it looked (`Delete`); a redeem script spends the
use before the token exists (`RedeemBegin`, `RedeemMint`); a ticket whose creation
stops before EXPIRE lives on unlisted (`CreateBegin`); a join answered with an error whose
clean-up failed leaves a session and a lock (`failed`); `Replace` ignores an error of
delete_ingress and leaves the ingress to LiveKit; two changes of a member's grants
lose one another's work, and the four incidents of Stage leave LiveKit out of step
with the record; a counter whose first call ended before EXPIRE refuses its address
for good (`untimed`). In the browser: a late history answer replaces newer rows and
drops unsent ones (`erased` in ChatView); a late copy on the data channel makes a
stored row of a peer pending again; a failure that comes after the stream has
delivered marks a stored row as failed; in theatre mode without the control drawer
nothing sends heartbeats or reads the stream, because the hooks are unmounted with
the Sidebar; a second press of leave may throw the page out of a room it has just
joined anew; the tools' answers for a room that was left are shown in the next one.
Seen in the source and in no module: a member's page keeps a redeem token the server has
consumed or let expire and prefers it to redeeming again (`useRoomState.ts:284`), so that
only a reload helps a member who keeps pressing Join.

## 6. What is not modelled

- **Room storage** (`ensure_room_for_host`, `get_room_active`): each is one transaction
  under a mutex whose outcome is a comparison of one row with one request; the
  modules have the outcome as a guard (`Broadcast`'s succession of hosts).
- **Host login and host session on the server**: a check of a code or signature
  followed by one or two calls. The page never calls `refreshHostSession`, though a
  text of the Sidebar says the session is auto-renewed.
- **Profiles and avatars**: an upload reads the old URL, writes a file of a fresh name,
  upserts the row and removes the old file, while a join writes back the URL it read
  (`routes/room.rs`): a join that overlaps an upload can leave the row naming a
  removed file, and two uploads an orphan. No other modelled state depends on it.
- **Scope checks** of a bearer against a room and a role are guards of the modelled
  operations where they depend on modelled state, and left out where they are a
  comparison of a request with itself.
- **Data**: token formats, TOTP, hashing, validation, image decoding, the SSE parser,
  wording, logging, CSS, and the vendored LiveKit API have no state the properties
  speak of. Muting somebody's microphone is a call to LiveKit with no effect on the
  control plane. Host fail-over of the LiveKit client is modelled for the
  creation of an ingress; the other calls can be repeated without another effect. Chat's
  other rooms are filtered by a comparison and appear only in Agent, where ids skip
  over them.
- **A member's join on the page**: one redeem and one join, whose effects Invite and
  Identity have; of the page's part, whether a member who keeps trying gets in depends
  on reloads (section 5).
- **Of the page**: the composer inside the Sidebar, which is never shown; the second of
  the two Sidebars the control drawer mounts for its breakpoints, which does the same
  as the first; copies batched into one render, of which the code sees the last
  (ChatView's `CopyLost` covers the loss); what the lookup of an ingress answers
  (HostPage leaves it open).

## 7. Plan

Done, in this order: identity, invitations, chat, broadcast, stage, agent; then the
page: chat list, session keeping, stage requests and layout, host page; then the
proofs of section 4. What would come next:

1. `Avatar`: upload, join and clean-up script over one row and a set of files.
2. Host sessions, should the page come to refresh them: the same GETDEL and SET as app
   sessions.
3. A refinement of StageRequest's `granted` by Stage outside its incidents, so that
   approvals and leases are in one statement.

## Running

    tlc -workers 2 -config Identity.cfg MCIdentity
    tlc -workers 2 -config Chat.cfg Chat
    tlapm IdentityProofs.tla

`PROJECT.json` names module and configuration of every run; Identity and Invite have
an MC module, which defines their symmetry. Runs take from two seconds to three minutes
(`broadcast` the longest), proofs from ten seconds to a few minutes each.
