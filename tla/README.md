# platform-core in TLA+

Specifications, model-checking configurations and machine-checked proofs for
platform-core, the identity and workspace service in `src/`. The modules are
translated from the Go code; line references are in `PROJECT.json` (`map`).

## The system

platform-core is one Go process behind several doors: public HTML pages, a JSON
API with bearer tokens, an account hub with its own cookie sessions, and the
login and consent endpoints that Ory Hydra (the OAuth2 server) redirects
browsers to. Every HTTP request is a goroutine. Requests share nothing in
memory: all state is in Postgres, Redis and Hydra, and **no operation uses a
transaction that spans two statements**. So the atomic steps are single
statements, single Redis commands, single calls to Hydra and single mails; what
a request has read may be stale at its next step; and a failing call or a dying
process leaves the effects of the calls before it.

| Component | State | Operations | Talks to |
|---|---|---|---|
| Accounts (`application/identity`) | `users` table; one-time tokens in Redis with TTL | register, verify e-mail, request and confirm password reset, authenticate | mailer; login form |
| Login sessions (`auth_handlers.go`, `sessions_admin.go`) | `sessions` table; login sessions and flows in Hydra | login, consent, list, terminate one, logout everywhere | Accounts (authenticate), Hydra |
| Workspaces (`application/workspace`) | `workspaces`, `workspace_members`, `workspace_invites` | create, invite, accept, list | mailer |
| Org structure (`org_structure.go`) | `org_units`, `positions`, two columns of `workspace_members` | create unit, create position, assign, list | Workspaces (roles) |
| Products (`products.go`) | `products`, `workspace_products` | enable, disable, list | Workspaces (roles) |
| Account hub (`hub_auth_handlers.go`, `hub_session_store.go`) | state cookie, session cookie, hub sessions in Redis with TTL | login, callback, logout, guard | Hydra (as an OIDC client), everything above |
| Bearer guard (`auth_middleware.go`) | none | introspect token | Hydra |
| Start-up (`cmd/`, `config`, `migrate.go`, `di`) | schema and its version, migration lock; OAuth clients in Hydra | load, migrate, connect, listen; register clients | Postgres, Redis, Hydra |
| Connections, mailers, templates, health, profile | none | I/O | |

What makes each correct:

- *Accounts*: one account per address; a mailed link works once, for its own
  purpose and user; nobody logs in unverified; nothing but the owner's link
  changes a row; what a page has confirmed stays true.
- *Login sessions*: only a user's own request ends a login; what was reported
  ended stays ended, in the table and in Hydra; logout everywhere covers every
  session.
- *Workspaces*: one role per member and workspace; authority comes from the
  creator by a chain of invitations; an accepted invitation is closed.
- *Org structure, products*: references stay inside the workspace; every write is
  what somebody asked for who manages the workspace then.
- *Org structure's page*: it shows all that was stored before it was asked for.
- *Start-up*: nobody serves on an incomplete schema; an instance that is started
  again whenever it ended comes up, unless a migration was cut short; repeating the
  client registration completes it.
- *Hub*: a hub session belongs to the subject Hydra named for the code, and to the
  browser whose state came with that code; a login lets in once.

Hard behaviours are listed one by one, at the line where they bite, in
`PROJECT.json` (`hazards`). Most are of four kinds: two requests that interleave
between statements; whole rows written back from stale copies; operations that
fail between two stores; links, challenges and calls that are used twice or late.

## Modules

| Module | Models |
|---|---|
| `AccountBook` | abstract: what accounts and mailed links promise |
| `Accounts` | accounts, tokens, requests; implements `AccountBook` |
| `MCAccounts` + `Accounts.cfg`, `AccountsLive.cfg`, `LostUpdate.cfg`, `FailedSignup.cfg` | instances for TLC |
| `AccountsProofs`, `AccountBookProofs` | theorems about `Accounts`; the refinement of `AccountBook` |
| `Sessions` | login/consent provider, sessions table, Hydra as seen from the handlers |
| `MCSessions` + `Sessions.cfg`, `SharedSession.cfg`, `LogoutAllRace.cfg` | instances |
| `SessionsProofs` | theorems about `Sessions` |
| `Membership` | abstract: how people become members of a workspace |
| `Workspaces` | workspaces, members, invitations; implements `Membership` |
| `MCWorkspaces` + `Workspaces.cfg`, `Ownerless.cfg` | instances |
| `WorkspacesProofs` | theorems about `Workspaces`, with the refinement |
| `OrgBook` | abstract: what the org structure and the product switch promise |
| `OrgStructure` | org units, positions, assignments, products, the page that lists them; implements `OrgBook` |
| `MCOrgStructure` + `OrgStructure.cfg` | instance |
| `OrgStructureProofs` | theorems about `OrgStructure`, with the refinement |
| `HubDoor` | abstract: who the account hub lets in where |
| `HubAuth` | the hub as OIDC client: cookies, callback, hub sessions, guard, logout; implements `HubDoor` |
| `MCHubAuth` + `HubAuth.cfg` | instance |
| `HubAuthProofs`, `HubDoorProofs` | theorems about `HubAuth`; the refinement of `HubDoor` |
| `Startup` | server instances from configuration to listening, migrations, `bootstrap-client` |
| `MCStartup` + `Startup.cfg` | instance |
| `StartupProofs` | theorems about `Startup` |

### How they are built

All modules but `Startup` have the same shape. The variables are the stores (a table is a
function from ids to rows or `None`, a column without a rule is left out) and
`req`, a function from *request slots* to the local state of the request in the
slot: its operation `op`, the call it makes next `pc`, its answer `res` and the
values it has read. `Begin...` actions are the arrivals, with the checks the
handler makes before its first call. Each further action is **one call**,
together with the code up to the next call. A slot is reused after its answer.

- `Abort(r)`: the call the request waits for fails without effect and the
  handler returns the error. A call that took effect and whose reply is lost is
  the call's own action followed by `Abort`.
- `Crash`: the process dies. All active requests vanish, the stores stay. Since
  nothing is kept in memory a restart has nothing to recover.
- `Expire`: a TTL runs out, at any moment. Clocks are not modelled.

`Accounts`. `users` is the table; `minted`, `live` and `sent` are the token
store: what each token was issued for, which keys are in Redis, which links were
handed to the mailer. `redeemed` is a history variable: the tokens a `Consume` found
in Redis. A link that lapsed before it was opened is out of Redis as well, and proves
nothing, so `LoginNeedsProof` asks for a mailed token in `redeemed`. Only a mailed token is ever presented (they are 32 random
bytes). A bcrypt hash is represented by the password it was made from.
`Canonical` is the trim-and-lower-case of addresses. `Load` and `Update` are the
read and the full-row write whose gap causes the lost updates. bcrypt's limit
of 72 bytes is `Overlong`: hashing fails, for a reset after the token is gone.

`AccountBook` has accounts and links and no requests: an account is opened for an
address nobody has, a link is issued for an account, taken once or lapsed, and if it
was taken may change that account once; what fails after the taking wastes it.
`Accounts` implements it (`LinksWorkOnce`) under the mapping `LinkOf`: a link is
*valid* while its key is in Redis, *taken* while the request that redeemed it is
before its write, *spent* after, and *lapsed* when its key went without that. An
account is verified only by a link that was taken. A reset in the book may write an old mark of verification back, as the
stale rows of the code do, and may not make one up.

`Sessions`. `owner` and `live` are Hydra's login sessions and whether they are
revoked; `flows` are its authorization flows from login challenge to followed
redirect; `rows` is the sessions table. Hydra is external, so where its
behaviour is not visible in `src/` the model takes every plausible outcome: a
consent challenge may answer again until the redirect was followed (`Reload`),
a consent request for a revoked login may or may not report its sid, a flow that
began on a live login may go on after the login is revoked. Who may call the
session endpoints is anybody who went through a flow once, since access tokens
and hub sessions survive terminations. The history fields `scope` and `logins` remember
the user's active rows, and for a logout everywhere his logins in Hydra, at the time
a request came: the two differ when `RecordSession` could not store its row.

`Workspaces`. `workspaces`, `members`, `invites` are the tables. `via`, `by` and
`late` are history variables: the invitation a membership came from, the sender
of an invitation, and whether it was already accepted when a request to accept
it came. Anybody holding the link may accept, as in the code (the invited
address is not compared). Slugs are drawn, looked up and perhaps redrawn as in
`CreateWorkspace`.

`Membership` has only who founded a workspace and who is in it with which role.
`Workspaces` implements it (`MembersAreLetIn`) with `founder` from the rows of
`workspaces` and `team` from the rows of `workspace_members`; invitations, their
mails and their closing are stutters. In particular the founder takes his place
before anybody else, although his row is stored by a later statement than the
workspace.

`OrgStructure`. The tables again, with `After` as the order of the look-ups of an
operation: the role first, then what the request refers to, then the write.
Members only join (`Join` stands for the `members.Create` of `Workspaces`, and is
less particular than `Membership` about who lets them in), since no code removes a
member or changes a role. Foreign keys are guards of the
writes (`UnitKey`, `PositionKey`): they demand that a unit exists, of whatever
workspace. Answers are left out, because no property is about them: `Stop` is
every way to end with nothing written. `OrgBook` has the same tables, and *orders*:
who asked for what, in which workspace. One action carries an order out: it demands
that whoever gave the order manages the workspace, checks what it refers to, writes
what was ordered and uses the order up, at once. `OrgStructure` implements it
(`ChecksHoldAtTheWrite`): the tables are the same, and a request that is under way
and no page is an order (`OrderOf`). This is so because whatever a check found, the
requester's role included, stays true. An operation that deletes units
or demotes members, which the code does not have yet, would break exactly this.
The page of a workspace (`Detail`) is a request like the others: it looks up the
reader, then lists members, units, positions and products, one statement each,
while others write; a list that cannot be read is shown as empty, as in the
handler. The history field `owed` is what the workspace had when the page was
asked for, as far as the page has not listed it or failed to.

`HubAuth`. The state is in two places, the cookies of each browser (`stateJar`,
`sessionJar`) and Redis (`sessions`, `live`). A request carries the cookies of
the moment it was sent, and its answer sets cookies when it is delivered
(`Deliver`), after the answers of other tabs, or never (`Abort`, `Crash`). A flow
stands for its state and for its code, both random values. The handler reads the
state and the code of a callback URL as two parameters: it compares the one with the
cookie and exchanges the other, and nothing says that they are of one flow. So
`BeginCallback` takes any state (`States`) and any code (`Codes`) that were handed
out, or unknown ones, in any browser, several times. Hydra is external: `SignIn`
gives a flow its user and its code, which works once. The history field `with` of a
flow is the state its code was exchanged along with. `Forget` is the end of a
cookie's life: 300 seconds for the state cookie, the browser's session for the other.

What then holds is that a browser is served in the sessions and as the users of
logins it *took up*, with a state of its own (`SessionIsOwn`, `PageIsOwn`): a browser
without a login of its own under way takes up nothing. That it began those logins
itself holds where URLs arrive as Hydra wrote them, state and code of one flow; this
is the theorem `OwnLogins`, with that condition (`IntactUrls`) as hypothesis.

`HubDoor` has neither cookies nor sessions: a browser begins a login, somebody
completes it, a browser that has begun one takes the completed login up and is let in
once, and browsers leave one at a time. `HubAuth` implements it (`OneEntryPerLogin`):
a login is taken up by the exchange of its code (`LoginOf`), stays so as long as the
callback that made the exchange is under way (`Carried`), and is used then; a browser
is signed in as whomever the guard would let it through (`GuestOf`). The session itself
is created by a stutter; the answer that brings its cookie is the entry. Of a session
that ended while its cookie was on the way nobody enters, which is why `Enter` may
sign in nobody.

`Startup`. `schema` is what the migrations have done to the database, `version` and
`dirty` are golang-migrate's table, `lock` its advisory lock, `pc` is where each
instance is. The library is external and modelled from its documented protocol:
under the lock, mark a migration as begun, run its statements at once, clear the
mark. A call may fail and a process may die between any two of these (`Fail`,
`Die`), a limited number of times; an ended instance may be started again. `IsFine` is
the test of `migrate.go` that lets `ErrNoChange` pass. `Create` is one
registration of `bootstrap-client`, whose conflict answer counts as done.

Definitions named `Faulty...`, `Unchecked...` or `Strict...` are variants with a plausible
bug. No action uses them; they replace the definition after them in the mutation
runs, which show that each property can be broken by such a bug.

## Runs

All runs but `startup` have two request slots: every interleaving of two requests between
their calls, with slots reused, so any number of requests in sequence, limited by
the ids. Three would only add a third party to conflicts that are pairwise (each
property relates two requests, or a request and a store).

| Run | Instance | Shows |
|---|---|---|
| `accounts` | 2 users, 2 tokens, 2 mailboxes one of which has two spellings, 2 passwords and one that is too short; 729,194 states | `TypeOK`, `OneAccountPerAddress`, `LinkRedeemedOnce`, `LoginNeedsProof`, `ChangeNeedsOwnLink` hold, and the refinement `LinksWorkOnce` |
| `accounts_live` | 1 user, 2 tokens, an overlong password; `FairSpec`; 153,815 states | `RedeemedLinkIsSettled` holds |
| `lost_update` | 1 user, 2 tokens | `OtherFieldIsKept` fails: of a verification and a reset that overlap, the later write undoes the earlier |
| `failed_signup` | 1 user, 2 tokens | `FailedSignupLeavesNoAccount` fails: "try again" cannot succeed |
| `sessions` | 2 users, 2 clients (one trusted), 2 flows, 2 logins, 2 rows, `Reload`; 781,236 states | `TypeOK`, `TerminatedStaysDown`, `LogoutAllCoversScope`, `LogoutAllCoversLogins`, `OnlyOwnerRevokes`, `RevokedBeforeEnded` hold |
| `shared_session` | 1 user, no reload | `TerminateEndsTheSession` fails: rows that share the login stay active |
| `logout_all_race` | 1 user, no reload | `LogoutAllEndsEverySession` fails: a login between the two calls survives |
| `workspaces` | 2 users, 2 workspaces, 2 slugs, 2 invitations, a role name that does not exist; 591,668 states | `TypeOK`, `OneRolePerMember`, `MembershipIsRooted`, `AuthorityIsDelegated`, `AcceptedInviteStaysClosed`, `TeamHasItsOwner` hold, and the refinement `MembersAreLetIn` |
| `ownerless` | the same | `CreatorIsOwner` fails: a half-made workspace |
| `org` | 2 users, 2 workspaces, 2 units, 1 position, 2 product keys of which 1 is registered, 3 requests in all; 966,105 states | `TypeOK`, `ReferencesStayInside`, `PageShowsWhatWasThere` hold, and the refinement `ChecksHoldAtTheWrite` |
| `hub` | 2 browsers, 2 users, 2 flows, 2 hub sessions; 89,892 states | `TypeOK`, `SessionIsOwn`, `PageIsOwn` hold, and the refinement `OneEntryPerLogin` |
| `startup` | 3 instances, 2 runs of `bootstrap-client` at a time, 5 migrations, 2 faults; `FairSpec`; 87,890 states | `TypeOK`, `ServesOnCompleteSchema`, `MigrationsRunOnce`, `ComesUp`, `BootstrapConverges` hold |

*Bounds.* The ids are the bounds. An operation that will need a fresh id starts
only while one is left for it (`TokenToSpare`, `RowToSpare`, `WorkspaceToSpare`,
`InviteToSpare`, `IdToSpare`), so that no request is stuck half way for lack of an id. Two
tokens are what a verification and a reset of one user need at once; two users
are what mixing up users needs; two flows and two rows are two products in one
browser; two invitations are what a cycle of invitations between two people
needs. `OrgStructure` also bounds the requests (`MaxRequests`) and the roles new
members come with (`JoinRole`, a manager's and another): three requests are a
unit, a position and an assignment to both, or two units and an assignment
that mixes workspaces, which is the longest chain of references there is; later
requests would only repeat these on other ids. A page needs one slot and leaves the other
to the writers. In `Startup` five is the number of migrations there are; three
instances are one that migrates, one that waits and one that starts or dies
meanwhile; two faults are a death and a second one during the repair. Symmetry is
used in safety runs only.

*Deadlock* is checked for accounts, the hub and start-up. It is off for sessions, workspaces
and the org structure, where the bounded flows, workspaces or requests can all be
used up with nobody left to call.

*Fairness.* `FairSpec` of `Accounts` says only that a request which is not stopped
makes its next call (weak fairness of `Step(r)`): a goroutine is scheduled and a
call returns. `Abort` and `Crash` stay possible at any time and no arrival is
promised. `FairSpec` of `Startup` says the same of the two programs: one that runs goes
on. That an ended program is started again is *not* assumed, since nothing in the
repository does so (`docker-compose.yml` gives `platform-core` no restart policy); it is
a hypothesis of the properties. `ComesUp` speaks of instances that are not left down for
good, each on its own, and `BootstrapConverges` of an operator who runs the program again
and again. Faults are bounded (`MaxFaults`), so this is coming up once calls succeed;
`ComesUp` excepts the one death nobody repairs, that in the middle of a migration.

## Theorems

All hold for every value of the constants, under the assumptions the modules name:
`None` is none of the values (`NoneAssumption`, `LinkAssumption`, `SeenAssumption`, `OrderAssumption`), canonicalising an
address twice changes nothing (`CanonicalAssumption`), the ids of units and positions
differ (`IdsAssumption`), numbers are numbers (`LatestAssumption`,
`MaxFaultsAssumption`).

| Module | Theorem | Property |
|---|---|---|
| `AccountsProofs` | `TypeCorrect` | `TypeOK` |
| | `UniqueAccounts` | `OneAccountPerAddress` |
| | `SingleUseLinks` | `LinkRedeemedOnce` |
| | `VerifiedLogins` | `LoginNeedsProof` |
| | `OnlyOwnLinksChange` | `ChangeNeedsOwnLink` |
| | `OneWriterIsEnough` | `OtherFieldIsKept`, given `[]OneWriterPerUser` |
| `AccountBookProofs` | `Refinement` | `LinksWorkOnce` |
| `SessionsProofs` | `TypeCorrect` | `TypeOK` |
| | `StaysDown` | `TerminatedStaysDown` |
| | `TerminateIsEnough` | `TerminateEndsTheSession`, where `RowsApart` |
| | `CoversScope` | `LogoutAllCoversScope` |
| | `CoversLogins` | `LogoutAllCoversLogins` |
| | `QuietLogoutIsEnough` | `LogoutAllEndsEverySession`, given `[]QuietLogout` |
| | `OwnRevocations` | `OnlyOwnerRevokes` |
| | `HydraFirst` | `RevokedBeforeEnded` |
| `WorkspacesProofs` | `TypeCorrect` | `TypeOK` |
| | `OneRole` | `OneRolePerMember` |
| | `RootedTeams` | `MembershipIsRooted` |
| | `OwnedTeams` | `TeamHasItsOwner` |
| | `Delegation` | `AuthorityIsDelegated` |
| | `ClosedInvites` | `AcceptedInviteStaysClosed` |
| | `Refinement` | `MembersAreLetIn` |
| `OrgStructureProofs` | `TypeCorrect` | `TypeOK` |
| | `Inside` | `ReferencesStayInside` |
| | `Shown` | `PageShowsWhatWasThere` |
| | `Refinement` | `ChecksHoldAtTheWrite` |
| `HubAuthProofs` | `TypeCorrect` | `TypeOK` |
| | `OwnSessions` | `SessionIsOwn` |
| | `OwnPages` | `PageIsOwn` |
| | `OwnLogins` | `LoginIsOwn`, given `[]IntactUrls` |
| `HubDoorProofs` | `Refinement` | `OneEntryPerLogin` |
| `StartupProofs` | `TypeCorrect` | `TypeOK` |
| | `ServingIsSafe` | `ServesOnCompleteSchema` |
| | `EachMigrationOnce` | `MigrationsRunOnce` |

The arguments have one shape. Nearly none of the properties is inductive as it stands; each
proof module strengthens them to an invariant `IInv` made of what the stores say
of each other and, for every request, of what it may rely on at each `pc`
(`RequestInv`). One lemma per action shows that it keeps `IInv`; the steps of *other*
requests keep `RequestInv` because of the facts that only ever become true, which
`StoresGrow` and `Grown` collect. That is why stale reads do no harm where they do
none.

- *Accounts.* `StoreInv`: stored addresses are canonical, a live token was minted,
  a token is minted for an existing user, a verified account has a redeemed link.
  `RequestInv`: a request past `Consume` holds a token that is gone from Redis, was
  minted for its purpose and its user, and that no other request holds; the row copy
  it writes back has the address of the account and is verified only if the user
  opened a link in its time (`redeemed`). So a stale write can lose a verification, and cannot forge one.
  For the refinement each action is shown to be a step of the book: `RegisterCreate`
  opens, `Issue` issues, `Consume` takes, `Update` changes, and everything else lets
  links lapse, none of them where nothing shows.
- *Sessions.* A row names a login of its own user (`RowInv`), a flow likewise
  (`FlowInv`), and a revoked login never comes back (`Grown`). So what a request
  found to be its user's stays so until it revokes, and what it ended is over when it
  answers.
- *Workspaces.* An invitation is sent by somebody in the workspace. As long as its
  owner is not stored a workspace therefore has neither invitation nor member
  (`RequestInv` at `own`, `OwnersApart`), and whoever joins was invited by somebody
  who was there before him, so no group of members has let itself in (`Rooted`).
- *OrgStructure.* Nobody leaves, no role changes, no unit or position goes away
  (`Grown`), so `Found` lists at each `pc` what the look-ups before it have
  established, that the requester is a manager among it, and `Owes` what the page's
  remaining lists will contain. For the refinement a request is one order from its
  first statement to its last (`OrderGoesOn`), which its end uses up (`OrderEnds`).
- *HubAuth.* "Of this browser" is carried from the drawing of the state to the state
  cookie and the callback (`OwnFlow`), and from the exchange on as "taken up by this
  browser" to the hub session, the session cookie and the page (`TakenBy`,
  `OwnSession`). For `OwnLogins` one fact is added, that each spent code was exchanged
  along with the state of its own flow (`InStep`), which is where the hypothesis
  enters. For the refinement two facts are added (`DoorInv`): a callback past its
  exchange carries a spent code that no other callback carries (`CarriersApart`: the
  code works once) and that its browser took up, and the session it answers with is of
  that code (`CarrierInv`). So the answer of a callback uses up a login that its browser
  took up, and because a session is of a login that one browser took up (`OwnSession`),
  a session that ends signs out one browser at most.
- *Startup.* Whoever is inside `Up` holds the lock, and a clean `version` is the
  `schema`; who is through it has seen the last migration cleared, and no later
  instance finds anything pending. A migration that was marked and not cleared keeps
  `dirty` set, and every later `Up` refuses at `ReadVersion`.

Three properties fail in TLC's runs. The conditional theorems show for each that nothing
but the cause its finding names breaks it, whatever else interleaves, fails or dies:

- `OneWriterIsEnough`: as long as no two requests stand before a write of the same
  user's row (`OneWriterPerUser`), each of them changes its own field only. The proof
  follows the row copy from `Load` to `Update`: another writer of the row would have
  to be between its own `Load` and `Update` at the same time (`RowWriter`).
- `TerminateIsEnough`: where no two rows share a login (`RowsApart`), a termination
  ends every row its list showed of that login. A row keeps its `sid` (`Grown`), so the row
  that was named is the only one there is to end.
- `QuietLogoutIsEnough`: as long as no login of the user is alive when the second
  statement of logout everywhere is about to run (`QuietLogout`), a row that has ended
  is dead in Hydra, always: a termination revokes first, and dead logins stay dead.

Of the fourth, `CreatorIsOwner`, `TeamHasItsOwner` says what is left: a workspace may be
without members, and is never with members and without the owner who made it.

## Model-checked only

Liveness, which is outside the prover's reach: `RedeemedLinkIsSettled`, `ComesUp`,
`BootstrapConverges`. And the counterexamples of the
properties that fail, which are TLC's; `FailedSignupLeavesNoAccount` has no conditional
theorem, since any failing call after the insert breaks it.

## Not modelled

Connections, mailers, templates and the health check are I/O without state of their
own; a mail, and the pings of the connections, are steps of the components that make
them. The wiring (`di`) connects constructors and nothing else. The profile, the
list of somebody's workspaces and the list of sessions are single reads: what they
show is the table at one moment. The bearer guard is one read per request; `Sessions`
has its outcome (`Caller`). Access tokens, scopes, device names, addresses of
clients, the attributes of OAuth clients and all wording are left out. A cancelled
request context is an `Abort`.

## Plan

1. An abstract specification of `Sessions` (logins and the rows that show them), which
   is the one component with concurrent requests that has none yet.
2. Sign-in across modules: `Sessions` and `HubAuth` composed on Hydra's login
   sessions, should the code come to end hub sessions with the login they came from.
   Today neither reads what the other keeps.
3. Removal of members and deletion of units, when the code gets them: they are what
   the stability arguments of `WorkspacesProofs` and `OrgStructureProofs` rest on.
4. Transactions or conditional updates for the operations the violated properties are
   about; with them those properties move to the passing runs.
