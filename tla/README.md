# A formal model of arenode

arenode is a multi-tenant control panel, written for Node.js, PostgreSQL and Redis, that stands between
customers and a CDN (a "CDNFly" upstream). It sells plans, charges a wallet, creates and deletes sites at the
CDN on behalf of customers, turns sites off when a quota is exceeded, inspects them, and backs up and restores
its own database. This directory keeps TLA+ modules of its concurrent core, TLC configurations that check them
on small instances, and TLAPS proofs that hold for every value of the constants.

Paths are relative to the repository (`src/…` is the implementation, `doc/…` and `test/…` its documents and
tests). `PROJECT.json` maps every definition to the lines it stands for.

1. [The system](#1-the-system)
2. [Modules](#2-modules)
3. [Runs](#3-runs)
4. [What the runs found](#4-what-the-runs-found)
5. [Proofs](#5-proofs)
6. [Assumptions and what is left out](#6-assumptions-and-what-is-left-out)
7. [Plan](#7-plan)

## 1. The system

### How it is concurrent

A process is one Node.js event loop: a handler runs alone between two `await`s and is interleaved with every
other handler at each of them. Any number of processes share one PostgreSQL database, one Redis and one S3
bucket. Three kinds of mutual exclusion are used, and much of the code runs under none of them:

* **row locks** of a transaction (`PostgresDatabase.transaction`, `src/db.js:76`): everything that moves money;
* **advisory locks** with a name (`withAdvisoryLock`, `src/db.js:101`), taken without waiting: changes of one
  customer's resources (`withResourceMutation`, `src/resource-mutation.js`), the billing scheduler, the worker
  of operations and its queue;
* **a session lock** kept for the life of a process (`src/operations-lease.js`), shared by servers and taken
  exclusively by a restore.

The CDN takes part in no transaction: it can be slow, fail, or carry out a call without answering it.

### Components

| Component | Code | State | Operations | Depends on | What makes it correct |
|---|---|---|---|---|---|
| Advisory locks | `db.js`, `resource-mutation.js` | slot counter of a process, PostgreSQL's lock table, tokens in the asynchronous context | lock, reenter, refuse, release | PostgreSQL sessions | one owner per name; a slot is always given back; a late callback never trusts an old token |
| Wallet, orders, recharge codes | `wallet.js`, `billing-api.js` | `wallets`, `wallet_transactions`, `orders`, `recharge_codes`, `recharge_code_uses` | adjust, recharge, buy, renew, change plan, refund | row locks | the book explains the balance; no lost update, double charge, refund or use |
| Subscriptions and scheduler | `billing.js`, `billing-api.js` | `subscriptions`, `orders`, `user_plan_acquisitions`; what a pass has scanned | purchase, stack, assign, renew, change, cancel, refund, edit, the pass, `enforceUser` | wallet, quota | paid time is kept; no period is charged twice or early; what has ended is settled |
| Quota and policy holds | `billing.js`, `site-inspection.js`, `app.js`, `admin-api.js` | `sites.enabled`, `quota_suspensions`, `site_policy_holds`, the CDN's switch | suspend, restore, PUT, isolate, release | CDN, advisory locks | an isolated site stays off; a quota turns off what exceeds it and restores only that |
| Operations | `operations-service.js`, `s3-backups.js`, `operations-lease.js`, `server.js`, `operations-api.js` | `operations_jobs`, `operations_restore_state`, S3 objects, lease, flags of the process | queue, work, back up, retain, restore, recover, drain, stop | S3, `pg_dump`/`pg_restore`, advisory and session locks | a restore runs alone; revived credentials are never served; no job runs twice; the queue is worked off |
| Sites | `app.js`, `admin-api.js`, `tenant-proxy.js`, `cdnfly.js` | `sites`, the sites at the CDN | POST, recovery of a POST, DELETE | CDN, advisory locks, quota | a site belongs to whom it was made for; one POST makes one site; limits; what is left behind is bounded by what failed |
| Accounts | `auth-service.js`, `account-service.js`, `registration-security.js`, `security.js`, `email-policy.js` | pending registrations, resets and e-mail changes, invitations, cooldowns of addresses | register, reset, change address, close, disable | mail, cache | a code is good once and for so many tries; an invitation has its uses; a verified address was proved |
| Login, sessions, second factor | `app.js`, `mfa.js`, `admin-security.js` | challenges, sessions, failure counters, recovery codes | log in, challenge, revoke | accounts | a challenge is completed once; a recovery code is used once; a revoked session is not served |
| Redemption codes | `redemption.js` | codes, uses, plans a customer has had, subscriptions | create, edit, redeem | subscriptions, row locks | uses are counted and bounded; a plan sold once is given once; a destroyed code stays so |
| Recovery of sites | `recovery.js` | lost sites, claims, challenges, activations | import, challenge, prove, activate | DNS, CDN, subscriptions | a site goes to who proves all its domains, once, within one plan |
| Customer groups | `customer-groups.js`, `customer-group-reconciliation.js` | mapping customer → CDN group, history | find or create a group, reconcile, clean | CDN, advisory locks, cache | a customer has one group in use; nothing that is served or used is removed |
| Streams | `tenant-proxy.js`, `data-proxy.js` | rows of streams with snapshot, switch and ports; the CDN's streams | create, update, delete, refresh | CDN, groups, advisory locks | what is billed is what is served |
| Cache and rate limits | `cache.js` | Redis values and generations, memory, loads under way | get, load, invalidate, claim, count | Redis | nothing older than the last invalidation is served |
| Resources in shared accounts | `tenant-proxy.js`, `resource-ownership.js`, `compat-path.js` | rows that say whose a CDN resource is | translate and forward | CDN | a customer sees and changes only what it owns |
| Values of resources | `tenant-proxy.js`, `site-profiles.js` | snapshots of certificates, credentials, access lists, sites | create, change in part, list | CDN | parts that belong together stay together; no secret is kept or shown |
| CNAME targets | `tenant-proxy.js` | name on the row of a site | complete, write | CDN | a target is the site's own and stays |
| Defaults and local groups | `user-compat.js`, `user-defaults.js`, `db.js` | defaults by scope, groups | edit, apply, migrate | sites, streams | precedence; the row says what the CDN has |
| Upstreams and routing | `upstreams.js`, `upstream-api.js`, `billing-api.js` | accounts and packages, plans and subscriptions bound to them, clients of a process | edit, bind, probe, route | – | everything is asked for where it is, with the credentials of now |
| Monitoring and job proxy | `data-proxy.js` | remembered log entries, rows of jobs | narrow, filter, send jobs | CDN, ownership | no row of another customer |
| Settings, mail, client address | `settings.js`, `config.js`, `mailer.js`, `request-ip.js`, `operations-settings.js`, `brand.js`, `validation.js` | one row per setting | edit, encrypt, send | – | single statements |
| Page fetching | `inspection-fetch.js` | – | fetch | network | address checks |
| Web client | `public/js` | what a page shows, and what it waits for | ask, draw, save | the API | a late answer is not shown or saved as something else |
| Scripts | `scripts` | – | – | – | – |

All are modelled, wholly or in part, but for settings and mail, page fetching and scripts (section 6 and
`PROJECT.json`).

### How they meet

* A change of a resource takes `resource-mutation:<user>`, calls the CDN, writes the row and, before it
  answers, calls `enforceUser`, which expires subscriptions, decides whether the customer is over quota and
  suspends or restores sites. `enforceUser` is also called by the scheduler and at the end of purchases,
  without that lock; restoring takes it, suspending does not.
* A pass of the scheduler (`processLifecycle`) works through rows it has scanned once; each automatic renewal
  is a transaction of its own on wallet and subscription, while customers buy, renew and cancel.
* A refund takes its order, then the subscription or upgrade it was for, then the wallet; a purchase of traffic
  takes the wallet first. The orders differ, so PostgreSQL's deadlock detection is part of the design.
* A restore stops the billing scheduler, drains the requests of its process, makes sure no other process is
  alive, overwrites the database, and leaves a marker by which the next start knows what it must revoke.
* Every GET of the CDN goes through the cache, whose generation a write of the same process or another ends. A write that
  is not answered ends nothing, which is why groups, streams and log queries must live with old lists.
* Several customers share an account of the CDN, which knows nothing of them: whose a resource is says only a row of
  `tenant_resources` or `sites`, and every query is narrowed on the way there and on the way back.
* Streams need the hidden group of their customer, sites and streams take defaults and local groups, both are created
  at the account and the package of their subscription, and all of that may change while the CDN is awaited.

### What is hard

Interleavings of handlers at every `await`; rows scanned before and written after somebody else's change;
two resources (the database and the CDN) that no transaction spans; unanswered calls that were carried out; the
process dying between any two statements; old answers from a cache; several processes that learn of a change at
different times; counters and queues at their limit; retries of what has already been done; pages whose answers come
when the customer has gone on. Each hazard is listed, at its line, in `PROJECT.json` with the properties that would catch it.

## 2. Modules

| Module | What it is | Composes |
|---|---|---|
| `Mutex` | abstract: a keyed mutual exclusion | – |
| `AdvisoryLock` | the locks of `db.js` and `resource-mutation.js`, await by await | `M == INSTANCE Mutex` |
| `Ledger` | abstract: balances and an append-only book | – |
| `WalletTx` | the transactions that move money, row lock by row lock | `L == INSTANCE Ledger` |
| `Subscriptions` | subscriptions, scheduler passes, `enforceUser` | – |
| `MoneyProofs` | theorems about this and `WalletTx` | `MCSubscriptions`, `WalletTx` |
| `Quota` | suspension and restoration of sites next to PUTs and the inspection | uses the lock as `Mutex` gives it |
| `LocksProofs` | theorems about this and `AdvisoryLock` | both |
| `Operations` | queue, worker, backups, restore, processes | – |
| `OperationsProofs` | theorems about it | `Operations` |
| `Sites` | creation, recovery and deletion of sites at the CDN and in the table | uses the lock as `Mutex` gives it |
| `SitesProofs` | theorems about it, and about `MCConfig` | `Sites`, `MCConfig` |
| `Accounts` | codes that are mailed, invitations, challenges of a login | – |
| `Recovery` | claims of the sites of a lost upstream | – |
| `Redemption` | redemption codes next to purchases and administrators | – |
| `CustomersProofs` | theorems about these three | `MCCustomers` |
| `Cache` | generations, memory, joined loads, commands to Redis | – |
| `Groups` | a customer's hidden group at the CDN | the cache as `Cache` gives it: the latest list, or one that no answered write has ended |
| `Streams` | streams, their rows and ports, and the reconciliation | EXTENDS `Groups` |
| `CdnProofs` | theorems about these two and `Cache` | `MCCdn` |
| `Scoping` | what a customer is shown of a shared account | – |
| `Resources` | whose the numbers of a shared account are | – |
| `Fields` | partial updates of resources whose parts must fit | – |
| `Defaults` | defaults and local groups, what is made with them, their migration | – |
| `Cnames` | the targets of sites, from records in several forms | – |
| `Routing` | which account and package a plan, a subscription and a site belong to | – |
| `Upstreams` | accounts, the clients each process keeps for them, probes | – |
| `UpstreamsProofs` | theorems about both | `MCUpstreams` |
| `Monitor`, `Pages`, `Lists` | three pages of the web client and their late answers | – |
| `TenancyProofs` | theorems about these and `Scoping`, `Resources` | `MCTenancy` |
| `MCLocks` | `AdvisoryLock`, or `WalletTx` with one customer | both |
| `MCWalletTx`, `MCSubscriptions` | constants and bounds of these two | |
| `MCCustomers` | `Accounts`, `Recovery` or `Redemption` | the three |
| `MCCdn` | `Cache`, or `Streams` with `Groups` | both |
| `MCTenancy` | `Scoping`, `Resources`, `Monitor`, `Pages` or `Lists` | the five |
| `MCConfig` | `Fields`, `Defaults` or `Cnames` | the three |
| `MCUpstreams` | `Routing` or `Upstreams` | both |

`Quota`, `Operations` and `Sites` are instantiated by their cfg alone.

**Sums.** `MCLocks`, `MCCustomers`, `MCCdn`, `MCTenancy`, `MCConfig` and `MCUpstreams` check several modules that share no state in one
run: a variable chosen at the start says which of them takes steps, and the others stay as they were. The states of such a run are
the sum of those of its parts, each part is explored as it would be alone, and a property is the conjunction of what is said of each.
Since only one part goes on, a symmetry may exchange the values of all parts together.

**Faults.** Definitions whose names end in `Bug` are altered forms of the definition after them, kept to show that the
properties notice such a change; nothing else refers to them. So are `NoLock` and `StillCached` (`Groups`) and `UnlockedRefresh`,
`NoMerge`, `NotReferenced` and `Overlooked` (`Streams`). `PROJECT.json` lists one for each property of a run; where a property has several
parts, the further ones break the others: put in place of the definition after it, each ends in a violation of its run.

### AdvisoryLock

A call of `withAdvisoryLock` or `withResourceMutation` is an element of `Call`. `pc` says which `await` it is
at, `active` is the counter of `db.js:102`, `holder` is PostgreSQL's lock table, `locks[c]` is the map of the
`AsyncLocalStorage` context the call was made in. `Nest` is a call awaited inside another's callback, `Detach`
a call made by a timer left behind in it, `Bypass` the reentrant path of `resource-mutation.js:7`. `Admit` and
`Refuse` are the test of the counter, `Acquire`/`FailTry` the answer of `pg_try_advisory_lock`, `FailConnect`
a failed `connect`, `EndCallback`, `Unlock`, `Release` the nested `finally`s, `Crash` the end of the process.
`OwnerMap` maps it to `Mutex`: the owner of a name is the call whose callback runs under its own lock.

### WalletTx

A transaction is an element of `Tx`. `LocksOf` is the sequence of row locks its statements take, in the order
of the code, with the mode PostgreSQL gives each (`FOR UPDATE`, an `UPDATE` of a row not locked before, the
`KEY SHARE` of a foreign key); for a refund it depends on what the order was for. `Acquire` takes the next
lock, reads the row (`seen` for a balance, which the code computes with later) and makes the check the code
makes there (`Passes`): the code is usable, the order refundable, the balance covers it. `Commit` makes all
writes visible at once: balance and book (`ChangeBalance`), order (`Ordered`), code (`UseCode`). `Reject` is
the rollback after a failed check or a violated unique index, `DeadlockAbort` PostgreSQL's, `Abort` any other
failure, `Disable` the administrator's single `UPDATE`. `Ledger` has only balance and book: one entry at a time,
charged and refunded once, codes used at most as often as they may.

### Subscriptions

Time is counted in days. `sub` is the table, `orders` and `gifts` are the histories. The requests (`Buy`,
`Stack`, `Assign`, `Renew`, `ChangePlan`, `SetAuto`, `Cancel`, `Refund`) are transactions or single statements
and so single steps. Three things are not: a pass of `processLifecycle` (`StartPass` scans; `RenewPays`,
`RenewSkips`, `RenewThrows`, `RenewFails` and `PassExpire` handle one scanned row each, from the row as it was
scanned where the code does), a call of `enforceUser` (`Open`, `Decide`, `Write` are its `SELECT`, its decision
about a subscription and its late `UPDATE`), and an administrator's edit (`EditRead`, `EditWrite`). Whether
the wallet covers a price and whether a customer is over quota are left open.

### Quota

One subscription, its sites, the CDN's switch (`up`), `sites.enabled`, the open rows of `quota_suspensions`
(`row`) and `site_policy_holds` (`held`), and the customer's lock. An actor works on one site at a time: the
call of the CDN (`CdnOk`, `CdnFails`), the statement on `sites` (`WriteSite`), the statement on the row that
records it (`WriteRow`). `suspend` enters without the lock, `restore` and every request with it
(`MayEnter`); a PUT goes on to `enforceUser` under the lock it holds.

### Operations

`proc` has the flags of a process (`server.js`), `work` where its `tick` is, `req` a request it serves, `lease`
the session locks, `worker` and `queue` the two advisory locks of operations. A backup is two objects; what it
contains is the table of jobs and the fact that it holds credentials. A restore is `Verify`, the safety backup
(`Dump` … `BackupDone`), `Upgrade`, `Drain`, `Mark`, `Overwrite`, `Revoke`, `CancelJobs`, `Record`, `Unmark`,
`Finish`; `Abort` is the `finally` that gives up. `Boot`, `ReadMarker`, `Recover` are the start, `Sigterm`, `Stop`,
`Exit` the shutdown. `StepFails` makes any step fail and follows the code's `catch` and `finally`; `Crash` ends a
process anywhere. `Init` starts in the middle of a life: a backup exists, made while another job was queued, and
two jobs wait, so that a restore that brings open jobs back is a few steps away.

### Sites

`cdn` has the sites there are and were, `row` the table, `call` what a request is doing. `Create`, `Insert`,
`Posted`/`Refused`/`Unanswered`, `Read`, `Decide`, `Register`, `Succeed` are the path of a POST; after an
unanswered one the code reads the list of sites three times and adopts the site, fails, or posts once more
(`cdnfly.js:270-330`); `Arrives` is the POST that is carried out late. `Undo` deletes the row. `Delete`,
`DeleteAtCdn`, `DeleteRow` are the deletion. `StatementFails`, `ReadFails`, `DeleteUnanswered` and `Crash` are
the failures. The customer's handlers hold the customer's lock where the code takes it; an administrator's
POST and the customer's DELETE (`app.js:817`) do not.

### Accounts

A code is a number; `token` has the rows that hold codes, by address, by customer or by challenge, and `log` what has become of each
code. A request asks (`AskRegistration`, `AskReset`, `AskChange`), claims the cooldown of the address, stores the row and mails the code
(`Mailed`, or `MailFails`, which deletes the row and gives the cooldown back); or it presents a code (`Present`, `Wrong`), in a transaction that holds the
row it read, and does what the code is for (`ConsumeInvite`, `CreateUser`, `ResetPassword`, `ConfirmChange`, `CompleteLogin`). `CloseAccount` and
`SetStatus` take codes back with their customer; `Expire` and `CoolEnds` are the clock; `Fails` is a rollback.

### Recovery

`rec` is the imported list, `index` the domains it is found by, `claim` the challenges, `local` the new rows of sites. `ImportRead` and `ImportWrite`
are an administrator's import, next to edits at the upstream. `Verify` takes what is to be looked up, `Lookup` asks the DNS domain by domain, `Lock`,
`Grant` and `Activate` are the transaction: the row is read again under its lock and compared with what was looked up (`SameCode`, `SameDomains`), the one
recovery plan of the customer is found or given, its limits are counted, and the site is given away.

### Redemption

`Redeem` locks a code, `LockUser` the customer; `RedeemPlan` gives a plan, or finds that a plan sold once was had already and then destroys the code if
the plan says so; `RedeemExtra` adds something to a plan in force. `Buy` and `Bought` are a purchase, which locks only the customer. `AdminRead`,
`AdminPut`, `AdminDelete` write from a row that was read without a lock.

### Cache

A read asks Redis for the generation (`Read`, `Generation`), looks into the memory of its process (`Lookup`), joins a load under way or starts one, asks the
store in Redis (`Fetched`), loads (`Load`) and stores what it has under the generation it began with (`Saved`). A write (`Write`, `Done`, or `Lost` when it is not
answered) ends the generation: in memory at once, and in Redis by INCR (`Invalidate`, `Bumped`). `Execute` is Redis, which answers the commands of a
connection in order; `Drop` loses a connection and `Health` finds it again, with an invalidation published late. `Claim`, `Release` and `CooldownEnds` are
the cooldown of mails. The histories `away`, `returned` and `tangled` say what each read may rely on: `SeesAll` is stated while no process has
been without Redis, `SeesOwn` while the numbers of a process are new.

### Groups and Streams

`Ensure` is `ensureCustomerUpstreamGroup`: read the mapping, try the lock, poll if it is held, find by name, POST, find again when the POST was
not answered, remember what the mapping replaces, write it. `Streams` extends it with a customer's requests (`BeginCreate` … `Remove`, under the resource lock),
each a sequence of calls of the CDN and statements on row and ports, `CutShort` between any two; and with the pass: it finds the groups it needs,
reads the rows, writes each stream into its group, takes rows of streams that are gone away after looking twice, and removes old groups that no stream refers
to. The list of streams it looks at may be any that no answered write has ended.

### Scoping and Resources

`Scoping`: `site` has owner, account, number and domain of each site; the CDN counts for a domain what any wildcard or subdomain overlaps. An action is one
query: it narrows the request (`DomainOwned`, `IdsIn`, `ScopePorts`), takes one of the forms of answer (`Answers`: tagged rows, rows of the whole
account, one row without a tag) and filters it; `shown` is what remains. Jobs are sent to the account that serves their target. Queries about ports
take several steps, while streams are created and deleted.

`Resources`: a slot is kind, account and number; `cdn` says who made it, `row` whose it is said to be. `Create`, `Update`, `Delete`, `Look` translate the numbers of rows
(`ByLocal`, `RefsOf`), name slots at the CDN (`sent`), and write rows after the answer (`SaveCreate`, `SaveUpdate`, `Remove`, `Show`), while other requests do the same. `RulesWrite`
uses the platform's rules; `SyncDomains` and `ShowDomains` are the domains of sites.

### Fields

A resource is a record of the fields the customer has given so far; `cdn` is what the CDN has merged, `snap` the copy on the row without the secrets. `Clean…` are the
functions that complete and check a partial update against that copy (`sanitizeCertificateInput`, `sanitizeDnsApiInput`, `sanitizeAclInput`,
`normalizeSiteWriteInput`), `Remarked` keeps the customer's remark. Two requests may overlap and answers may be lost; the history `apart` is true
while neither has happened, and `FitsAtCdn` is about those behaviours.

### Defaults

`config` has the defaults by setting and scope, `group` the local groups, `row` and `cdn` the values of one site or stream. A creation reads the defaults
(`ApplyDefaults`), and writes row and CDN in the order of its way (`single`, `batch`, `stream`); `BeginUpdate` … `Regroup` move it. Groups and
defaults change meanwhile without a lock. `Restart` is the migration that every start runs.

### Cnames

A form says in which fields of a record the CDN puts the name, its host, its suffix or the number of the suffix; `forms` is how this CDN answers lists and
details. `Extract`, `Complement`, `PreferFull`, `Combine` are the functions of the code; `BeginList`, `Sync`, `Detail` write what they found on the row if
it differs from the row as it was read.

### Routing and Upstreams

`Routing`: the pair of account and package on plans, subscriptions and sites, `home` where a site really is. `Start` and the `Migrate…` steps are the first start after an
upgrade, `Adopt` gives sites without a subscription one, `Crash` ends them anywhere. `CheckPlan`/`SavePlan`, `CheckPurchase`/`Begin`, `CheckOff`/`TurnOff`,
`CheckHide`/`Hide`, `CheckMove`/`Move` are requests that check first and write later; `Sync` records the packages an account has.

`Upstreams`: a process finds a client by account, second of the last change and package (`Key`), and builds one if there is none (`Take`); an update (`Read`, `Save`,
`Clear`) forgets the clients of its own process only. A probe is a request whose end is counted (`Counted`) and written on the row.

### The web client

`Monitor`: queries carry the number `state.monitorRequestId` had when they were sent, and an answer with another number is dropped (`Awaited`). `Pages`: what is open, whose
configuration and whose form values are in the one state that all late answers write to; `sent` are the saves. `Lists`: one field says which kind the table, the dialog and every request is about;
`Found` is the platform's lookup by kind and number.

## 3. Runs

| Run | Instance | Distinct states | What it shows |
|---|---|---|---|
| `locks` | 3 calls, 2 names, 2 slots, 1 process; or 3 transactions of one customer | 133,687 | mutual exclusion however calls nest, reenter or are left behind; the counter is exact; no lock outlives its call; `Mutex` is implemented; nobody waits for ever |
| `wallet_tx` | 3 transactions of any kind, 2 customers, 1 single-use code, prices 0 and 1, balances to 2 | 135,724 | the book explains the balance, orders agree with the book, codes are used within limits, `Ledger` is implemented |
| `subscriptions` | 1 subscription, 2 plans (one sold once); 2 passes, 3 orders, 1 gift, time to 2; or 1 pass, 1 call of `enforceUser`, 1 edit, 2 orders, time to 1 | 961,461 | paid time is kept, a grace period belongs to the end it follows, no early or double charge, a plan sold once is had once, what has ended is settled |
| `quota` | 2 sites, scheduler, 1 request at a time, 2 requests, 1 failure | 306,530 | isolated sites stay off; over quota everything is turned off; within quota every suspension closes |
| `operations` | 2 processes, queue of 2, 5 jobs, 4 backups, retention 1, 1 failure | 271,628 | a restore runs alone, revived credentials are not served, jobs run once, backups in use are kept, the queue is bounded and worked off |
| `sites` | 2 customers, 2 domains, 2 requests at a time, 2 creations, 3 failures, limit 1 | 353,773 | no customer gets another's site, one creation makes one site, limits hold, leftovers are bounded, requests end |
| `customers` | `Accounts`: 2 names, 2 addresses, 3 requests, 3 codes; `Recovery`: 2 customers, 2 sites, 2 requests, 1 event; `Redemption`: 2 codes, 1 plan, 3 requests | 355,497 | what may be used a number of times is used no more often; a password, an address or a site goes to who has proved it; what is settled stays so |
| `cdn` | `Cache`: 2 processes, 3 reads, writes or claims, 1 lost connection; `Streams`: 2 requests and the pass, 2 streams, 1 lost answer | 2,449,800 | what is read is not older than it may be; groups are few, streams are in them, billed is what is served; nothing live is removed |
| `tenancy` | `Scoping`: 3 sites, 2 streams, 2 accounts, 2 changes; `Resources`: 2 customers, 2 requests, 2 made; `Monitor`, `Pages`, `Lists`: 1 session, late answers | 391,403 | nobody is shown or names what is somebody else's; no late answer is shown or saved as something it is not |
| `config` | `Defaults`: 2 settings, 2 values, 1 group; `Fields`: 4 kinds of resource, 1 request; `Cnames`: 2 sites, 2 lists | 2,387,916 | the closest default is taken and rows say what the CDN serves; halves that must fit do; secrets and names are kept |
| `upstreams` | `Routing`: 2 plans, 2 subscriptions, 1 site, 2 accounts; `Upstreams`: 2 processes, 1 account watched, 1 change of its secret | 1,025,544 | plans, subscriptions and sites agree on their account, whatever cuts the migration off; clients sign with the credentials of now |
| `paid_expired` | 1 subscription, 1 pass | – | a counterexample (section 4) |

**Why the bounds are enough to be interesting.** Each is the smallest at which every action fires and every
altered definition is caught. Three calls are needed for a token to be inherited, outlived and replaced, and two
slots for one of them to be refused. Three transactions give rings of two and three and a refund that races
another refund of an order made by the third; a code of value 2 with a top balance of 2 makes both ends of the
range bind. Three orders let a purchase and two renewals be refunded in any order, and times from 0 to 2 let a subscription
of one or two days be in grace and be paid late. Two creations with one failure each are what it takes for two
customers' POSTs for one domain to be recovered at the same time; `Sites` was also run once with three creations
and two failures (2.4 million states). In `Operations` one failure
is one of: a failed step, a crash, a SIGTERM; a dump with an open job is there from the start. Three requests let a code be claimed, replaced and
presented twice. A site of each customer, a site beside them in the same account and one in another are what a filter can
confuse. Three reads let a load be joined, overtaken by a write and joined again. The bounds are the
constants named `Max…` (and `MaxBalance`, `QueueLimit`, `SlotLimit`, `Limit`, smaller than in the code), all in
guards of the modules.

**Symmetry** is used where a run has no liveness property, among values that no property and no initial state tells apart.

**Deadlock.** Calls, requests and transactions are made a bounded number of times, and clocks, orders and failures are bounded, so a run of the
model may stop where the system would go on; every cfg has `CHECK_DEADLOCK FALSE`, and progress is stated by liveness properties.

**Fairness.** Always weak fairness of what has begun, never of what a user may or may not do:

* `locks`, `Step(c)` of `AdvisoryLock` and `Step(t)` of `WalletTx`: the event loop resumes what has been answered; connections and
  upstream calls have timeouts; statements are answered, and PostgreSQL resolves each ring of waiting transactions. A failed connect is not fair.
* `subscriptions`, `PassStep(p)`: the scheduler's `setInterval` makes passes for ever (`billing.js:148`).
* `quota`, `GoOn(a)` and the scheduler's `Tick`: as above. Requests and failures are finite, so that the lock is
  free for good after some time, and weak fairness suffices for `restore` to get it.
* `operations`, `Work`, `Life`, `Serve`, `PassEnd`: the worker's timer, timeouts of S3 and child processes, and a
  supervisor that starts a process that has ended (`compose.yaml`, `restart: unless-stopped`).
* `sites`, `GoOn(c)`: calls of the CDN time out.

## 4. What the runs found

* **`paid_expired`** (`billing.js:564`), a run that is expected to end in a violation: a pass scans a lapsed subscription, its customer renews it,
  the pass expires it by identifier. `doc/ARCHITECTURE.md:71` says that renewing extends the plan.

Three more configurations end in a violation; they are kept beside the runs.

* **`MCRefundRevives.cfg`** (module `MCSubscriptions`; `billing-api.js:295`): refund the order of a plan (its subscription is cancelled), then the
  order of a renewal of it: the status is set from the end date alone and the cancelled subscription is in force
  again. Both payments have been given back. `doc/DEPLOYMENT_CHECKLIST.md:30` says entitlements go with the money.
* **`MCQuotaRace.cfg`** (`Quota`; `billing.js:412`): `suspend` holds no lock. It has chosen a site, the customer turns the site off
  and closes its suspensions, `suspend` records its own: when the quota recovers, `restore` turns on what the
  customer had turned off (`doc/BILLING_COMPATIBILITY.md:15`).
* **`MCSitesAdminRace.cfg`** (`Sites`; `admin-api.js:207`): an administrator's POST counts sites without the customer's lock; with a
  POST of the customer at the same time both pass the limit (`doc/ACCOUNT_ADMIN.md:51`).

**Where a property holds under an assumption only.** Each row is a constant of a configuration; with the other value TLC ends in a violation
of the property, for the reason given.

| Module | Constant | Property | What happens |
|---|---|---|---|
| `Operations` | `MaxJobs = 7`, `MaxBackups = 6` | queued and running jobs together within the limit | two processes start from one marker; the second cancels also what the first has queued since and is about to run, others are queued in its place, and the first runs its job all the same (`operations-service.js:12-22`, `:61-63`, an UPDATE without a condition on the status): one open job more than the limit of `:34-36`. Found by the attempt to prove it; `QueueBounded` states what is true |
| `Defaults` | `Upgraded = {1, 2}`, `MaxGroup = 2`, two names | `NextStartWorks` | the migration moves a default to the group of its name that already has one of that setting; the unique index refuses it, and every later start fails the same way (`db.js:204`; `test/tenant-proxy.test.js:99-100`, `README.md:185`) |
| `Groups` | – | `OneGroup` | a POST that was not answered and a list that does not yet show it: a customer has two hidden groups (`customer-groups.js:83`; `README.md:32`) |
| `Streams` | `AdminReq = {b}` | `BilledFollows` | the administrator's PUT takes no lock (`admin-api.js:335`; `resource-mutation.js:1`, `README.md:109`) |
| `Cache` | – | `ConnectedSeesOwn` | a process that had lost Redis raises the generation by itself; when it is back, entries made under one number before and after another process's write meet, and that process, which never lost Redis, is shown what it has itself replaced (`cache.js:54`, `:77`; `doc/API_CAPABILITY_MATRIX.md:57`) |
| `Fields` | – | `HttpsAsAsked` | a request that turns HTTPS off without naming a certificate is accepted and the whole object is left out, also when HTTPS is on (`tenant-proxy.js:942-945`; the comment `:940-941` speaks of a site where it is already off) |
| `Routing` | – | `SoldStaysOn` | an upstream package is switched off between the check and the write of a request that puts a plan of it on sale (`doc/ARCHITECTURE.md:34`) |
| `Routing` | `Orphan = TRUE` | `RoutesSound` | a site that an older version left without a subscription is given the one in force and that subscription's account, wherever the site is (`billing.js:164-168`; `doc/ARCHITECTURE.md:31`) |
| `Cnames` | `Odd = TRUE` | `FieldsSound` | the CDN answers the suffix where the name belongs, or mixes numbers and whole names: a complete name on a row is replaced (`tenant-proxy.js:420`; the comment `:211-213` says the last complete one is kept) |
| `Upstreams` | `Apart = FALSE` | `ClientsSound` | two changes of an account within one second: the client of the first is kept (`upstreams.js:169`) |
| `Pages` | `Patient = FALSE` | `LateAnswersHarmless` | a site is opened while another's details are under way (`site-detail-view.js:190-207`, `:370`) |
| `Resources` | `Alike = FALSE` | `RequestsOwn` | the rules all accounts share have other numbers in another account, and the number of the account a row was first seen in is sent (`tenant-proxy.js:849`, `:855`) |

**Met while modelling.** `enforceUser`'s late `UPDATE` puts a subscription back in force that was
cancelled or expired while it awaited the CDN (`billing.js:404`; action `Write` in `Subscriptions`); an automatic renewal
proceeds after the customer turned it off, from the scanned row (`billing.js:556`); an administrator sets
the end back to one that was already renewed, the key of that renewal is found again, and every pass takes the
subscription for renewed (`billing.js:512`); a crash between the `UPDATE` of `sites` and the
`INSERT` into `quota_suspensions` leaves a site off that nothing restores (`doc/ARCHITECTURE.md:134`); the sites
of an expired subscription are not suspended by what expires it (`doc/ARCHITECTURE.md:74`); a row in state `provisioning`
whose process died is never cleared (`app.js:743`); a site that the CDN deleted without answering can no longer be
deleted by its customer (`app.js:819`); two customers can create the same domain at the same time (`app.js:734`). More is said of each module in
section 6.

## 5. Proofs

The theorems hold for every value of the constants that satisfies the named assumptions of the modules (`ConstantsAssumption`, `QuotaAssumption`, `SubAssumption`,
`NoneAssumption`, `GroupsAssumption`, `StreamsAssumption`, `NoRowAssumption`, `RoutingAssumption`, `ClientsAssumption`, `ScopingAssumption`, `PartsAssumption`, `CacheAssumption`, `FieldsAssumption`, `ConfigAssumption`): bounds are natural numbers, what is counted is
finite, `None` is none of the values it stands beside. Two assume more, because the code does: `Operations` has a queue of at
least two jobs, keeps at least one backup and names enough backups for its jobs (`MaxBackups >= MaxJobs - 1`). Where a theorem needs a further hypothesis,
section 4 has the behaviour that breaks the property without it.

Each proof has one shape: an invariant `IInv`, of named parts, that holds at the start and that every action keeps (one lemma for each action
or kind of action), and from it the property. TLC finds each `IInv` to hold on the instance of the component's run. What is said below is why the property is not
inductive alone. A theorem has the form `Spec => []Property` where the table does not say more.

| Module | Obligations | Theorem | Property |
|---|---|---|---|
| `LocksProofs` | 892 | `TypeCorrect` | `TypeOK` |
| | | `SlotsNeverLeak` | `SlotsExact`: whatever fails, the counter is exact and within the limit |
| | | `HoldersStaySound` | `HoldersSound`: `HolderLive` and `BypassCovered` |
| | | `Exclusion` | `MutualExclusion`: two callbacks under one name are under one lock |
| | | `ImplementsMutex` | `Spec => MutexSpec` |
| | | `HoldsStand` | `QuotaSpec => HoldsSound`: a hold is left only by a release, and nothing but that turns a held site on |
| `MoneyProofs` | 2797 | `TypeCorrect` | no balance leaves its range |
| | | `Locks` | `LocksCompatible` |
| | | `Explained` | `BookSound` |
| | | `Settled` | `OrdersSettled`: charged once, given back at most once and in full |
| | | `Codes` | `CodesSound` |
| | | `ImplementsLedger` | `Spec => LedgerSpec`: every commit is a step of `Ledger` or none |
| | | `PaidTimeIsServed` | `PaidTimeSound`: paid time is kept, a grace period belongs to the end it follows |
| | | `ChargesStaySound` | `ChargesSound`: no period is charged twice, or too early |
| | | `PlansHadOnce` | `PlansOnce` |
| `OperationsProofs` | 4101 | `RevivedStaysUnserved` | `RevivedUnserved`: credentials that a restore brought back are not served |
| | | `RestoreStaysSound` | `RestoreSound`: a restore runs alone, and keeps the backups it needs |
| | | `JobsStaySound` | `JobsSound`: one job at a time, none twice, and a bounded queue |
| | | `MarkerIsAccounted` | `Spec => MarkerAccounted`: a marker goes only when its restore is recorded |
| `SitesProofs` | 6032 | `OwnersStay` | `OwnerSound`: a site belongs to whom it was made for |
| | | `CreatesStaySound` | `CreatesSound`: one POST makes one site, within the limit |
| | | `SuccessHasSite` | `Spec => SuccessMeansSite`: what is answered with success is there |
| | | `LeftoversStayFew` | `LeftoversFew`: what failures leave at the CDN or in the table is no more than the failures |
| | | `DefaultsStaySound` | `MCSpec => []DefaultsSound`: what is made with defaults has those that are arranged, and rows say what the CDN serves; no hypothesis |
| | | `FieldsStaySound` | `Odd = FALSE`: `MCSpec => FieldsSound`: parts fit at the CDN, remarks stay, secrets are gone, and a whole target stays on its row |
| `UpstreamsProofs` | 1405 | `RoutesStaySound` | `RoutesSound` |
| | | `ClientsStaySound` | `ClientsSound` |
| `CustomersProofs` | 3828 | `UsesAreCounted` | `MCSpec => []UsesCounted`: codes, invitations, redemption codes, plans sold once and recovery plans are used as often as they may be, and exactly counted |
| | | `NothingWithoutProof` | `MCSpec => [](AddressProved /\ R!ClaimsProved)`: no address and no site without its proof; no hypothesis |
| | | `MailedProofsStand` | `MailInTime`: `MCSpec => []ProofsStand` |
| | | `SettledStaysSettled` | `MCSpec => SettledForGood`: given sites and destroyed codes stay so |
| `CdnProofs` | 6645 | `OneGroupInUse` | `MCSpec => [](TypesOK /\ GroupsFew /\ PassGroups)`: one group in use, few others, and after a pass every stream of a row in it; no hypothesis |
| | | `StreamsStaySound` | `AdminReq = {}`: `MCSpec => []StreamsSound`: what is billed is served, beside that |
| | | `UsedGroupsStay` | `MCSpec => InUseKept`: no group in use is removed; no hypothesis |
| | | `NothingLiveGoes` | `AdminReq = {}`: `MCSpec => NothingLiveRemoved`: nor the row of a stream that the CDN serves |
| | | `CacheStaysSound` | `MCSpec => []CacheSound`: a read finds the writes answered before it began, a cooldown is claimed once, whoever joined a load has one; no hypothesis |
| `TenancyProofs` | 2112 | `AnswersStayOwn` | `AnswersOwn`: what a customer is shown of a shared account is that customer's |
| | | `RequestsStayOwn` | `RequestsOwn`: so is what a request names there, and rows never say that a resource is another's |
| | | `LateAnswersStayHarmless` | `MCSpec => LateAnswersHarmless`: no late answer shows what is old or mixes two things in a form |

**`LocksProofs`.** Beside types, the slot counter is the number of calls that hold a slot (`SlotsExact`), PostgreSQL's table and the
callbacks agree (`HolderLive`), and, for reentrancy, the owner of the token of a bypassing call is awaiting that call and still inside
(`BypassCovered`). The last needs that a token in a context belongs to a call that awaits, or has
returned before the token is looked up, and that whoever awaits a call is still running (`ContextSound`).

In `Quota`, whoever does more than suspend holds the customer's lock (`Locked`), so that between the moment a site was found not held and the moment it is turned on nobody else
has worked under that lock; a site about to be turned on by anything but a release is not held (`Unheld`).

**`MoneyProofs`.** For `WalletTx`, two layers. `LockInv` is about locks: every kind of
transaction locks its wallet exclusively, and the order or code it is about (`Plans`, from the lists of locks);
the locks of open transactions are compatible (`LocksCompatible`), so two of them never have one wallet, order or code
(`OneHolder`); so what was read and checked under a lock is still true while it is held (`StillSound`); so a commit
computes the new balance from the current one, and the book explains it (`BookSound`). On top of it, `OrdersSettled` and
`CodesSound` are kept because a commit adds at most one
entry, for a reference that had none (`BookGrows`, `PostedGrows`, `DeltasKept`, `DeltaAdded`), and the references of other orders and codes are
different (`OrdersApart`).

In `Subscriptions`, paid time is a sum over the orders. It is a recursive function, and what is proved of it (it grows by the
new order, is untouched by another's, falls with a refund) is proved by the least number at which it would be false. `ends >= start + PaidDays` is not
inductive: a refund gives back `ends - prev` of its order, which can be more than the days it was for, so the invariant has `Gained`,
the sum of what each paid order added. `OrdersSound` makes that at least the days paid for. Plans sold once need that what is not
in `user_plan_acquisitions` was neither ordered nor given (`PlansSound`). `TimeSound` is stated while only passes and customers' requests run (`alone`): with edits and
`enforceUser`'s late `UPDATE` it is false, as the code is (section 4).

**`OperationsProofs`.** While the tables are overwritten and not yet cleaned (`Dirty`), the marker is there and whatever process serves has drained its requests and is about
to restart (`DirtySealed`). This rests on who holds the exclusive lease and what its holder has stopped (`LeaseSound`, `AloneSound`), on which steps a process in maintenance can be at while the
marker stands (`MarkerSound`), and on the two backups that a restore needs not being those that retention removes (`SafetySound`). The queue is bounded because whoever has counted holds the queue's lock until it inserts
(`QueueSound`); dumps carry tables of jobs, and they are bounded like the live one (`TablesSound`); and the numbers of backups do not run out (`RoomSound`). `MarkerIsAccounted` needs a second
invariant, `AInv`, of what a process has read of the marker that stands.

**`SitesProofs`** assume that no request is an administrator's (`Admin = {}`): those create without the lock, and `MCSitesAdminRace.cfg`
shows both the limit and the rest to depend on it. A creation holds the lock of its customer and has a row of its own
(`HoldSound`); no other row has its domain (`RowSound`); a site that the CDN made for it is its customer's, nobody has taken it, and it is still to be found by the reads of the recovery
(`SiteSound`); the deletion without a lock does not reach it, because it works on the site a row names (`DeleteSound`).
`LeftoversStayFew` counts, beside that, the creations that owe something (`Owed`): a site that no row has and none is about to have, a row whose site is not there and that nobody works on, and a creation under way that has
gone without an answer. No step adds to them but one that fails, and that adds one (`StepOwes`); the last kind is what makes it inductive, for a creation may find and take what another has left, and leave its own.

For the settings of sites (part two), one invariant for each module. `DefaultsInv`: there is one default for a setting in a scope (`Unique`), so the deletion of a group, which makes its defaults global unless one of them
has a global rival, leaves what is due to a request in that group as it was; what a request is about is in a group that there is (`InGroup`); what it noted as due when it began is due until it merges, and then in what it merged, while no default
is changed under it (`StillDue`); and at each of its steps row and CDN differ by what that step has still to write (`Follows`).

`FieldsInv`: a row is written only after its resource was created, and updates find a row (`FirstCreated`). While requests neither overlap nor go unanswered (`Agreed`), the row is the copy without secrets of what the CDN has, except
between the two writes of one request. So an update, which `Clean…` completes from that copy, is merged at the CDN with what it was completed from, and the merged parts fit (`UpdateParts`, kind by kind; `CreateParts` for a
creation) and keep the remark (`RemarkStays`). The run has one request, and TLC found `FieldsInv` to hold with two to a depth of 12. The theorem is about any number of them.

`CnamesInv`: a row, and whatever a list knows of it, has nothing, the suffix or the whole name of its own site. What a record adds to a row is what was there or the whole name (`Complements`), because with `Odd = FALSE` a level of a record
that names the target gives the whole name or, while no suffix is known, nothing new (`TopSays`), and every suffix that is looked up is the one suffix (`ListsSuffix`). With `Odd = TRUE` section 4 has the counterexample.

**`UpstreamsProofs`.** `RoutesStaySound` (`~Orphan`): until the first start after an upgrade has pointed all rows to the account of the environment, nothing
has another account (`StartSound`, while `Legacy`); after it, a thing is where its account and its subscription's account say (`ThingsSound`), also for the moves that were
checked and are yet to be written (`JobsSound`). `ClientsStaySound` (`Apart`): a client that is kept under a second was built from the row of that second or an earlier one (`KeptSound`), and two requests that read the row at one
second have read the same credentials (`TasksSound`).

**`CustomersProofs`** have one invariant for each part. `RedInv`: a code and a customer have one holder each (`Apart`), what a holder has read is still the row (`CodeRead`, `UserRead`), and the count of a code is the
number of customers who have used it, kept below the limit it has ever had (`CountsSound`). `RecInv`: a domain of the index is one of the site it names (`IndexFound`); what a request has looked up was shown by the DNS, and a request that has locked
a site knows its domains as they are and that nobody else has it (`StepSound`); the domains a customer has been given are at most those counted, while one request is granting (`GrantsSound`). `AccInv`: a row of codes agrees with the history of its
code and no code is in two rows (`TokensFit`); whoever has read a row still finds that row, or none, and is the only one with that code (`HoldersFit`). `ProofsStand` needs `MailInTime`: then the address whose mail is being sent is
still cooling, so the row that a failed mail deletes is its own (`CoolHeld`), and a code that was neither used nor taken back is in a row (`Stands`).

**`CdnProofs`.** For the group: whoever makes it holds the advisory lock, and then there is no new group in the mapping and no more of them at the CDN than POSTs that were not answered; a kept list that does not show
a new group is older than such a POST (`GroupsInv`). A request or the pass writes streams only after its group was found (`OpsInv`); the pass, until it has an error, has still to move every stream of a row that is elsewhere (`PassInv`); a list
shows every stream that is in an earlier group, so a group that is cleaned has none (`CleanInv`). Without administrators there is one request at a time, and what each knows of its stream is still so at every one of its steps
(`AloneInv`); row and stream differ only where that request has still to save, or where it was cut short (`ServedInv`), and lists show the streams as they are billed. With administrators `BilledFollows` is false (section 4); `NoLiveRowRemoved` then fails only where the CDN
gives the number of a stream again while the deletion of the first has still to remove its row, which under the lock cannot be.

For the cache, a read is under one number, of Redis or of the process, and `SeesAll` and `SeesOwn` are about the end of that read only. The invariant says what may be found under each number on the way: in the store, in the
memory of a process, in an answer that Redis has given and nobody has read, in a load that has yet to save. While the numbers of a process are in order (it is not `tangled`: nobody has come back to Redis, and it neither took a number
from Redis nor made another write while one was still to be told), each number it gets is above those it has used (`Numbers`), and what may be found under its number is not older than its own writes (`Writes`). While nobody has lost Redis, or there is a process that is not tangled, there is for each number a version below which nothing is found under it,
and a write that was answered before the number was given is at or below that version (`Floors`); the versions are not kept by the code and are a witness of the proof. Both rest on commands being carried out in their order and failing together
(`Queued`), on the one who is named as loading being at it (`Places`), and on each request adding at most one version and one number (`Counts`), which bounds them by the requests.

**`TenancyProofs`.** `AnswersOwn` (no hypothesis): the numbers of an account tell its sites apart (`DistinctIds`), remembered log entries and rows of jobs are those of a site of one's own (`DocsMine`, `JobsTrue`),
the list of streams that is kept is right for every stream that is not hidden (`ListSound`), and until streams change the ports that a query is to show are used by one's own and by hidden streams only (`QuerySound`).
`RequestsOwn`: whom a row names is whom the CDN has it from, or the resource is gone (`RowHome`), and the resources that a request under way is about were found so (`ReqSound`). It needs `Alike`: a shared rule is known by one row, taken from whichever account it was first seen in.
`LateAnswersHarmless`: `Monitor` has that numbers are unique and that the query awaited was sent since the last reset and is about the endpoint shown (`MonInv`); `Pages` that every answer due about a site is about the open one, which is
what `Patient` says (`PagesInv`); `Lists` that the dialog has number and name of one resource, and that only the kinds that ask for more are filled in late (`ListsInv`).

**Only model-checked.** Liveness, which TLAPS does not reach: `EveryoneGoesOn`, `EndedSettles`, `OverQuotaSuspends`, `SuspensionsClose`, `QueueDrains`, the first
part of `RestoreAccounted`, the last of `RequestsAnswered`.

## 6. Assumptions and what is left out

**AdvisoryLock.** A nested call is awaited by its caller; work left behind by a callback runs after the handlers that
awaited it have finished (as in `test/operations.test.js:230`). A lost checked-out connection ends the process (its error
event has no listener). The run has one process; the proofs have any number.

**WalletTx.** Every customer has a wallet (`auth-service.js:90`, `app.js:841`, `admin-api.js:60`) and one subscription.
`Abort` stands for the checks that are about other tables (a disabled plan, a missing price). The expiry of a code has
the effect of `Disable`. Locks on rows of `plans` taken by a join `FOR UPDATE` are left out: nobody takes them in
another order. A COMMIT whose answer is lost is a commit; the retry is another transaction.

**Subscriptions.** Subscriptions that start in the future, renewal windows, plans disabled while in use, and redemption
codes as a source of plans are left out. `renewSubscription` reads its clock when its transaction starts. `EndedSettles` is checked without
`enforceUser`'s late `UPDATE` and without edits, either of which can put an ended subscription back in force.

**Quota.** The checks of a PUT are one step with taking the lock. Streams are left out: they repeat these loops without
holds. A call of the CDN that is carried out after its process has died, and failing statements, are left out. How usage
and limits are computed is left open (`OverChanges`).

**Operations.** `pg_restore` dies with its process, and its COMMIT is answered; a COMMIT after the error path
(`doc/BACKUPS_AND_INSPECTION.md:20`) is a hazard without a property. A failed step has no effect. `QueueDrains` excepts the case `Stuck` (the DELETE
of the marker fails in the `finally` that gives up, `operations-service.js:106`), which leaves a process in maintenance until it is restarted.
Signatures, encryption and settings are left out.

**Sites.** A POST that has not arrived at the CDN by the third read never does: the code's own assumption
(`doc/UPSTREAM_CREATION.md:11`). A CDN group is a customer: the mode without groups is left out. The CDN answers the deletion of an absent site with an error.
`Crash` ends one request; the cancellation of a subscription during a creation (`billing-api.js:472`, `:602`), batches, PUT, CNAME and port
bookkeeping are left out. So is a `suspend` that turns a site off without the lock while a creation or an unlocked
deletion is under way: `Toggle` waits for the lock.

**Accounts.** What is said of mailed codes leaves out those for a change of address: when a mail fails, the row is deleted by customer alone, and
takes the code of another request with it (`auth-service.js:176-179`). The recovery codes of the second factor are left out: two logins at once can use the same one (`mfa.js:40`).
A mail is sent, or has failed, before the cooldown of its address ends (`MailInTime`).

**Recovery.** Records may be imported in an order that leaves a domain findable under no site. Some requests lock a claim before its site and others after it,
which PostgreSQL resolves by aborting one.

**Redemption.** A PUT of the administrator from a row read earlier enables again what was disabled meanwhile. `redeem` does not look at whether a plan is
for recoveries only (`redemption.js:110`; a purchase does, `billing-api.js:73`). A second code of a plan that is sold once is destroyed when it is
submitted (`doc/ACCOUNT_ADMIN.md:72` says so). Inside the transaction the subscription in force is read over another
connection (`redemption.js:111`): it is the one that was committed last.

**Cache.** Reads use what is in memory when Redis is away, also when another process has changed it meanwhile; the reply to a GET of the generation that comes
after an invalidation sets the generation back, and the reply to one of two INCRs clears the mark of the other: this is why `SeesAll` and `SeesOwn` have conditions. The
rate limits (`memory.clear()` clears the counters of a process without Redis) and the loss of data in Redis are left out.

**Groups and Streams.** A pass writes back what it saw of a stream before a request changed it (`customer-group-reconciliation.js:70`); the next pass corrects it.
An administrator's request takes no lock (section 4).

**Scoping and Resources.** Deletion is two steps, at the CDN and then of the row: between them a row stands for nothing, and an answer may be filtered by it. Two subscriptions of one
customer in one account show a list twice. A batch over two subscriptions uses the package of the first; an answer with another number of identifiers than asked for leaves
resources without rows (a 502). Moving a site keeps its old package. The shared row of a WAF rule carries the subscription of the customer who listed it first (`tenant-proxy.js:1168`).

**Fields.** Partial updates take no lock: what is said of parts that fit is about behaviours in which no two requests of one resource overlap and no
answer was lost (`apart`). A row whose snapshot has no type accepts credentials without values. Values are abstracted to the fact that a field was named.

**Defaults.** Every start gives back a group that was migrated and then deleted (`db.js:225-232`). A default can be left with a scope that no longer exists
(`user-compat.js:327-334`). A group with the default of a setting that also has a global one can never be deleted (`tenant-proxy.js:1491`). The foreign key on the local group makes a late INSERT
or UPDATE fail after the CDN has been written (`tenant-proxy.js:1613-1619`, `:1720-1726`, `app.js:806`, `:1335-1338`). These are in the module; the property about rows excepts
them (`touched`, `cut`). API keys are values without a module of their own; a change of password does not revoke them.

**Routing.** A start that is cut off leaves plans and subscriptions without an account until the next one, which finishes the migration. `assignPlan` checks neither account
nor package. Turning an account off and a purchase can pass each other (section 4). Renaming the package of a row (`upstream-api.js:55-66`) is left out.

**Upstreams.** An update writes all fields from the row it read; of two updates the later wins. Failures are counted per process. Requests that make two default accounts
at once meet a unique index.

**The web client.** The other views replace a list by what was read last. Left out: the audit page, sessions and a late 401, the dialog for WAF rules, bulk
handlers, the pages of login. Every rule the views show is enforced by the server.

**Not modelled.** Settings, configuration, mail, client address: one row per setting, written by single statements. Fetching of pages for the inspection: I/O; what the
inspection does with a verdict is in `Quota`. Build, deployment and maintenance scripts.

**Everywhere.** HTTP, validation, wording, logging, encryption, formatting and reads that feed only a view are left out. Single statements
are atomic; a statement on a row waits for a transaction that holds it.

## 7. Plan

All components of section 1 that hold concurrent state are modelled and checked. The proofs follow the same order: first what all changes run under, then money, then what it buys, then what it
turns on and off, then what can destroy the rest, then what belongs to whom, then what is arranged for it. Every safety property and every action property that a passing run checks is proved. What is left is liveness, which
TLC checks (section 5), and the components that section 6 leaves out.
