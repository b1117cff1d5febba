# Wiretrustee: TLA+ models, model checking and proofs

Wiretrustee builds a private WireGuard network. A **management service** keeps
accounts with their peers and tells every connected peer who else is in the
network. A **signal service** forwards the messages with which two peers
negotiate a direct connection. A **client** runs on every machine: its engine
applies what the management service sends, negotiates one connection per remote
peer over the signal service, and configures WireGuard.

This directory holds TLA+ modules of these three programs, TLC configurations that check them on small instances, and TLAPS
proofs of the main invariants for every size of the system. All line numbers are
of the source tree beside this directory.

## 1. The system

| component | state | operations | talks to |
|---|---|---|---|
| gRPC server (`management/server/grpcserver.go`) | one goroutine per Sync stream or Login call | `Sync`, `Login`/`registerPeer`, `sendInitialSync` | account manager, update manager, TURN manager |
| peers update manager (`updatechannel.go`) | map peer -> buffered Go channel, `channelsMux` | `SendUpdate`, `CreateChannel`, `CloseChannel` | written by Login, DeletePeer and the refresh goroutines, read by Sync |
| TURN credentials manager (`turncredentials.go`) | `cancelMap`, one refresh goroutine per connected peer | `SetupRefresh`, `CancelRefresh` | update manager |
| account manager, peers (`peer.go`, `network.go`) | account's peers, addresses, serial, `am.mux` | `AddPeer`, `DeletePeer`, `GetNetworkMap`, `MarkPeerConnected`, `AllocatePeerIP` | store, update manager |
| account manager, the rest (`account.go`, `setupkey.go`, `group.go`, `rule.go`, `user.go`) | accounts, setup keys, groups, rules, users | create, save, delete, expire, revoke | store |
| file store (`file_store.go`) | accounts and six indexes, a JSON file | `SaveAccount`, `SavePeer`, `DeletePeer`, `restore` | disk |
| management client (`management/client/grpc.go`) | the stream | `Sync` with retries, `Login` | engine callback `handleSync` |
| signal server (`signal/server`, `signal/peer`) | registry peer -> stream | `ConnectStream`, `Send`, `Register`, `Deregister` | clients' streams |
| signal client (`signal/client/grpc.go`) | status, `connectedCh`, stream, `mux` | `Receive` with retries, `WaitStreamConnected` | signal server, engine callback |
| engine (`client/internal/engine.go`) | `peerConns`, `networkSerial`, TURNs, `syncMsgMux` | `handleSync`, `updateNetworkMap`, `connWorker`, `receiveSignalEvents`, `Stop` | Conns, WireGuard |
| peer connection (`client/internal/peer/conn.go`) | status, agent, proxy, context, channels | `Open`, `Close`, `OnRemoteOffer`, `OnRemoteAnswer`, `cleanup` | signal client, ICE, proxy |
| proxies (`client/internal/proxy`) | sockets | `Start` and `Close` configure and remove a WireGuard peer | WireGuard |
| WireGuard interface (`iface`) | the host's interface, its peers | `Create`, `Close`, `UpdatePeer`, `RemovePeer` | engine, proxies |
| daemon (`client/server/server.go`, `connect.go`, `state.go`) | state, cancel function, OAuth flow | `Login`, `WaitSSOLogin`, `Up`, `Down`, `Status`, `RunClient` | engine, management client |
| commands and tray application (`client/cmd`, `client/ui`) | none | sequences of calls of the daemon; the foreground login | daemon, configuration |
| configuration and login (`client/internal/config.go`, `login.go`, `oauth.go`, `client/cmd/root.go`) | the configuration file, its predecessor | `GetConfig`, `handleRebrand`, `Login`, the device flow | disk, management client |
| HTTP API (`management/server/http`) | the keys tokens are signed with | JWT middleware, access control, the handlers | account manager |
| identity provider (`management/server/idp`) | cached access token; users' metadata, outside | `Authenticate`, `UpdateUserAppMetadata` | Auth0 |

What is hard about it:

* **Streams overlap.** A client reconnects as soon as its stream fails; the
  server notices the old stream's end later. The clean-up of an old stream works
  by the peer's key, in all three services: update channels, refresh goroutines,
  the signal registry. The same happens in the client, where the worker of a
  removed Conn meets the Conn that replaced it and both work on one WireGuard key.
* **Locks are held across blocking operations.** `SendUpdate` sends on a buffered
  channel inside `channelsMux`; `DeletePeer` calls it inside `am.mux`; the
  handlers that drain the channels need both.
* **Composite reads.** `registerPeer` reads the network after `AddPeer` returned,
  and publishes without a lock.
* **Check, then act.** `Sync` takes the initial map before its channel exists;
  `WaitStreamConnected` reads the status before it asks for the channel; `Close`
  signals an `Open` that may not be listening.
* **Memory first, then the file.** The account manager changes an account in memory
  and then writes the whole store; when the write fails the caller gets an error
  and the memory stays changed, until the next write saves it or a crash loses it.
* **Indexes that only grow.** `SaveAccount` adds to the indexes from peers to rules and
  never removes; only a restart builds them anew. It panics on a rule whose group is
  gone, in the middle of its work.
* **Copies outside.** A token says which account and which kind of domain the identity
  provider knew of when it was issued; the provider learns of an account after it
  was saved, in a call that may fail. The client's key is in a file that two
  processes may create, migrate and rewrite at once.
* **Cancelling is not waiting.** The daemon cancels a run and starts the next one
  while the old one still closes its engine and writes the shared status; all
  engines use one interface, by its name.
* **Late answers.** A login call that timed out may still register the peer and use
  up the key it came with; the client repeats it.

What makes each component correct: a channel is never sent on after `close`
(which would panic the server); a published or applied map is the network of
exactly one serial; a client's serial never goes back; a client whose stream
stays up converges to the account's peers; every live refresh goroutine can be
cancelled; the registry names only living streams, and a confirmed client is in
it; the Receive loop always gets a client back; a WireGuard entry never outlives
its Conn, and a peer that is reported as connected is configured; the worker of
a removed peer ends; a one-off setup key admits one peer; what the service
confirmed survives a crash, a revocation included, and no restart takes a network
back behind the serial its clients have; a peer sees exactly the peers the rules
grant; addresses are given out once and never withheld; a user and a private
domain belong to one account and never move; a handler works on an account its
user may change; a registered key is the one on disk, and a valid setup key logs
in; only the context `Down` can cancel is alive, and what was cancelled ends.

## 2. Modules

| module | models | extends |
|---|---|---|
| `UpdateChannels` | `PeersUpdateManager` | |
| `TurnCredentials` | `TimeBasedAuthSecretsManager` | `UpdateChannels` |
| `EngineSync` | the engine's `handleSync`, as pure operators | |
| `MgmtSync` | the composition: Sync handlers, Login, DeletePeer, clients | `TurnCredentials`, `EngineSync` |
| `SignalExchange` | signal server, registry and clients | |
| `PeerConns` | the engine's Conns, their workers and WireGuard entries | |
| `AccountStore` | accounts, setup keys and peers over the file store, and the HTTP handlers of peers and keys | |
| `Network` | `generateIPs`, `AllocatePeerIP`, as pure operators | |
| `AccessRules` | groups, rules, their indexes, `GetNetworkMap`, peers' addresses | `Network` |
| `Membership` | abstract: users and private domains belong to accounts | |
| `DomainAccounts` | the account of a token's user, over the store and the identity provider; implements `Membership` | |
| `HttpApi` | JWT middleware, access control and the handlers' look-ups | `DomainAccounts` |
| `ClientRun` | `RunClient`, the engine's start and stop, the shared status | |
| `Daemon` | the daemon's gRPC handlers and the programs that call them | `ClientRun` |
| `ClientConfig` | the configuration file and its migration | |
| `ClientLogin` | the foreground login against management services | `ClientConfig` |
| `MC*` | instances for TLC | the module of the same name |
| `*Proofs` | theorems and TLAPS proofs (those about `DomainAccounts` are in `HttpApiProofs`) | the module of the same name |

An action stands for the code between two points where a thread can be
preempted with an observable effect: a lock taken and released, a channel
operation, a network operation. Operators named `...No...`, `...Early` and the
like with a "Mutant:" comment are deliberately wrong variants; each one breaks
the property it was written for and shows that the property depends on the code.

### MgmtSync

A Sync call (stream) `s` walks through `pc[s]`: `getPeer` (line 91) ->
`initialSync` (102) -> `createChannel` (107) -> `markConnected` (108) ->
`setupRefresh` (114) -> `loop` (117-153), and from there to `done` directly
(channel closed, `SendMsg` failed) or through `cancelRefresh` and
`markDisconnected` (context done). A channel and a refresh goroutine are named
after the stream that created them, so that a replaced channel stays distinct
from its successor. `blocked` is the `SendUpdate` that found its channel full: it
holds `channelsMux`, and whoever needs the mutex waits until it is gone.
`am.mux` is held exactly by a `DeletePeer` that is not finished (`amMuxFree`);
the account manager's other calls are atomic. `Login` is `LoginGetPeer`,
`AddPeer`, `RegisterGetNetworkMap`, one `RegisterNotify` per peer, `LoginReturn`.

A message reaches the engine in the step in which the handler sends it: the
engine applies messages one at a time under `syncMsgMux` in the stream's order,
and streams of one client do not overlap on the client's side. What is lost on
a broken stream is lost in `SyncForwardBroken`. `ClientRestart` gives a client a
new engine.

History variables (not in the code): `hist`, the keys registered at every
serial; `missed`, whether an update was published to a stream's peer between
its initial map and its channel.

Abstractions: one account, whose peers see each other through the default rule;
credentials are reduced to their kind; the peer's meta data and names are left out;
setup keys are in `AccountStore`, other rules in `AccessRules`. `AddPeer` also appends
the key to the group All; a key that two Logins append twice only repeats a
message and is left out.

### SignalExchange

`handler[s]` follows `ConnectStream`: `connectPeer` (register), `sendHeader`,
`recv`, `deregister` (the deferred call), `done`. `receive[p]` follows the
client's `Receive` loop, `waiter[p]` a `WaitStreamConnected` call, `send[m]` a
unary `Send` split between its check of the sender and the look-up of the
addressee. `Break` is the network's only action. `overlap` is a history variable:
a handler of the same peer was running when the stream was opened. The forwarding
of messages that arrive on the stream is the same look-up as in `Send`; the
clients use `Send`.

### PeerConns

`pc[c]` is where the worker of Conn `c` is: `sleep` (in `connWorker`), `open`
(agent created, the offer is being sent), `confirm` (the first select: offer, answer,
timeout, close), `answer`, `gather`, `dial`, `startProxy`, `connected` (the second
select: closed, or context done), `cleanup` (the deferred call), `gone`. `Close` moves a
worker only from its two selects, the `default` clause makes it a no-op
elsewhere. `wg[p]` names the Conn that configured the WireGuard entry of `p`;
`Cleanup` removes the entry by key, whoever owns it. `engine` becomes
`stopping` when `Stop` has removed all peers, and `stopped` when it has closed the
interface half a second later; a late `handleSync` may still come after that.
`overlap` is a history variable: a Conn of the same peer was alive when this one
was created.

Abstractions: candidates and ICE are the choice whether `Dial` succeeds; ICE
callbacks come only while the agent is alive; errors of the operating system while
an entry is being removed are left out; a map that reaches `UpdateNetworkMap`
here is not outdated (`EngineSync` covers the check).

### AccountStore

(Peers, keys and the two indexes that lead to them.) An account is its setup keys, the ones that were used and revoked, the key each
peer was registered with, and the serial of its network. `mem` holds the accounts
of the running process with the two indexes, `file` those of `store.json`. Every
operation of the account manager is one action under `am.mux` that changes `mem`
and the indexes and ends in `PersistOk` (the file is replaced by a rename, so it is
never half-written) or `PersistFails` (the caller gets an error, the memory stays).
Two operations take more than one action: a Login of an unknown peer
(`LoginGetPeer`, then `AddPeer` or `AddPeerRefused`, with other calls in between)
and `DeletePeer`, which writes the store twice under the mutex (`DeletePeer`,
`DeletePeerSave`), so that a crash can fall between the two. The HTTP handler of a
peer looks the peer up, and renames or deletes it in a later critical section
(`HandlePeer`, then `updatePeer`, `deletePeer` or `PeerNotFound`), by which time the
peer may be gone or in another account; the handler of a key revokes it
(`RevokeSetupKey`) and then renames it (`RenameSetupKey`), two writes of which
either may fail. `SavePeer` stands for a
Login of a known peer and for `MarkPeerConnected`. `Restart` is a crash at any point
followed by `restore` and `BuildManager`; the index entry of a peer that is in two
accounts depends on the order of a Go map.

History variables: `acked`, the peers the service confirmed and nobody has started
to delete; `granted`, the one-off keys it confirmed and for whom; `barred`, the
keys whose revocation it confirmed; `seen`, the
highest serial it gave to a client; `dirty`, the last write failed; `lost`, a crash
came while it was so.

Abstractions: `UsedTimes` is reduced to used or not, which is all `IsOverUsed`
reads; peers log in with keys that were issued, not by JWT; names are left out, so
a rename is what it does to the account the peer is stored in; groups and addresses
are in `AccessRules`; new keys are none of the known ones (UUIDs).

### Network and AccessRules

`Network` has the addresses of a network as distances from the network address, and
translates `generateIPs` and `AllocatePeerIP`: all addresses that are neither taken
nor end in a zero octet, without the first and the last of what is left.

`AccessRules` has one account: the address of each peer, its groups (peer lists as
sets, and whether the name is All) and rules, in memory and in the file, with
`PeerKeyId2SrcRulesId` and `PeerKeyId2DstRulesId`. The handlers save any group or
rule and delete any; `SaveAccount` goes over the rules, adds to the indexes and
writes; when a rule names a group that is gone it panics after any part of them
(`SaveAccountPanics`), which an HTTP handler survives (`SaveAccountHTTP`) and a
gRPC handler or the start of the service does not (`Crash`). `DeletePeer` rebuilds
all groups' lists with one slice: the array they share afterwards (`shared`), and what a later
append to one of them overwrites in the others (`Overwritten`), are modelled.
`GetNetworkMap` reads the indexes. History variables: `covered`, `SaveAccount` has
been over the groups as they are; `shrunk`, a peer has lost a role in a rule since
the start, so that the indexes may hold more than the rules say.

### Membership, DomainAccounts, HttpApi

`Membership` says what an administrator may rely on: a user and a private domain
are assigned to an account at most once; nothing moves them; a crash may forget an
assignment that was not saved, and nothing else.

`DomainAccounts` translates `GetAccountWithAuthorizationClaims`. A request `c` has the
claims of its token (`call[c]`: user, account, whether the domain was private when it was
issued) and passes `GetAccountById` for an account named in the token,
`GetOrCreateAccountByUser` and `CheckMember` for a domain that is not private, or the
branches for a private domain under `am.mux`, which stays held (`locked`) during
the call of the provider. `Reclassify` makes a domain private; tokens keep what
they said. The provider's answer may be lost after it stored the account
(`UpdateUserAppMetadata`). `Restart` rebuilds the indexes from the file.

`HttpApi` adds the way of a request: `CheckJWTFromRequest` against the keys fetched at
the start, the look-up and `IsUserAdmin` of the access control, the handler's own
look-up with the same claims, `Answer`. What the handlers do then is in `AccountStore`
and `AccessRules`. Every step is a step of `DomainAccounts` or leaves it alone, so what
is proved of one holds for the other.

### ClientRun and Daemon

`run[c]` is the `RunClient` that was started with context `c`, through its operation
(`op`, `mgmt`, `engine`, `set`, `up`, `close`, `check`), its back-off (`retry`), the
deferred function and the goroutine that wraps its error. Contexts are numbered in
the order of their creation, `act` is the one `s.actCancel` cancels. `iface` is the run
whose engine made the interface; `EngineStop` deletes it by name, whoever made it.
`StreamEnds` is what makes an engine reset its run; a stream of a cancelled
engine may end late and wrap its error into the status (`StaleStreamEnds`).

`Daemon` has one action per critical section of each handler, and the deferred
functions. A caller runs a program: the sequences of calls that `up`, `login` and `down`,
the tray menu and its settings make, with their decisions on what a call returned.
`Unregister` is the deletion of the peer at the management service, `FlowAges` the
expiry of a device code.

### ClientConfig and ClientLogin

Processes start with a command (URL, pre-shared key, setup key) and go through
`handleRebrand` (a copy that truncates first: `Torn` is an incomplete file), the
look at the file, `createNewConfig` or `ReadConfig` with its rewrite; `Killed` may end
them anywhere. `ClientLogin` goes on with `foregroundLogin`: the service's key, a
`Login` sealed for it, `Register` if the peer is unknown, the device flow, with
`WithBackOff`'s rule which errors are repeated. A service answers calls in any order
and after their client gave up (`Timeout`); `NewServer` restarts one with a new key,
so that what was sealed for the old one cannot be read.

Abstractions: sealing is a pair of keys; the one-off setup key is of one account;
`AdminURL` is treated as `ManagementURL` is and left out; the bounded number of tries
stands for the elapsed-time limit of the back-off.

## 3. Runs

Deadlock checking is on for `access_rules` and `http_api`, where a restart is always
possible. It is off elsewhere: nothing makes a client connect, a user log in or an
administrator act, so these systems may come to rest.

| run | instance | checks |
|---|---|---|
| `mgmt_sync` | 2 peers, 2 streams, 2 addresses, 2 Logins, 1 DeletePeer thread, capacity 1, 3 network changes; symmetry | `TypeOK`, `NoSendOnClosedChannel`, `ConvergedUnlessMissed`, `MapMatchesSerial`, `ViewMatchesSerial`, `ViewSerialMonotonic` |
| `mgmt_turn` | the same with 1 Login, timed credentials, 2 changes | `LiveRefresherIsCancellable` |
| `mgmt_live` | 1 Login, capacity 2, 2 changes, fairness, no symmetry | `EventuallyConverged` |
| `signal_exchange` | 2 clients, 3 streams, 1 break, 1 Send, fairness | `NoFinishedStreamRegistered`, `ReachableUnlessOverlap`, `ReachableIsDelivered`, `WaiterHasChannel`, `EventuallyConnected` |
| `peer_conns` | 1 remote peer, 3 Conns, fairness | `WireguardEntryHasConn`, `ConnectedIsConfigured`, `RemovedWorkerEnds` |
| `account_store` | 1 account, 2 peers, 3 keys of which 1 is one-off, 2 Logins, 2 HTTP requests, 3 changes, 1 failing write, 1 expired or revoked key, any number of restarts; symmetry | `OneOffKeyAdmitsOne`, `ConfirmedPeerIsDurable`, `RevocationIsDurable`, `SeenSerialIsDurable` |
| `account_move` | 2 accounts, 1 peer, 4 keys, 2 Logins, 1 request, 2 changes, the rest as above | `IndexedPeerExists` |
| `access_rules` | 2 peers, 2 groups, 2 rules, 2 usable addresses, 2 administrators' changes, any number of Logins, deletions, crashes and restarts; symmetry | `GrantedIsVisible`, `VisibleIsGranted`, `AddressesAreExact` |
| `http_api` | 2 users of 1 domain, 3 accounts, 2 requests, 1 failing write, 1 new signing key, any number of restarts | `ApiTypeOK`, `HandlerIsAllowed`, `MutexIsReleased`, `OnePrimaryPerDomain`, `MetadataNamesHome`, `AssignedOnce` |
| `client_login` | 2 processes, 2 services, 2 keys, 2 faults (failed writes, lost calls, killed processes, service restarts), 4 tries per cycle, 2 starts of each service, fairness | `TypeOK`, `KeyIsOnDisk`, `IdentitySurvivesRebrand`, `AnsweredIsRegistered`, `ValidKeyLogsIn` |
| `daemon` | 2 callers that run `up` or the menu's Down, 3 contexts; symmetry | `TypeOK`, `OnlyActIsLive`, `ActiveStatusHasOwner`, `SoleRunKeepsInterface` |
| `daemon_live` | 1 caller that runs the menu's Up, the settings or `down`, 3 contexts, fairness | `CancelledRunEnds` |

The type invariants of `SignalExchange`, `PeerConns`, `AccountStore` and `AccessRules`
are theorems and need no run.

Why these bounds are enough to be interesting. Two streams are what it takes for
an old stream of a peer to be cleaned up under a new one, or for two peers to be
connected at once; a capacity of one makes a full channel ordinary (the code has
100); two Logins can both find the same key missing; three changes are two
registrations and a deletion, or a peer that is registered, deleted and
registered again. In `mgmt_live` no channel can fill up, since there are no more
changes than places; what a full channel does to liveness is the third of the
behaviours below. Three streams let a client reconnect and meet its own late
handler while another client stays connected. In `PeerConns` the remote peers do not
interact except through `Stop`, so one of them, with three generations of Conns,
shows every overlap. In `AccountStore` two Logins can bring two peers with one key,
or (`account_move`) one peer into two accounts; two requests revoke a key and
rename it under each other's feet; one failing write is enough for the memory and
the file to differ at a crash. In `AccessRules` two groups and rules suffice for a
rule that loses a group, for a group on both sides, and for two lists that share an
array; the file keeps what administrators changed over any number of restarts. The
two usable addresses are exhausted by two peers; that no address past the first 256
is treated wrongly is covered by the theorem only. Three accounts let both users
make one of their own while the domain is public and one of them be replaced by
what a crash forgot. In `ClientLogin` two starts race for the first configuration
or migrate it together; a key that is put back takes a third start and is covered by
the theorem only. In `Daemon` three contexts are two overlapping runs, or a
login between two.

### Behaviours seen in the models

No property is stated about these; the properties above exclude them where they
meet them (`missed`, `overlap`, `shrunk`, `lost`, `replaced`), and a maintainer should
know of them.

Updates and Sync:

* An update that is published between a stream's initial map (grpcserver.go:102) and
  its `CreateChannel` (107) is dropped; the client keeps an outdated network until the
  next change.
* A deleted peer's Sync returns without `CancelRefresh` when its channel is closed
  (grpcserver.go:123); its refresh goroutine runs for ever (turncredentials.go:81). A
  failing `SendMsg` leaves channel, refresh goroutine and status behind (137).
* `SendUpdate` waits for room inside `channelsMux` (updatechannel.go:25-30); the
  handler that would make room may wait for `am.mux`, held by a `DeletePeer` that waits
  for `channelsMux` (peer.go:148). Nothing moves again.
* `Peer.Status.Connected` can be false while a stream is served, because the old
  stream's clean-up marks the peer disconnected by key, after the new stream marked
  it connected (grpcserver.go:146), or true when no stream is left (after a
  failed `SendMsg`, grpcserver.go:137).
* Two overlapping Logins of one key both call `AddPeer`: the second allocates
  another address, and both publish maps of the same serial that differ in that
  peer's address (peer.go:371, grpcserver.go:230). The keys agree:
  `MapMatchesSerial` is about keys.
* A remote peer that is deleted and registered again between two maps a client
  sees keeps its Conn with the old address (engine.go:472).
* `registerPeer` publishes the static TURN credentials even when time-based
  ones are configured (grpcserver.go:230).
* A peer that is deleted between its initial map and its `CreateChannel` keeps
  a served stream (grpcserver.go:91-107).

Signal exchange and connections:

* The late `Deregister` of an old stream deletes the registration of the new one
  (signal/peer/peer.go:55-64): a connected client is unreachable.
* The connection can be announced between `WaitStreamConnected`'s unlocked status
  check and the creation of the channel (signal/client/grpc.go:208-211); the caller
  waits until the next reconnect.
* `Close` does nothing while `Open` gathers or dials: a removed peer is connected and
  configured afterwards, and nobody closes it (conn.go:427, engine.go:254).

Accounts:

* After a failed write and a crash the serial of a network goes back, and its
  clients ignore all maps until it has caught up (peer.go:375, engine.go:438);
  `SeenSerialIsDurable` excludes this case with `dirty` and `lost`.
* A registration whose write failed is reported as an error, but the peer is in
  memory: its next Login succeeds without a setup key check, and the one-off key
  stays used (peer.go:371-379).
* Two Logins of one peer with keys of two accounts register it in both; only one of
  the two is in the index (file_store.go:240). A `RenamePeer` whose look-up has
  gone stale puts a deleted peer back, or a moved peer into its old account
  (peer.go:119).
* A peer that lost its role in a rule stays visible until the next restart, since
  the indexes only grow (file_store.go:243-264). A peer that is only on one side of
  rules sees less than they grant (peer.go:236).
* Deleting a group that a rule names makes `SaveAccount` panic, and then the start of the
  service (file_store.go:245). `DeletePeer` and a later append may put one group's
  peer into another's list (file_store.go:184).
* `AllocatePeerIP` never gives out the first address: it is always the first free one,
  which `generateIPs` drops. The example in its comment (network.go:72-73: with .1 and
  .4 taken "the result would be .2 or .3") does not hold.
* Tokens signed with a key the provider began to use after the start are refused until
  the service restarts (middleware/handler.go:48). Accounts made by
  `handleNewUserAccount` have no group All until then.

Client:

* Two first starts of the client may each create a key; the one whose file is replaced
  may already be registered, with the setup key used up (config.go:44-69). A process
  that has read the first key by then and changes a setting puts it back, so that the
  second key is lost in turn (config.go:126-131). `KeyIsOnDisk` says that this is the
  only way: until createNewConfig has overwritten a key, none is lost (`replaced`).
* The foreground login reports success although its last call was refused with
  `InvalidArgument` or `PermissionDenied` (client/cmd/login.go:50, 135-136).
* An empty pre-shared key clears the stored one (config.go:119).
* `Up` goes on when the state is not idle, against its comment (server.go:321-324).
  A Login that finds a previous device flow leaves the status Idle; a WaitSSOLogin that
  is cancelled returns success; a second Login panics when the device flow before it has
  run out and nobody waited for it (server.go:207).
* An engine whose `Start` failed after the interface was made leaves it there; the
  late `Stop` of an older engine deletes the interface of the next one.

### Fairness

`MgmtSync`: every server goroutine that can run does. It is strong for the steps
that need a mutex, since others may take it in between: Go's `sync.Mutex` hands itself to a
waiter that has starved. The select of the Sync loop picks at random between
cases that stay ready, hence fairness of the context branch of its own. Clients
and administrators are not fair: nobody has to connect, log in or delete.
`SignalExchange`: the handlers, the Receive loops (with their retries) and
the waiters run; the network does not have to break. `PeerConns`: workers run, timers
fire, `Dial` returns (ICE has its own timeouts) and a sleeping `Stop` wakes up; no remote peer
has to answer and no agent has to fail. `ClientLogin`: each client process runs on,
since each of its calls has a timeout and its retries are bounded, and a service works on the
calls it received. `Daemon`: while the process lives its runs and handlers run, waits
for a user end with their context, and the streams of cancelled engines return;
no user has to call anything.

## 4. Proofs

The theorems hold for every set of peers, streams, threads, addresses, Conns and
every capacity; the assumptions are the ones declared with the constants: `None`
is not one of the objects, the capacity is positive, bounds are naturals, and a
network has more than two addresses and its broadcast address does not end in a zero octet.

`MgmtSyncProofs`:
* `TypeCorrect`. `TypeOK` is not inductive by itself: a handler that runs has an
  owner, a running Login or DeletePeer a peer, and a refresh goroutine a stream
  that was used (`TypeInv`).
* `NeverSendOnClosedChannel`. `ChannelInv`: a registered channel belongs to its
  peer and is open, a channel that has not been created yet is neither
  registered nor closed, and the channel a blocked send waits for is still the
  registered one, because nobody can replace it without `channelsMux`.
* `MapsMatchTheirSerial`, `ViewsMatchTheirSerial`. The two support each other, since
  a view is made of maps, and need `AccountInv`: the current serial's history is the set of
  registered peers, and what a Login or a DeletePeer remembers is the network
  of the serial it remembers. The core is `RegistrationCoherent`: the update that
  `registerPeer` composes for a peer is that peer's network at
  the serial of the later `GetNetworkMap`.
* `ViewSerialNeverGoesBack`, an action property: every step but the start of an engine
  leaves the serial alone or applies an update that is not older (`SerialStep`).
* `NoRefresherIsLost`. A refresh goroutine that has ended or was cancelled stays so,
  and `SetupRefresh` cancels the one that is registered before it registers its own.
* `HealthyClientsConverge`. That a client at rest has the current peers is far
  from inductive: while changes go on it has an older network, and what will repair that
  is spread over the server. `TellInv` says where the repair is: a stream that
  has missed nothing has a client with a network that nothing has changed since
  (`FreshIn`), or such a network is in its channel or in a blocked send (`Holds`), or a
  Login or a DeletePeer is still going to tell its peer (`Due`); the peer of a stream that is
  not registered is being deleted. It needs that a working stream is the last
  of its client (`CurrentInv`) and that an open channel is the registered one (`OpenInv`).
  At rest only the first case is left.

`SignalExchangeProofs`: `SignalTypeCorrect`; `NeverFinishedStreamRegistered` and
`ConfirmedIsReachable` from `RegistryInv`, which adds who owns a stream and that a
stream opened without overlap is the only one of its peer
that runs until the client gives it up (`AloneInv`); `NeverDroppedIfReachable`, that a
message to a client that stayed registered is forwarded; `WaitersAreReleased`, from
who creates and who closes `connectedCh`.

`PeerConnsProofs`: `ConnsTypeCorrect`; `NoStaleWireguardEntry` and
`ReportedPeerIsConfigured` from `EntryInv`, which relates a worker's place to
its status and proxy (`ConnInv`) and says that the Conn created
without overlap is the only living one of its peer while it is in `peerConns`
(`AloneInv`).

`AccountStoreProofs`: `StoreTypeCorrect`, `OneOffKeysAdmitOne`,
`ConfirmedPeersSurvive`, `RevocationsAreDurable`, `SeenSerialsAreDurable` and
`IndexIsSound`, for any number
of accounts, peers, keys, Logins, requests, failing writes and restarts, from `StoreInv`. A
property of the file alone is not inductive, since the next write replaces the file
by the memory and a restart the memory by the file. So a confirmed peer is in both
(`AckInv`); without a failed write the two are equal, and serials in memory only
grow (`SerialInv`); in both of them accounts share no key, a one-off key
has one peer, and a confirmed one-off key is used up and has no other peer
(`KeyInv`). `Saves` collects what all operations that end in `SaveAccount` have in
common, `StepKinds` reduces the steps of `Next` to seven kinds.

`AccessRulesProofs`: `TypeCorrect`, `Visibility` and `Confinement`. The indexes contain
every role of a peer as long as `SaveAccount` has been over the groups
(`IndexCovers`), and nothing but roles as long as none was lost
(`IndexIsCurrent`); both are inductive over the kinds of steps, a panic in the
middle included. `Addresses`: all addresses in use are distinct and lie strictly
between the first and the broadcast address (`AddressInv`), so these two are always
free and are the ones `generateIPs` drops (`BothEndsFree`).

`HttpApiProofs`, first part, about `DomainAccounts`: `TypeCorrect`; `OnePrimary`;
`TokensNameHome`; and `Refinement`,
that `Spec` implements `Membership`. The invariant relates the index of users, the index of
domains, the accounts in memory and in the file, and what each request under way
remembers (`UserInv`, `OwnerInv`, `DomainInv`, `FileUsers`, `FileOwners`, `CallInv`): a
user's index entry is enough to know that no other account has the user, which a
request that decided to create one relies on after it was preempted. Second part, about
`HttpApi`: `ApiRefinement`, `ApiOnePrimary`, `MutexReleased`, `ApiTypeCorrect` and
`HandlersAreAllowed`. Each step of the API is a step of `DomainAccounts` or none of its
variables change (`ApiStepIsStep`); the handlers need in addition that no step takes
a user's role away while the process runs (`SaveKeepsRoles`) and that a request
finds the same account twice (`HandlerInv`).

`DaemonProofs`: `DaemonTypeCorrect`; `DownReachesAll`; `StatusIsOwned`; `SoleRunIsSafe`.
The context that `actCancel` cancels is always the last that was created (`LastInv`),
and no run has a context that does not exist yet (`FreshInv`), hence creating one
after `actCancel` leaves no other alive. `SoleRunIsSafe` needs that of a run without
overlap all earlier runs are finished (`AloneInv`), so that the one that is left is the
only one whose `Stop` or `Create` touches the interface.

`ClientLoginProofs`: `LoginTypeCorrect`; `RegisteredKeyIsSaved`; `RebrandKeepsIdentity`;
`AnsweredLoginLasts`. `ConfigInv` tells two kinds of machine apart. With an old file
there is one key for ever: nobody reaches `createNewConfig`, since whoever looks
at the file has found it or has made it (`OldInv`). Without one nothing is ever torn, a
configuration in use has been saved, and until `createNewConfig` has overwritten a key
all processes hold the one in the file (`FreshInv`). Every key a process, a call or
a service has is then kept (`Kept`), and no step loses one that is (`KeepsKeys`).
`LoginInv` says that a process has one call at most, made with its
configuration (`RequestInv`), and that the service knows the peer from the moment it
accepts until the client says so (`Agrees`); services never forget
(`KeepsPeers`). Looking for this invariant showed that `KeyIsOnDisk` had excluded too
little: with three starts the refresh above puts an overwritten key back, which the
two starts of the run do not reach.

Only model-checked: the liveness properties (`EventuallyConverged`,
`EventuallyConnected`, `RemovedWorkerEnds`, `ValidKeyLogsIn`, `CancelledRunEnds`), which are
outside the prover's reach. Every invariant and every action property of the runs is a
theorem.

## 5. What is not modelled

The set-up of the processes, system information and the one-off conversion of
accounts have no state that other parts share; generated code. Within modelled
components: ICE and the remote side of a negotiation (`Dial` succeeds or fails),
packets and the copying of the proxies, cryptographic primitives and certificates,
formats of requests and answers, windows and flags, the identity provider's other
calls (`CreateUser`, `GetAllUsers`), a service without an identity provider,
`GroupAddPeer` and `GroupDeletePeer`, which nothing calls, and `SendToStream`.
Data races on single words are modelled only where the
model says so: `account.Users` is read without `am.mux` in one place (account.go:477),
and the signal client's stream is replaced without its mutex (signal/client/grpc.go:177).

## 6. Plan

1. Done: update channels, TURN refresh, Sync/Login/DeletePeer; signal exchange; the
   engine's Conns; accounts, setup keys, the file store; groups, rules, addresses;
   users, domains and the HTTP API with `Membership`; the daemon; configuration
   and login.
2. Done: a theorem for every invariant and action property of the runs.
3. Proofs: that peers and addresses of `AccountStore` and `MgmtSync` agree through an
   abstract registry both implement; action properties of `AccountStore` (a serial
   never goes back in the file) and of `Daemon`.
4. `Negotiation`: two `PeerConns` over one `SignalExchange`.
