# TLA+ models of the sync and transfer core

This directory holds TLA+ models of the cloud-storage client in `src/`. TLC
checks them. Each module models one part of the code. Each `.cfg` file is one
run of the model checker. `PROJECT.json` lists the following:

- the components;
- the runs and the properties each one checks;
- the mutants that show each property can fail;
- the map from every definition to the source lines it models;
- the findings;
- the hazards the code is exposed to.

## 1. The system and its parts

The inventory below comes from `spec.md` and the sources under `src/`.

| Part | Source | State | Operations |
|---|---|---|---|
| NodeGraph: the remote tree | `node.cpp` (`Node`), `megaclient.h` | `client->nodes`, `Node::parent`, `children`, `localnode`, `syncget`, `todebris_it`, the keys and attributes | the constructor (link now, or defer through `dp`), `setparent`, `~Node`, `applykey`/`setkey`, `setattr`, `setfingerprint`, `serialize`/`unserialize` |
| LocalTree: the local mirror | `node.cpp` (`LocalNode`) | `parent`, `children`, `node`, `deleted`, `fsid`/`fsid_it`, `client->fsidnode`, `ts`/`dts`, `notseen` | `init`, `setnameparent`, `setfsid`, `setnode`, `setnotseen`, `treestate`, `~LocalNode`, `prepare`/`completed`, `serialize`/`unserialize` |
| SyncEngine | only declared (`megaclient.h`) | `Sync::state`, `todebris`, the rename requests | `addsync`, `delsync`, `syncdown`/`syncup`, `movetosyncdebris`, `execmovetosyncdebris` |
| TransferEngine | only declared (`megaclient.h`) | the transfer queue and slots | the dispatch and the completion of transfers |
| FileAttributeFetch | `fileattributefetch.cpp` | `client->fafs`, the channel's `req.in` and `completed` | `dispatch`, `parse` (incremental and final) |
| HTTP I/O | `posix/net.cpp`, `http.h` | `HttpReq::status`, `httpiohandle`, `httpio` | `post`, `cancel`, `doio` |
| Waiter | `posix/waiter.cpp` | the fd sets, `maxfd`, `maxds` | `init`, `bumpmaxfd`, `select`, `wait`, `bumpds`, `fdset` |
| Win32 fs and notification | `win32/fs.cpp` | `hDirectory`, two notify buffers, `active`, `overlapped`, `error`, `failed` | the constructor, `readchanges`, `completion`, `process`, the destructor; `WinFileAccess::fopen` and `WinDirAccess::dopen`/`dnext` for folder scans; file-access wrappers |
| Crypto | `crypto/cryptopp.h` | — | cipher wrappers |

How the parts interact:

- Node records from the service build the remote tree.
- The local scan builds the LocalNode tree.
- `setnode` binds the two trees both ways: `Node::localnode` and `LocalNode::node`.
- `syncdown` starts a download (`Node::syncget`) for a remote file that has no local entry.
- `setparent` cancels those downloads when a node moves to a place no sync covers.
- A local move issues a remote rename through `setnameparent`.
- When a LocalNode is deleted while its sync runs, its remote node goes to `todebris`. From there it is moved into the dated SyncDebris folder.
- On Windows, `WinDirNotify` turns the kernel's change records for the synced folder into `notify(DIREVENTS, ...)` calls, and raises `DirNotify::error` when changes were lost, so the sync rescans.
- All of this runs on one event loop (spec §5), so each handler is one atomic step.
- The interleavings that matter are between the following:
  - the service's events: deliveries, moves and deletions;
  - the local scanner's events;
  - the completion of transfers.

## 2. Modules

### SyncTrees.tla (with MC_SyncTrees.tla)

This module models the remote tree and the local tree together, with the links between them.

**State.** Each variable corresponds to a code field:

- `nodes` is `client->nodes`.
- `parent` and `children` are `Node::parent` and `Node::children`.
- `dp` is the deferred-linkage vector.
- `localnode` and `syncget` are the fields of `Node`.
- `lnodes`, `lparent`, `lnode`, `deleted`, `fsid` and `fsidvalid` are the LocalNode fields. `fsidvalid` stands for `fsid_it != end`.
- `fsidnode` is `client->fsidnode`.
- `todebris` is `client->todebris`.
- `renames` holds the rename requests in flight.
- `syncstate` is `Sync::state`.

Names and payloads are abstracted to model values. Only the tree shape, the pointers and the indexes are kept.

**Actions translated from `node.cpp`:**

- `Deliver` is `Node::Node`: it links the node now, or queues it in `dp`.
- `SetParent` is `Node::setparent`. It includes the early return when the parent is unchanged, and the GET cancellation over the subtree unless a sync root is being moved.
- `Destroy` is `~Node`:
  - it leaves `todebris` and the parent's list;
  - it orphans the children;
  - it sets `localnode->deleted` and clears `localnode->node`;
  - it deletes `syncget`.
- `LocalInit` is `LocalNode::init` followed by `setnameparent` for a new entry.
- `LocalMove` is `setnameparent` for a moved entry. It issues `rename(node, parent->node)`.
- `SetFsid` is `setfsid`. It erases the node's own entry and revokes a previous holder.
- `SetNode` is `setnode`.
- `DestroyLocals` is the recursive `~LocalNode`. The node is released when the state is below INITIALSCAN; otherwise it goes through `movetosyncdebris`.

**Actions modelled from the spec.** Their code is not under `src/`, and PROJECT.json marks them `spec_modelled`:

- readnodes batches: `BeginRead` and `EndRead`;
- server moves, deletions and renames;
- `addsync`, scan completion and failure;
- `delsync`: `SyncCancel`;
- `syncdown`'s download start: `SyncGetStart`. Like `syncdown`, it only recurses into properly linked folders;
- download completion;
- `execmovetosyncdebris`.

**Assumption.** `movetosyncdebris` is taken to release the node's `localnode` when it queues the node. The code of that function is not in this repository.

### FaFetch.tla (with MC_FaFetch.tla)

This module models one file-attribute channel (`fileattributefetch.cpp`) and the network side that feeds it (`posix/net.cpp`).

**State.**

- `requested` and `fafs` are the application's requests and `client->fafs`.
- `dispatched` and `order` are the fetches posted in the current request, in the order their headers appear.
- `alive` is the set of fetches whose node still exists.
- `status`, `received` and `completed` are `HttpReq::status`, the length of `req.in` and the channel's parse offset.
- `delivered` records every attribute handed to the application, with its position and length.
- `oob` is a history flag: some read lay past the bytes received.
- `netfails` counts network failures, up to `MaxNetFails`.

**The response.** The service answers with one 12-byte header per fetch (handle and position), then the attribute data. The model keeps the byte offsets (`Bod`, `PosOf`, `ResponseLen`) and leaves out the bytes themselves.

**Actions.**

- `Dispatch` is the dispatch loop: it posts every fetch the channel holds.
- `Receive` is a piece of the response arriving. `Done` is `doio` finishing the request. `NetFail` is a failed request.
- `ParseSome` and `ParseFinal` are `parse` while the response is still arriving and after it is complete. The loop is `ParseLoop`, a RECURSIVE operator that follows the code's bound (`bod - 12`, or `bod` in the final pass), its skip of a fetch whose node is gone, and its failure on a missing fetch record or a length that is not a multiple of the block size.
- `AppCancel` and `NodeGone` are the application dropping a fetch and the node being deleted.

`USub` keeps the unsigned subtraction visible. TLC's integers stop at 2^31-1, so a wrap is shown as that value.

### TreeState.tla (with MC_TreeState.tla)

This module models the tree-state roll-up (`LocalNode::treestate`) over a small LocalNode tree.

**State.** `ts` and `dts` are `LocalNode::ts` and `dts`. `parent` and `alive` give the tree's shape.

**The roll-up.** `TS` is `treestate(newts)` as a RECURSIVE operator. It follows the code step by step:

1. set the node's own state;
2. set the parent SYNCING, or recompute the parent from its children, or leave it;
3. recurse on the parent with the default `NONE`;
4. record `dts`.

**Actions.**

- `Prepare` is `prepare()`.
- `Settle` is the transfer code setting a file SYNCED or PENDING. That code is not under `src/`.
- `Move` is `setnameparent` for a change of parent. It calls `treestate()` on the old parent, `treestate(SYNCING)` on the moved node when it has a remote node, and `treestate()` on the new parent.
- `Delete` is `~LocalNode` of a subtree. It calls no `treestate()`.

`NextStatic` holds the file events, which keep the tree's shape. `Spec` adds `Move` and `Delete`. The model leaves out the rename by a name change (line 750) and the call from `setnode`, because names are abstracted away.

### HttpIO.tla

This module models the cURL transport (`posix/net.cpp`) serving several `HttpReq` objects.

**State.** `status`, `httpstatus`, `in` (the length of `req->in`), `contentlength`, `httpiohandle` and `httpio` are the `HttpReq` fields. For each easy handle, `hstate` tracks its life inside cURL (unused, active, done, cleaned), `owner` is its `CURLOPT_PRIVATE`, and `hdrs` and `code` record the response received on it. `touched` is a history variable: the handles passed to cURL after `curl_easy_cleanup`.

**Actions.**

- `Post` is `HttpReq::post` followed by `CurlHttpIO::post`. It takes a fresh easy handle, or fails when `curl_easy_init` returns NULL.
- `Headers` is the response's status and length headers passing through `check_header` (`CheckHeader`, folded over the lines in the order they were sent). `Data` is `write_data`. `Finish` is cURL ending the transfer, completely or with the connection dropped.
- `Doio` reads every queued message at once, as the `while` loop does. `Outcome` is its status expression.
- `Disconnect` is `HttpReq::disconnect` calling `cancel`.

**Assumption.** `HttpReq::post` and `disconnect` are not under `src/`. They are modelled from the transport contract: post sets `httpio` and resets `contentlength`, and disconnect cancels only while `httpio` is set.

### PosixWaiter.tla and ClientLoop.tla (with MC_ClientLoop.tla)

`PosixWaiter` models the event waiter of `posix/waiter.cpp`. `ClientLoop` composes it with `HttpIO` into the client's loop on POSIX. The run client_loop checks the composition, including `HttpIO`'s own properties.

**The waiter.** A waiter is the record `[fds, maxfd, maxds]`. `fds` stands for the three `fd_set`s together. Its operations are operators on that record, named as in the code, so that one step of the loop can apply several in order:

- `init` is `PosixWaiter::init`: it records the timeout, sets `maxfd` to -1 and clears the sets;
- `bumpmaxfd` raises `maxfd`;
- `selected` is the set of descriptors `select()` hands to `::select()`, those below `nfds = maxfd + 1`. `timed` says whether a timeout is passed: `maxds + 1` is not 0;
- `returns` and `wait` are `PosixWaiter::wait`: `::select()` returns once a selected descriptor is ready or the timeout passed, and leaves in the sets only the ready descriptors.

**The loop.** All of the client runs on one thread (spec §5). `phase` says whether it is executing or sleeping in `select()`.

- In the exec phase, the application posts and disconnects requests (`LoopPost`, `LoopDisconnect`), `curl_multi_perform` reads the input on the sockets (`Perform`: HttpIO's `Headers`, `Data` or `Finish`), and `doio` reads cURL's messages (`LoopDoio`).
- `Sleep` is `MegaClient::wait()`, which is not under `src/`. Once perform has read all input, it calls `init` with a timeout from `MaxdsChoices` (one, or `NEVER`), then `addevents`, then `wait`.
- `addevents` is `CurlHttpIO::addevents`: `curl_multi_fdset` adds the transfers' sockets and reports the highest, then `bumpmaxfd`.
- `Wake` is `select()` returning.
- `Send` is the network making input ready on a transfer's socket, at any time.

`sock` gives each transfer in progress a socket, numbered by the OS as the lowest free descriptor, so numbers are reused as transfers end and start.

### NodeRecords.tla (with MC_NodeRecords.tla)

This module models the state-cache records: `Node::serialize`/`unserialize` and `LocalNode::serialize`/`unserialize` (`node.cpp`).

**Records.** A record is a sequence of fields `<<width in bytes, value>>`, and the decoders read it at byte offsets. So the model sees every length check and every read that crosses the end. A read of the `std::string`'s terminating NUL is legal and reads 0. A read beyond it is a read past the end; its value is undefined, and the model takes any value (the share count read past the end is 0 or 1). Field values are model values (`"h1"`, `"attrs"`, `<<"fa", 3>>`), not bytes. A damaged record has lost its last bytes (`Cut`). The field it cuts becomes a part of a field that matches nothing.

**State and actions.** The state holds:

- `obj`, the object written;
- `stored`: not yet, refused, or written;
- `rec`, the record as the cache holds it;
- `cut`, the bytes it lost;
- `out`, the outcome of reading it back.

`out` says whether a node was returned (`ok`), whether `new Node` registered one (`reg`), and whether a read went past the end (`oob`). The actions are:

- `SaveNode` and `SaveLocal`, the two `serialize`;
- `Damage`, the cache holding a torn record;
- `LoadNode` and `LoadLocal`, the two `unserialize`, each with all of its checks, the reserved-field loop (`SkipReserved`) and the final `ptr == end` (`AtEnd`).

**Assumptions.** Some code is not under `src/`, so it is modelled from the spec's record shapes (§6):

- the `nodetype_t` values and key lengths of `types.h`;
- `AttrMap::unserialize`, which reads a whole attribute block or runs past the end;
- `Serialize64`: a count byte and the value's bytes, yielding the value only when the whole encoding lies within the given length.

Share records are left out, so every modelled node has a share count of 0.

### NodeKeys.tla (composed into MC_NodeRecords.tla)

This module models a node's key, its attributes, and the client's fingerprint index `client->fingerprints` (`node.cpp`). It EXTENDS NodeRecords and starts where `Node::unserialize` leaves the decoded record. `KeysSpec` runs NodeRecords' cache round trip first, and then the session that follows it.

**State.**

- `knode[n]` holds each node's fields: alive, type, `keystring`, whether `nodekey` is set, the pending `attrstring`, the `'c'` attribute, the fingerprint fields and `fingerprint_it`.
- `index` is the multiset, kept as a bag of `<<node, fingerprint>>` entries; `it` is the entry a node's iterator points at, or `End`.
- A fingerprint is the `'c'` value when the attributes carry one, else `"key"` (derived from key and timestamp).

**Actions.**

- `LoadCached`: lines 270-292 of `unserialize`. The node is registered whenever the record got as far as `new Node` (`out.reg`), even if it is then rejected. It gets `setkey(k)` for a file or folder, and then `setfingerprint`.
- `Deliver`: the service delivers a folder (the root of an inbound share, with a personal key) or a file with a keystring and an attribute string. Delivery itself is in `readnodes`, which is not under `src/`; the constructor sets `fingerprint_it` to the end.
- `ApplyKey`: `applykey` uses the whole keystring when it has no `:`. Otherwise it uses the first entry that is for me, or for a share node we have together with its share key (`Suitable`, `Chosen`). Entries for other users are skipped. When `decryptkey` accepts the entry, the keystring is cleared and `setkey` runs `setattr`, which runs `setfingerprint`.
- `ShareKeyArrives` and `UpdateAttrs`: a share key arrives, and a new attribute string followed by `setattr()`. Both come from `MegaClient`, outside `src/`, and are spec-modelled.
- `DeleteNode`: `~Node` erases the entry and deletes the share key.

**Abstractions.** `decryptkey` is part of each keystring entry (`ok`). `decryptattr` accepts an attribute string when a key is set and the string is not `"bad"`. The client is logged in, so the folder-link case where `me` is the root node's handle is not modelled. The attribute JSON is reduced to the `'c'` value it carries. Attributes are stored over the old ones, so an update without `'c'` keeps the old `'c'`.

### WinDirNotify.tla (with MC_WinDirNotify.tla) and NotifyStream.tla

`WinDirNotify` models the Windows change notifier (`win32/fs.cpp`, lines 558-691) together with the kernel side of `ReadDirectoryChangesW`. `NotifyStream` is the abstract specification of what a notifier promises the sync (spec §5, §6). `WinDirNotify` is shown to implement it.

**State.**

- Kernel side: `osq` holds the changes recorded for the handle and not yet returned, at most `BufCap` of them. `ovf` says the record overflowed. `armed` is the buffer of the outstanding read.
- `buf` is `notifybuf[0..1]`. It holds change indices, not bytes.
- `apc` is the queued completion routine: none, a completion with data, one with 0 bytes (after an overflow), or an aborted read.
- `active`, `error`, `failed` and `hdir` are the fields `active`, `error`, `failed` and `hDirectory`. `alive` says whether the object exists.
- `parsing` and `pos` are `process()`'s `ptr`: the buffer it parses and the entry it has reached.
- `delivered` is the sequence of `notify` calls. `freeduse` is a history flag: a routine ran on a destroyed notifier.

**Actions.**

- `Init` is the constructor: `CreateFileW`, then `readchanges()` (`ReadChanges`). Every `ReadDirectoryChangesW` call succeeds, fails with `ERROR_NOTIFY_ENUM_DIR` (sets `error`), or fails otherwise (sets `failed`).
- `Change` and `Complete` are the kernel. They are `spec_modelled`. A change is recorded while the handle is open. A full record is dropped and marks an overflow. A completion copies the record into the armed buffer, or completes with 0 bytes after an overflow, and queues the routine.
- `Completion` is `completion()`, run in an alertable wait, so never during `process()`. It ignores an aborted read; otherwise it calls `process()` (`Process`) on the object `hEvent` points to.
- `Process` is `process()` up to its loop: 0 bytes re-arms and sets `error`. Otherwise it takes the active buffer, flips `active`, and re-arms the read on the other buffer.
- `ParseEntry` is one turn of the loop, with the filter `Reported` (the old name of a rename, the debris folder and everything under it are skipped). The kernel may complete the new read between any two entries.
- `Destroy` is `~WinDirNotify()`: `CloseHandle` aborts the armed read. A routine already queued stays queued.
- `ClearError` is the sync answering `error` with a rescan. It is `spec_modelled`.

### WinDirScan.tla and WinSync.tla (composed into MC_WinDirNotify.tla)

`WinDirScan` models one scan of a folder on Windows. The sync opens the path with a `WinFileAccess`, hands the find handle to a `WinDirAccess`, and reads the entries. The order in which the sync makes these calls is not under `src/`; it follows spec §6.

**State.**

- `fa` and `da` are the two objects. `fa` holds `hFile`, `hFind`, `type`, `retry`, `fsid` and the position of `ffd`. `da` holds `hFind`, `ffdvalid` and its position in the listing.
- `os` is the OS handle table. `"hf"` comes from `CreateFileW` and `"hs"` from `FindFirstFileW`. Each is either Closed or open on an object.
- `pathobj` is the object at the path now. `listed` is what `dnext` returned.
- Attributes are `FILE_ATTRIBUTE_*` bit masks, tested with `Bitwise`'s `&`. Names are character sequences.

**Actions.**

- `ScanBegin` and `ScanInit` are the `WinFileAccess` constructor.
- `fopen(read)` is split into three steps, at the points where another process can act:
  - `FOpenAttrs` is `GetFileAttributesExW`, including the `skipattributes` early return.
  - `FOpenCreate` is `CreateFileW` and the fsid. A folder opened as a file fails with a transient `ERROR_ACCESS_DENIED`.
  - `FOpenFind` is `FindFirstFileW` and `CloseHandle(hFile)`. On failure, `hFile` stays open.
- `DOpen` is a new `WinDirAccess` and `dopen(name, f, false)`, which moves `hFind` and `ffd` over.
- `DNext` is `dnext`, with its test `Returned`: not `skipattributes`, and not a folder named `.` or `..`, read character by character as in the code.
- `DeleteDA` and `DeleteFA` are the destructors. They run in either order.
- `Replace` is another process renaming or deleting the object at the path (`spec_modelled`). It is refused while `"hf"` is open on that object, because `CreateFileW` does not share delete access.

`WinSync` composes the notifier and the scan on the client thread. A scan is under way at start. `Rescan` is `ClearError` together with `ScanBegin`, once the previous scan's objects are gone.

**The refinement.** `StreamPending` maps the implementation to the abstract `pending`. It is the rest of the buffer being parsed, then a completed buffer whose routine is queued, then the kernel's record. The abstract `error` is `error`, or an overflow not yet reported. The abstract `off` is a closed handle. `NotifyStream` says that changes are reported in order and at most once, minus rename old names and debris paths, and that a change is lost only with the error signal raised (`Overflow`). Its `Reportable` defines the debris test on path components (RECURSIVE `Components`, `IsPrefix`).

## 3. Runs

| Run | cfg | Expect | What it shows |
|---|---|---|---|
| sync_trees | `SyncTrees.cfg` | pass | The properties below hold over every interleaving of deliveries, server moves and deletions, local creation, moves, fsid changes, bindings, GETs, debris moves, failure and cancellation. |
| sync_get_escape | `SyncGetEscape.cfg` | violation | A sync download outlives the node's move out of the sync (16 states). |
| rename_target | `RenameTarget.cfg` | violation | The `assert(parent->node)` in `setnameparent` is reachable (11 states). |
| fa_fetch | `FaFetch.cfg` | pass | The properties below hold for every split of the response into pieces, network failures, and fetches dropped or whose node is deleted mid-flight. |
| fa_final_pass | `FaFinalPass.cfg` | violation | The final pass delivers the first of two attributes with the second's bytes attached (7 states). |
| tree_state_shape | `TreeStateShape.cfg` | pass | File events interleaved with moves and deletions. The file `z` has no remote node, so its moves take `setnameparent`'s branch without `treestate(SYNCING)`. Every folder is SYNCING exactly when a child is, until the first move or deletion. No node that has a remote node is ever SYNCING under a folder that is not SYNCING. |
| tree_state_stale | `TreeStateStale.cfg` | violation | A deleted or moved uploading file leaves a folder's state stale. The trace shows the deletion (3 states). |
| client_loop | `ClientLoop.cfg` | pass | The transport driven by the loop and the waiter. `doio` reports SUCCESS exactly for a complete 200 response, whatever the header order, compression, dropped connections and init failures. No easy handle is used after its cleanup while every `curl_easy_init` succeeds. `select()` watches exactly the transfers' sockets, and input on a socket is always read eventually. |
| node_records | `NodeRecords.cfg` | pass | Every intact record of 288 Node and 64 LocalNode objects reads back as written. Every record cut by 1, 2, 3 or 5 bytes is rejected. After the cache is read, the fingerprint index stays exact through key application, attribute updates and deletions (1.7 million states). |
| node_records_overread | `NodeRecordsOverread.cfg` | violation | Reading back an intact LocalNode folder record copies its crc from past the end (3 states). |
| win_dir_notify | `WinDirNotify.cfg` | pass | The notifier implements the abstract notification stream. This holds whatever the order of kernel completions, routines and parse steps, and with overflows, failing re-arms and destruction. Every change recorded under an armed read eventually reaches the sync, or the error is raised. The debris filter agrees with the path definition over all names up to 3 characters. The sync's folder scans own every OS handle exactly once and list exactly the synced entries of the folder `fopen` identified, while the path is replaced by another process (115,000 states, 90 s). |
| win_dir_freed | `WinDirFreed.cfg` | violation | A read that completed before `~WinDirNotify()` runs its routine on the destroyed object (5 states). |

**Properties of sync_trees:**

- `ParentChildConsistent`: parent and children pointers agree, and none dangles, whatever order a subtree is purged in.
- `LinkageMatchesServer`: after a batch, every node hangs exactly under the parent the service has for it, whatever order the records came in.
- `BindingSymmetric`: `Node::localnode` and `LocalNode::node` are mutual and never dangle. This must survive `~Node`, `~LocalNode` and re-binding.
- `FsidIndexExact`: the fsid index and the `fsid_it` claims agree, so no fsid has two owners. This must hold even after a revoked holder changes its fsid or is destroyed.

**Properties of fa_fetch:**

- `HeadersInReceived`: no parse reads a header, or the position of the next header, past the bytes received, for any split of the response.
- `FetchesResolve` (liveness): every fetch the channel holds is eventually answered, dropped, or has its node deleted.

**Properties of tree_state_shape:**

- `SyncingExactUntilReshaped`: until the first move or deletion (the history flag `reshaped`), a folder is SYNCING exactly when one of its children is (`SyncingExact`).
- `SyncingUpwardBound`: no SYNCING node that has a remote node lies under a folder that is not SYNCING. It depends on the shortcut in `treestate()` and on `setnameparent` issuing `treestate(SYNCING)` after moving a bound node. The claim is not made for unbound nodes: moving an uploading file that has no remote node leaves its new folder showing synced (finding 4). The run includes such a file (`z`), so those moves interleave with everything else. A version of the property over all nodes fails in this run.
- `TypeOK` also requires that no live node has a destroyed parent.

**Properties of client_loop:**

- `ResultExact` (action property): every `doio` sets SUCCESS exactly when the status was 200 and the whole decoded body arrived.
- `NoUseAfterCleanupUnlessInitFailed`: until a `curl_easy_init` fails (the history flag `initfailed`), no easy handle is removed or cleaned up after `curl_easy_cleanup` (`NoUseAfterCleanup`). A failed init is enough to break `NoUseAfterCleanup`; see the hazard at `net.cpp:113`.
- `SelectWatchesTransfers`: while the loop sleeps, `select()` watches exactly the sockets of the transfers in progress. This must hold as transfers start, end and reuse descriptor numbers between turns. It depends on `init` clearing the sets that `::select()` left behind, on `addevents` raising `maxfd`, and on `nfds = maxfd + 1`.
- `InputEventuallyRead` (liveness): input on a transfer's socket is eventually read by cURL, even when the loop sleeps with no timeout.

**Properties of node_records:**

- `NodeRoundTrip`: an intact record of a node with a resolved key reads back with the same type, handle, parent, owner, timestamps, key length, file-attribute string, attribute block, and size of a file (spec §8).
- `LocalNodeRoundTrip`: an intact LocalNode record reads back with the same type, fsid, parent dbid, bound node, name, and for a file the same size, crc and mtime.
- `DamagedRejected`: no record that lost bytes at its end is returned as a node.
- `IndexExact` (NodeKeys): the fingerprint index holds exactly one entry for each live file node that has its key and has read its attributes, filed under the fingerprint of its current attributes, and nothing else. This must hold however cache loading (a rejected record included), key application, attribute updates and deletion interleave. It depends on `setfingerprint` erasing the old entry before it re-files the node, and on `~Node` erasing the last one.

**Properties of win_dir_notify:**

- `StreamRefined` (temporal): `Stream!Spec`, the abstract notification stream under the refinement mapping above.
- `ChangesReachSync` (liveness): a change the kernel records while a read is armed eventually reaches the sync. It is passed to `notify()`, or the filter drops it, or `error` or `failed` is raised, or the notifier is destroyed. This holds only if the completion routine, the re-arm on the other buffer and the parse loop keep the chain going.
- `HandleOwnership` (WinDirScan): every open OS handle has exactly one owner among the live `WinFileAccess` and `WinDirAccess`. No live object holds a closed handle, and no handle is closed twice. This covers `fopen`'s failure paths (including `FindFirstFileW` failing with `hFile` open), the move in `dopen`, and either order of the destructors.
- `ScanExact` (WinDirScan): once `dnext` returns false, the scan has returned exactly the entries of the enumerated folder that are synced, in order. That folder is the one whose fsid `fopen` recorded. The reference, `Expected`, decodes the flags with division instead of `&`.
- `ParseNotOverwritten`: the kernel never has a read armed on the buffer `process()` is parsing. This relies on `active ^= 1` coming before `readchanges()`.
- `IgnoreExact`: whenever `process()`'s loop is filtering, its byte test against the debris path (length, prefix, then the separator after it) agrees with "the name is the debris folder or lies inside it", for the entry being parsed and for every name of up to 3 characters over `d`, `y` and `\`, and every action.

**Bounds.** 
The SyncTrees runs use the account below:

- root R;
- synced folder A, holding file F;
- SyncDebris folder D;
- for the violation run, a folder B outside the sync.

Locally there is the root l0, a folder l1 and a file l2. The runs use one or two fsids and at most one rename in flight (`MaxRenames`).

Every state-changing path of the handlers occurs:

- deferred and immediate linkage;
- a move onto the current parent (a debris move of a node already in D);
- a purge in both orders;
- revocation of an fsid holder;
- a debris move refused by the service.

With the folder B and two fsids, the state space grows past 6 million states. So B appears only in the violation run, which needs it.

FaFetch uses two fetches whose attributes are 16 and 32 bytes long. That gives two headers, data of different lengths, and a final pass with more than one attribute left. It allows at most one network failure. TreeState's runs use a root `r`, a folder `a` under it, and a folder `b` under `a`, with files `x` (in `a`), `y` (in `b`) and `z` (in `r`). So there are three levels, a folder holding both a file and a folder, and moves both up and down the tree. In tree_state_shape every node except `z` has a remote node. In tree_state_stale only `x` has one.

WinDirNotify uses four changes: a file `x`, a file in the debris folder `d\y`, and a rename (old name `x`, new name `dy`, a name that starts with the debris path but is not inside it). With `BufCap` 2 the record overflows on the third change, and two reads can complete while a parse is under way. So both buffers are in use, the filter's three cases occur, and the overflow path, all three `ReadDirectoryChangesW` outcomes and destruction with a read armed or a routine queued are explored.

The scans use three objects:

- Folder `F1` lists `.`, `..`, a hidden file `a`, a folder `.a`, a hidden system file `s` and a reparse-point folder `r`. So each branch of `skipattributes` and of the dot test is taken.
- Folder `F2` and file `X` can replace `F1` at the path, or the path can be deleted, up to twice.

This reaches every failure of `fopen`, a scan of the new folder, and rescans after `error`.

client_loop uses two requests and two easy handles. Two transfers can have sockets at once, so a lower descriptor can close while a higher one stays open. Alternatively, one request is posted again after its response and its new socket reuses the number. The loop sleeps with a timeout or with none. A third easy handle multiplies the composed state space beyond 16 million states, so the third handle that HttpIO's checks used before the composition was dropped. The bodies are 2 bytes long, or 1 byte compressed. That is enough for a truncated body, for a compressed body whose Content-Length differs from its decoded length, and for both header orders.

NodeRecords enumerates Node objects of three types (file, folder, root), with and without a parent, with right and wrong key lengths, decrypted or not, and with file-attribute strings of 0 and 3 bytes. The LocalNode objects are files and folders, bound or not, with empty and 3-byte names and mtimes of 1 and 5 encoded bytes. A cut of 1, 2, 3 or 5 bytes falls inside the attribute block, across it into the share count, inside an mtime, and across an mtime into a crc. Times stay within 32 bits; see the hazard at `node.cpp:202`. After the round trip, NodeKeys has three nodes: the cached one (file, folder or root, as the record says), a share root, and a delivered file. The file's keystring is one of two. In the first, another user's entry comes before the share's, so the key applies once the share key arrives. In the second, a share entry that does not decrypt comes before one for me. Attribute strings are `bad`, `noc` (no `'c'`) and `c1`. One `'c'` value besides `"key"` is enough for a node's fingerprint to change, and for a re-filing that skips the erase to leave a duplicate.

**Deadlock.** Deadlock checking is off. The environment can run out of work: every node deleted, or the sync cancelled. The client's loop then just waits.

In ClientLoop, the pool of easy handles is bounded, so posting stops once it is used up, and with no timeout the loop then sleeps for good. In FaFetch, once every fetch is answered the channel stays idle. In TreeState, every node except the root may be deleted. In NodeRecords, a record's life ends once it is read back. In WinDirNotify, the changes run out, a re-arm may fail, or the notifier is destroyed.

**Fairness.** `FetchesResolve` and `InputEventuallyRead` are the liveness properties. `FetchesResolve` assumes weak fairness of `Dispatch`, `Receive`, `Done`, `ParseSome` and `ParseFinal`. The client's loop calls `dispatch` and `doio` on every iteration, the service eventually answers, and `parse` runs on every piece that arrives. Network failures, cancellations and deletions are not fair: they may never happen. `InputEventuallyRead` assumes weak fairness of the loop thread's own steps: `Sleep`, `Wake` and `Perform` on each handle. The thread is never starved, because nothing else runs on it. `Perform` stays enabled while there is input, because `curl_multi_perform` reads all of it before the loop sleeps. The network, the service and the application get no fairness.

`ChangesReachSync` assumes weak fairness of three steps:

- the kernel completing an armed read that has changes;
- the completion routine running;
- `process()`'s parse loop.

The client thread waits alertably on every turn of its loop, and the parse loop runs inside the routine. The filesystem, destruction, the scan's calls and the rescan get no fairness.

## 4. Findings

1. **`node.cpp:659` (run sync_get_escape).** `setparent` decides "the new location is synced" by finding any ancestor with a `localnode`. Here is the sequence:
   - The server moves a synced folder out of the sync. It keeps its `localnode`.
   - A file with a running download is moved into that folder. Its download is not cancelled.
   - `delsync` cancels only under the sync root, so the download survives even the sync's removal.
   - The download then writes a file for a node outside any sync.

   Spec §4.1 says such transfers are cancelled.
2. **`node.cpp:769` (run rename_target).** A bound entry is moved locally into a new folder that has no remote node yet. `assert(parent->node)` then fails. In a build without asserts, `rename` gets a NULL target.

3. **`fileattributefetch.cpp:104` (run fa_final_pass).** The final pass gives every remaining attribute the end of the response as its end. When two attributes are left, the first is decrypted and delivered with the second's bytes.
4. **`node.cpp:995`, `762` and `785` (run tree_state_stale).** `treestate()` recomputes a node's parent, never the node itself.
   - `~LocalNode` leaves its parent through `setnameparent(NULL, NULL)` and calls no `treestate()`. So a folder whose uploading file is deleted keeps showing SYNCING.
   - `setnameparent` calls `treestate()` on the old and the new folder. Neither call recomputes that folder. So the folder an uploading file leaves stays SYNCING.
   - An upload without a remote node gets no `treestate(SYNCING)`, so the folder it moves into shows synced.
5. **`node.cpp:1243` (run node_records_overread).** `LocalNode::unserialize` calls `memcpy(l->crc, ptr, sizeof l->crc)` for every type. The fingerprint length check (line 1216) applies to files only. In an intact folder record, `ptr` is at the end, so the copy reads 15 bytes past the string's NUL every time a folder record is loaded.
6. **`win32/fs.cpp:568` (run win_dir_freed).** `completion()` filters only `ERROR_OPERATION_ABORTED` and then calls `process()` through `lpOverlapped->hEvent`. `~WinDirNotify()` only closes the handle. A read that completed, with its routine queued, before the destructor ran is delivered in the next alertable wait to the freed object, which reads its buffers and calls `readchanges()` on it.

More hazards are recorded in PROJECT.json without a violation run:

- `treestate()` (line 860) recurses on the parent with the default `NONE` and recomputes the next level only if `newts != dts`. For a folder never reported (`dts` NONE) this test is false, so a file going PENDING makes its folder PENDING and stops there.
- `doio` frees a finished request's easy handle but leaves it in `httpiohandle` (`net.cpp:113`). When the request is posted again and `curl_easy_init` fails, the next disconnect cleans up the freed handle again. `HttpIO`'s `NoUseAfterCleanup` states it; client_loop checks it only while every init succeeds.
- `addevents` never asks `curl_multi_timeout`. While cURL works without a socket (`max_fd` -1), the loop relies on `MegaClient::wait` to schedule a timeout (`net.cpp:58`).
- `readchanges()` failing with `ERROR_NOTIFY_ENUM_DIR` on a re-arm sets `error` but leaves no read armed and `failed` false, so notifications stop for good (`fs.cpp:637`). `ChangesReachSync` only covers changes recorded while a read is armed, so it does not reach this case.
- `Node::unserialize` registers the node (`new Node`, line 271) before it checks the attribute block and `ptr == end`. A record rejected there returns NULL but leaves the node registered.
- Its check `i >= 0` after the reserved-field loop (line 248) is dead, because the loop always ends with `i == -1`.
- `applykey` commits to the first suitable entry of a compound key (`node.cpp:609`). If `decryptkey` fails on it, the keystring is kept and the later entries are never tried. A share key that arrives for an earlier bad entry therefore turns a node that could be decrypted into one that never is. The spec says undecrypted nodes are retried when share keys arrive; the model has the case, but no run claims eventual decryption, which the code does not provide.

## 5. Not modelled yet, and the plan

- **FileAttributeFetch.** Only well-formed responses are modelled. A malformed first position below 12, which wraps `bod - 12`, is left for a later run.
- **HTTP I/O.** Still left out: the cURL setup, `postpos` and the SSL pinning callbacks. A response with no length header at all (`contentlength` stays -1, so it can never succeed) is not explored.
- **Tree state.** Still to add: the rename by a name change and the `treestate()` call from `setnode`.
- **Serialization.** Still left out: share records (`Share::serialize` is not under `src/`), timestamps beyond 32 bits, and a run that asserts that a rejected record registers nothing.
- **WinDirNotify and scans.** `addnotify` only records the root LocalNode and is left out. A replaced path is not linked to a change notification, and the scan does not carry size or mtime, so the size/mtime-versus-fsid mismatch at `fs.cpp:195` is not checked. `dopen` by path and glob are not used by the scan.
- **TransferEngine.** Only declared under `src/`. Plan: a spec-modelled queue and slot module.
- **Left out:**
  - `Waiter::bumpds` reads the clock, and `fdset` copies the sets out to an application that runs its own `select()`. Neither changes state that the loop reads.
  - The `select()` timeout is kept only as set or not set; see the hazard at `waiter.cpp:81`.
  - Crypto and the remaining Win32 file-access wrappers (`sysread`, `fwrite`, `sysstat`, rename, copy, unlink, mkdir, setmtime, path conversion). They are single OS calls or cryptography, with no client state a property could tell apart. On a write open, `fopen` computes mtime from an uninitialized `fad` (`fs.cpp:216`); this is recorded as a hazard.
  - `copystring`, `displayname` and `hasfileattribute`: string helpers that change no state. The attribute JSON parsing is reduced to the `'c'` value, and the not-logged-in case of `applykey` is left out.
