# Verification of the Baidu Cloud CCE CSI drivers

This directory models the CDS and BOS CSI drivers of this repository in TLA+,
checks the models with TLC and proves theorems about them with TLAPS.

Contents: 1 inventory, 2 modules, 3 runs, 4 findings, 5 proofs, 6 assumptions
about the environment, 7 what is not covered, 8 plan.

## 1. Inventory

One binary (`src/cmd`) runs one of two CSI drivers as a gRPC server; every call
runs in a goroutine of its own. The CDS driver has two modes: the controller
(a Deployment of two replicas behind the external-provisioner, -attacher and
-resizer sidecars) and the node server (a DaemonSet behind the kubelet). The BOS
driver is a node server only.

| component | state it keeps | operations | hard behaviour | what makes it correct |
|---|---|---|---|---|
| CDS controller, provisioning (`pkg/driver/cds/controller.go`, `pkg/cloud/cds.go`) | per process: singleflight group by volume name, `inProcessRequests` by request, `creatingVolumeCache`; in the cloud: the volumes | CreateVolume, DeleteVolume | replicas without shared state, flights that outlive their callers, lost replies, crashes, a cloud that lists a new volume late | one volume per name; all callers get it; deleted stays deleted; every name is served in the end |
| lookup by name (`GetVolumeByName`, `pkg/cloud/cds.go:158`) | a marker and the volumes found, during a call | one ListCDSVolume per page | volumes come and go between two pages | the answer was true at some moment of the call |
| CDS controller, attaching and expanding (same file) | singleflight groups by volume id | ControllerPublish/UnpublishVolume, ControllerExpandVolume | asynchronous cloud, decisions on stale reads, calls for different nodes in one flight | published means attached, unpublished means detached, an expansion is not undone |
| size arithmetic (`getVolumeSizeGB`, `sizeInGBMeetCapRange`, `pkg/util/util.go`) | none | three uses in create and expand | bytes against GB, int64 overflow | the size meets the range, a resize grows |
| CDS node server (`pkg/driver/cds/node.go`, `mount.go`) | `inProcessRequests`; mounts, paths and file systems of the node | NodeStage/Unstage/Publish/UnpublishVolume, NodeExpandVolume; NodeGetVolumeStats | handlers that outlive the kubelet's call or the attachment, restarts of driver and node, partial failures, a device that shows its new size late or has another name by then | never formatted twice; staged and published paths show the volume; unstaged leaves nothing; expanded means grown |
| BOS node server and mounter (`pkg/driver/bos`) | the bosfs container, its FUSE mount, the target path, the credentials file | NodePublish/UnpublishVolume | container life cycle beside the handlers, disconnected mounts, overlapping calls | published keeps its container and gets mounted, unpublished leaves nothing, no container without its files |
| CCE gateway signer (`pkg/cloud/ccegateway`, `pkg/cloud/auth.go`) | per call: token and expiry; in the pod: the two files of the token volume | Sign, once per attempt of a request | rotation between the two reads, files missing, empty or garbled, requests signed again | a request is signed whole or not at all, no token is older than its call, an expired one is not used |
| startup (`src/cmd`, `pkg/driver/*/driver.go`, `pkg/driver/common/topology.go`, `server.go`, `pkg/cloud/metadata.go`) | node id, zone and cluster id, read once; the socket file | ParseFlags, NewDriver, serve, NodeGetInfo | sources that fail halfway, a node object that is being filled in, a killed process | the kubelet is told the node's own id and zone; what can serve does |
| validation, secrets, identity, clients for nodes and buckets | none | checks, constant answers | - | - |

Interaction: the sidecars and the kubelet call the servers and repeat a call
until it is answered OK. `CreateVolume`, `ControllerPublishVolume` and
`ControllerUnpublishVolume` wrap their handler into `retryOnAborted`: the first
caller's goroutine runs the handler again and again while it answers Aborted,
later callers with the same key wait for its result. Controller and node server
share nothing but the volume itself; the node server finds the device by the
serial that publishing returned. With auth mode `gateway` every controller call makes
a signer of its own (`getAuth`) and sends its cloud requests through it. What the
node server tells the kubelet at startup (`NodeGetInfo`) is the node id that
`ControllerPublishVolume` gets later.

## 2. Modules

| module | models |
|---|---|
| `CdsProvision` | CreateVolume and DeleteVolume on several replicas over the cloud |
| `VolumeLedger` | abstract specification of provisioning: what is promised for a name |
| `CdsProvisionProofs` | theorems about `CdsProvision`, its refinement of `VolumeLedger` |
| `VolumeListing`, `VolumeListingProofs` | GetVolumeByName page by page, theorems about it |
| `CdsAttach` | publish, unpublish and expand of one volume |
| `VolumeSeat` | abstract specification of attaching: one volume, one seat, who is promised what |
| `CdsAttachProofs` | theorems about `CdsAttach`, its refinement of `VolumeSeat` |
| `VolumeSize`, `VolumeSizeProofs` | size arithmetic with int64, theorems about it |
| `CdsNode`, `CdsNodeProofs` | stage, unstage, publish, unpublish and expand of one volume on one node, theorems about it |
| `BosNode`, `BosNodeProofs` | publish and unpublish of one target path, with docker and bosfs, theorems about it |
| `GatewayToken`, `GatewayTokenProofs` | the signer of the gateway over a token volume, theorems about it |
| `DriverStart`, `DriverStartProofs` | a driver process from its flags to its socket, theorems about it |
| `MC...` | instances for TLC: symmetry sets, amounts of bytes |

Conventions. Each handler is a sequence of steps, one per request to the cloud,
to docker or to the kernel, so that everything else can happen in between; what
a handler computes without such a request belongs to the step before it. The
program counter `pc` of a handler names the request it sends next. `Fault(kind)`
guards every fault of the environment: the constant `Faults` says which kinds a
run admits and `MaxFaults` bounds their number; with `Faults = {}` nothing goes
wrong. A fault that a property makes an exception for leaves a trace: `faults.kinds`
remembers which of the `Lasting` ones happened.
Actions called `...Hasty`, `...Locked`, and so on, marked "Mutant of", are no part of
a specification: they are wrong versions of an action, which the properties must catch.

### CdsProvision

| state | code |
|---|---|
| `flight[r][n]` | an execution in `createVolumeGroup` of replica `r` (controller.go:57-62, 121-157), with the request of the caller that started it |
| `locks[r]` | `inProcessRequests` (keymutex.go): keys are whole requests, here name and size |
| `cache[r]` | `creatingVolumeCache` |
| `vol[v]` | the cloud's volume; `seen` says which read path knows it |
| `call[c]` | an outstanding CreateVolume or DeleteVolume |
| `answered`, `retired`, `removed` | history: answers OK, names being deleted, deletions answered OK |

`CreateVolume` starts or joins a flight; `Enter` is TryLock and the argument
checks; `LookupMisses`/`LookupHits` are GetVolumeByName with the cache check and
the branch for an existing volume; `CreateSucceeds`/`CreateReplyLost` the create
request with Store; `Fetch` GetVolumeByID with the deferred Delete of the cache
entry; `Retry`/`Finish` the loop of `retryOnAborted` (its two seconds and its
deadline are a free choice between the two). `Return` includes the deferred
Unlock. DeleteVolume is `DeleteVolume`, `DeleteLookup`, `DeleteOnCloud`. Sizes
stand for requests that differ; `Rejected` are those the argument checks refuse.

### VolumeListing

`vols[i]` is the volume with id `i`, if any, and whether it has the name looked
for; `marker`, `volumes` and `answer` are those of the code. `ListPage` is one pass
of the loop: the page the cloud returns, the search of it, and `NextPage` or
`LastPage`. `truths` is history: what one look at all volumes would have answered at
each moment of the call. The cloud lists in the order of the ids, NextMarker is the
first volume behind the page, and no two volumes have the name at the same time,
which is what `CdsProvisionProofs` proves. So the lookup that `CdsProvision` takes
for one step is right, with one exception: a name whose volume is deleted and made
again during the lookup may be answered with ErrMultiVolumes (the second part of
`AnswerWasTrue`).

### CdsAttach

`pub` and `unpub` are the flights of one volume in the two groups, `expand[e]`
the calls of the resizer, `co[n]` what the attacher wants or was told of node
`n`, `vol` the volume with the status predicates of cds.go:263-297 as one status.
`PubNode`, `PubGet`, `PubAttach`, `UnpubGet`, `UnpubNode`, `UnpubDetach`,
`ExpandGet`, `ExpandResize` follow the order of the requests in the code, with all
that is decided on an answer. The cloud refuses a request that does not fit the
volume's status when it arrives, and completes (`CloudDone`) or rolls back
(`CloudFails`) what it began. `Exclusive` tells whether the orchestrator uses the
volume at one node at a time, as Kubernetes does for ReadWriteOnce volumes.

`VolumeSeat` is what publish and unpublish promise, without flights, requests or
faults: a seat that somebody sits on, for good or not, and who has been told so.
`Seat` in `CdsAttach` maps the volume, its node and the answers to it.

### VolumeSize

`GB` and `Half` (2^63) are constants, so that TLC checks with a small width and
the proofs hold for every one. `Wrap` is int64 wrap-around, `Quotient` Go's
division. Creating is one step, and so is each answer of expand. The cloud is
assumed to refuse a size that is not positive.

### CdsNode

`staging` and `target` are paths with the stack of what is mounted on them,
`dev` the device name of the attached volume, `name` what the cloud calls it, `fs` its
file system (`raw` for a volume used as a block device), `call[c]` a
running handler, with `ctx` false once its caller has gone; only `GetDevPath`
and `GetDeviceSize` stop with their context. `lock` is `inProcessRequests`: a stage
request is locked as a whole (node.go:144), and what tells two stage requests for the
volume apart is the device name in their publish context (controller.go:457-460), its
`key`. The kubelet repeats the same request while the volume stays attached; after it
has been attached again the key may be another one. `Renaming` says whether the cloud's
name for the device may differ from the node's: the driver uses it for nothing but the
lock and a label.

A name that a handler has found may be the volume's, another device's or nobody's by
the time it is used, and a bare directory is on a disk of the node: `Found(d)` are
these possibilities, and every step that uses a name takes any of them. FormatAndMount
is three steps (look for a file system, make one, mount). `GetDeviceNameFromMount`
returns the first mount of a path, a process sees the last. The kubelet publishes only
what is staged, makes one call at a time and may go from staging or publishing to
undoing it. In a crash the commands of the handlers die with the driver's container.
Three traces are kept: that a handler outlived its call (`Overlapped`), that the volume
was attached again while a handler or a mount of an earlier attachment was left
(`Outrun`), and that a bare directory was published (`BareShown`).

Expanding: `growth` is how far an expansion has come (asked of the cloud, seen by the
device, told to the kubelet), `fs` says whether the file system has grown with it. The
kubelet expands a staged or a published path; `ExpandCheck`, `ExpandSize` and
`ExpandResize` are GetDeviceNameFromMount, GetDeviceSize with the check against the
request, and ResizeFS, of whatever device that name is by then. The device shows the new
size at any time after the cloud has made it (`Appear`). A file system made on the
larger device has its size.

### BosNode

`cont` is the container named after the target path, `mnt` the mount that bosfs made
(`live`, or `dead` when bosfs ended without unmounting: every file operation on it fails
with "Transport endpoint is not connected"), `dir` the target path, `creds` the
credentials directory and file, `phase` what the kubelet was told. A target path belongs
to one pod: after unpublish was answered OK it is never used again, which is why
deadlock is not checked. A handler stops waiting for docker once its context is
cancelled (`Cancelled`), when a request fails (`Fails`) and when the process dies
(`Crash`); file operations do not notice the context. Docker may still carry out a
request nobody waits for: `StopWaiting` keeps any of those that change something in
`late`, at most `MaxLate` of them, and `Late` carries one out or drops it. WriteFile of
the credentials is two steps: `PubOpen` truncates the file, `PubFill` writes it. A write
stopped in between leaves the file empty (`Torn`); bosfs then finds no credentials and
ends, and docker starts it again (`BosfsFails`, `Restart`). The health check (`Probe`)
is a stat of the path, which succeeds on the bare directory as well. Abstracted: the
status "dead" takes the branch of "exited", "removing" that of "restarting"; nobody
pauses a container; ids may be reused once no handler remembers them.

### GatewayToken

| state | code |
|---|---|
| `signer` | `bceSigner.Token` and `ExpiredAt` (bcesigner.go:60-64); the signer of one call |
| `vol` | the files `token` and `expiredAt` of the volume |
| `work` | where the call is: in Sign, between the reads of ensureToken, or with the request sent |
| `req` | the headers `cce-token` and `cce-remote-host` and the host of the request |
| `held` | history: the tokens the volume has held during the call |

A token is named by the time it has left, and `Tick` makes everything older by one
unit; an expiry is valid while it is more than zero. `SignWithCached` is Sign with a
valid cached token, `Refresh`, `ReadToken` and `ReadExpiry` are the way through the
volume, `KeepToken` is ParseInt with the two assignments in the order of the code
(the expiry first, the token only without an error), `SetHeaders` is the rest of
Sign. `Spoil` withdraws the files, empties the token (which the code takes, and sets as
the header) or leaves an expiry that is no number, or a number beyond int64: ParseInt
then returns the largest int64 (`Forever`) with its error, and the signer keeps that
expiry with the token it had. `Retry` and `NextRequest` are the SDK and the handler,
`NewCall` is `getAuth`.
The sources secretGetter and tokenGetter (bcesigner.go:179-217) are never set in
this repository and are left out.

### DriverStart

`flags` are the flags and NODE_NAME, `node` the provider id and the two labels of the
node object, `options` the node id, zone and cluster id of `DriverOptions`, `socket` the
file of the unix socket, `told` the last answer of NodeGetInfo (`Untold` until there is
one, which no answer equals). The process goes through `Start` (ParseFlags, main),
`ReadCluster` (GetCCEClusterIDFromNodeLabels), `ChooseTopology` (the mode of
GetNodeTopology), `ReadID` and `ReadZone` (the two requests of NewMetaDataService),
`ReadNode` (getNodeTopologyFromK8SNode), `RemoveSocket` and `Listen` (serve); whatever
fails is `Exit`, and the kubelet starts another process (`Launch`). An id or a zone is
the node's own, empty ("none"), or an error page; of a provider id it also matters
whether it is another cloud's. The node object is filled in by `Fill` and, as a fault,
first with something empty or foreign by `Misfill`.

## 3. Runs

Bounds: two processes or handlers are the least that race, and each race the code is
exposed to is between two; a third adds callers but no new pair. Faults of a kind are
independent of each other, and two or three of them include every pair such as a crash
after a lost reply; the liveness of provisioning and `attach_mixed`, the largest run,
take one. One request that docker carries out late meets every state of the path and of
the handlers; the proofs have any number. `startup` has nine kinds of faults, each once
and at most three in a behaviour, over 82 sets of flags. In `node_paths` at most one
call times out (`Once`), so that one handler is left over: it meets every call that
follows, and every crash and restart; the proofs have any number of them. In `CdsNode`
and `BosNode` a call is served by the first free handler (`Free`), as they are alike.
Symmetry is used where only safety is checked (a refinement without fairness is safety
too).

| run | configuration | shows |
|---|---|---|
| provision_replicas | 2 replicas, 1 name, 3 sizes (one rejected), 2 calls, 2 volumes, 2 faults | `AnswersAgree`, `DeletedIsGone`, `LockTracksFlight` and the refinement `ImplementsLedger` (of which one volume per name is a part) under crash, give-up, failing request, lost reply, late listing. One name suffices: names share only the cloud's ids |
| provision_sheltered | 1 replica, 2 names, a cloud that forgets tokens; a failing request or a caller that gives up; a detail path behind the list | `OneVolumePerName` without client tokens: the flight and the cache alone prevent a second volume (no crash, no lost reply: these lose the cache; no list behind the detail path: the name leaves the cache when the volume is found by its id) |
| provision_progress | 2 replicas, 1 name, fairness, one fault of any kind | `EventuallyAnswered` |
| attach_onenode | 2 nodes, 2 attacher calls, 1 resizer, sizes 1 and 2, 2 faults, fairness | the answers of publish and unpublish stay true and implement `VolumeSeat` (`ImplementsSeat`), both settle; no deadlock |
| attach_mixed | both nodes at once, 2 resizers, sizes up to 3; an abandoned call, a crash or a late listing | `DetachingIsWanted`; `ExpandedIsLarge`, which needs two expansions to different sizes from one old size |
| size_ranges | GB = 4, 2^63 read as 32, default 2 GB; amounts at 0, around multiples of GB and in the range where rounding up overflows | `AskedIsMet`, `ResizeIsGrowth`, `ServedIsEnough` |
| node_paths | mounted and block volumes, 2 device names, 2 handlers at a time, crash, reboot, failing command, timeout, 2 faults of which one timeout, fairness | the volume is formatted once (`NeverReformatted`); the answers of the node server are true, that of expand too (`ExpandedIsGrown`); stage, unpublish, unstage and expand settle (`StageSettles`, `UndoSettles`, `ExpandSettles`). The cloud's name for the device is the node's (`Renaming` false); with `Renaming` the same run passes, too, over almost twice the states, and the proofs cover both |
| bos_paths | 2 handlers at a time, crash, timeout, failing request, dying bosfs, ending container, 2 faults, one request carried out late, fairness | an OK of unpublish is final, a published path keeps its container (`PublishedIsServed`) and gets its bucket mounted (`PublishedGetsMounted`), a container keeps its files, both calls settle |
| gateway_token | tokens of 4 units, 2 retries, 3 faults out of: files withdrawn, token empty, expiry garbled or beyond int64, rotation late, reply lost; fairness | `WholeOrUntouched`, `TokenOfThisCall`, `SignedIsLive`, `EventuallyAccepted` |
| list_pages | 5 ids, pages of 2, one failing request; volumes created and deleted at any time, also under the name | `AnswerWasTrue`. Three pages, the last not full, are the least with a page that neither begins nor ends the list |
| startup | both drivers, all modes, auth and topology modes, endpoints given or not, NODE_NAME set or not; 3 faults, fairness | `ToldItsOwn`, `GatewayKnowsCluster`, `ServesInTheEnd` (exactly the deployments of `CanServe`) |

One more run, `attach_zombie`, is expected to end in a counterexample (section 4). In
`node_paths`, `bos_paths`, `gateway_token` and `startup` some faults leave a lasting
trace, after which some properties promise less: a handler that has outlived its call
(`Overlapped`) or the attachment (`Outrun`), a bare directory that was published
(`BareShown`), a container that has ended for good (`Halted`), a credentials file left
empty (`Torn`), a container created when nobody waited for it (`LateCreate`), a rotation
that is late, an empty token, an error page or an empty label taken for an answer. The
exceptions are written in the properties themselves, and the behaviours without the
fault are in the same run. What lies behind each exception is told in section 4.

Fairness. Handlers and flights are goroutines that block only on requests which return,
so each is weakly fair. The sidecars and the kubelet repeat a call that was not answered
OK: a new call is weakly fair while they still want the result. The cloud completes what
it began, the health check runs and docker restarts a container: weakly fair. A repeated
publish empties the credentials for a moment (`PubOpen`, `PubFill`); docker's restart
and bosfs' look at the file do not hit just these moments for ever, so bosfs mounting,
and a restart that finds the credentials, are strongly fair. That docker carries out a
late request is not fair: it may never. Faults are never fair, and bounded in number:
what is retried must settle after the faults have stopped. Time (`Tick`) is not fair;
the plugin that rotates the token is. In `startup` the kubelet starts a dead process
again, and the node object is complete in the end.

## 4. Findings

A run that ends in a counterexample; `PROJECT.json` quotes the line of the
repository that says otherwise.

- **attach_zombie**: a publish flight whose caller gave up answers a later call
  for another node with OK.

It needs a caller that gives up and one that asks for another node: the sidecars of
the deployment avoid most of these, the driver does not.

Further weaknesses that the models reach, each behind an exception of a property
or a restriction of a run:

- A stage handler that outlives its call mounts after the unstage; when the volume
  returns under another name it is mounted on top, and a repeated stage compares
  with the mount below and fails for ever (node.go:178; `StageSettles` without
  `Overlapped`). In the same way a left-over handler may mount, unmount or make
  paths that a later call has finished with (`StagedIsMounted`,
  `PublishedIsVolume`, `UnstagedIsClean` without `Overlapped`).
- A BOS publish handler that outlives its call makes the target path and the
  credentials file again after unpublish has removed them (bos/node.go:189;
  `UnpublishedIsClean` without `Overlapped`).
- The lock of a stage request does not outlast the attachment (node.go:144): its key has
  the device name in it. When the volume is attached again, under another name, while a
  handler of the earlier attachment is left over, both work at once; and a handler, or
  what it mounted, uses a name that another device may have by then. The volume, or
  that device, may be formatted though it has a file system (`NeverReformatted`
  without `Outrun`).
- NodeExpandVolume resizes the device that is first in the mount table for the path and
  never compares it with the volume's (node.go:386-411, a TODO at 392): after a mount of
  an earlier attachment was left over, or a bare directory was published, it may resize
  another device and answer OK (`ExpandedIsGrown` without `Outrun`, `BareShown`).
- With both nodes unpublished at once, the call for the node that has the volume
  may be answered by the flight for the node that has not (cds/controller.go:496;
  `UnpublishedIsDetached` with `Exclusive = FALSE`).
- With online expansion off, a volume may be attached between the status check of
  an expansion and its resize request, and is scaled in use (cds/controller.go:634;
  `Online = FALSE` and the invariant that a volume being scaled was available).
- Calls of CreateVolume for one name share a flight whatever size they ask for
  (cds/controller.go:165): a call for another size is answered OK with the volume of
  the first one, where for an existing volume the code answers AlreadyExists
  (cds/controller.go:271).
- A disconnected mount, left by a bosfs container that has ended for good, makes
  every later publish fail at PathExists (bos/node.go:161) before it reaches the code
  that would remove the container (bos/mount.go:109). This is what `PublishSettles`
  excepts with `Halted`.
- The health check of the bosfs container passes on the bare directory
  (bos/mount.go:221): publish may answer OK before bosfs has mounted, and "published
  means mounted" does not hold. What holds is `PublishedGetsMounted`: the bucket is
  mounted some time later.
- The credentials are written in place (`ioutil.WriteFile`, filesystem.go:70). A publish
  repeated for a published volume empties the file for a moment; if it fails or the
  driver dies between opening and writing, the file stays empty until a publish goes
  through, and bosfs does not come up again after it died (`Torn` in
  `PublishedIsServed`, `PublishedGetsMounted`). The container then restarts over and
  over, and each unpublish may find it being restarted, when docker refuses to remove it
  (`Torn` in `UnpublishSettles`).
- A create request that docker carries out after its publish gave up may come after the
  unpublish: the container stays behind, created and never started, with the path and the
  credentials gone (bos/mount.go:207; `LateCreate` in `UnpublishedIsClean` and
  `ContainerHasItsFiles`).
- A token and an expiry of different pairs of files are cached as one when the files
  are rotated between the two reads (bcesigner.go:160): an old token is then taken for
  valid beyond its time. It ends with the call, since each call has a signer of its
  own, and the sidecar calls again (`Mixed` in `SignedIsLive`; `EventuallyAccepted`).
  An expiry beyond int64 is parsed as the largest number, with an error, and does the
  same to a token cached before (bcesigner.go:223).
- An empty token file is taken for a token (bcesigner.go:227): the requests go to the
  gateway with an empty `cce-token` and are refused there, until the volume has a token
  again (`WholeOrUntouched` after `emptied`).
- GetVolumeByName may report several volumes of a name that never had more than one
  at a time, when it is deleted and made again between two pages (cds.go:188;
  `AnswerWasTrue`).
- The meta service's HTTP status is not looked at (metadata.go:71, 86): the body of an
  error page becomes the node id or the zone, and is told to the kubelet as long as
  the process lives (`ToldItsOwn` after `meta_page`).
- A label cluster-id that is there but empty is taken (topology.go:92); the controller
  then serves, and every call through the gateway fails with "empty cluster id"
  (auth.go:92), until it is restarted (`GatewayKnowsCluster` after `no_cluster`).
- Unpublish of a BOS volume neither stops a restarting container nor removes it
  with force (bos/mount.go:164): it settles only when bosfs stops dying.

## 5. Proofs

Every invariant and every action property of a passing run is proved, for every value
of the constants that the theorem admits; so are both refinements. Most theorems assume
nothing beyond the modules' `ConstantsAssumption`; where one excludes a fault it says so.

`CdsProvisionProofs` (any number of replicas, names, sizes, calls, volumes and
faults):

- `TypeCorrect`. `TypeOK` alone is not inductive: a flight that looks up must
  carry a size to lock, and one that fetches must carry a volume. `TypeInv` adds
  this.
- `NeverTwoVolumes`, `AnswersAlwaysAgree`, `DeletedStaysGone`, from the invariant
  `TypeInv /\ SafeInv`. `SafeInv` says that a born volume carries the token of its
  name and that two born volumes of a name are the same (`VolInv`), which volume
  a flight or a deletion under way knows of, and which an answer. The argument:
  the only step that bears a volume needs a token no born volume holds, the token
  is a function of the name, and volumes never change their name. A deletion is
  final because the born volume, though deleted, still holds the token. The
  assumption is that the cloud remembers tokens (`"token_forgotten" \notin
  Faults`); `DeletedStaysGone` also needs the detail path not to lag behind the
  list, since DeleteVolume takes "not found by id" for deleted.
- `LocksTrackFlights`: a key is held exactly while its request is worked on.

- `LedgerImplemented`: every step of the controllers is a step of `VolumeLedger` or a
  stutter under the mapping in `CdsProvision`, from the same invariant.
- `AloneNeverTwoVolumes`: one replica, over a cloud that may forget every token. The
  assumptions are that the process lives, replies arrive and the list does not lag behind
  the detail path. `CacheInv` says that a volume not listed yet is in
  `creatingVolumeCache`; so a flight that found neither volume nor entry knows that there
  is none (`GuardInv`), and as flights of one name exclude each other this is still true
  when it creates. An entry is forgotten only when its volume has been fetched, and is then
  listed (`LiveInv`). Each assumption is needed: each of the three faults takes an entry
  away, or keeps one from being made, while the volume is not listed.

`CdsAttachProofs` (any number of nodes, calls and resizers, any sizes and faults):

- `TypeCorrect`, `ExpansionsStay`, `DetachingStaysWanted`, without conditions. Types
  need to know that a volume that is attached, or scaled while attached, has a node
  (`VolumeTyped`). `DetachingIsWanted` holds because an unpublish flight is for a node
  that is being given up for as long as the flight runs, an OK for it being the only
  way out; no other assumption on who calls is needed.
- `PublishedStaysAttached`, `UnpublishedStaysDetached`, `SeatImplemented`, under
  `Sheltered`: one node at a time, callers that wait for their answer, and attachments
  that are listed at once. Without the first two the promises do not hold, as
  `attach_zombie` shows. The invariant `IInv` ties each flight to the calls that wait
  for it (`PubServes`, `UnpubServes`): where there is one node, a flight can only be
  for it. `Placed` says that the volume is only at a node that somebody asked for, and
  `PubKnows` and `UnpubKnows` what of an earlier reading is still true when the flight
  answers.

`CdsNodeProofs` (any number of handlers, devices and faults, with handlers that outlive
their calls and attachments, with `Renaming` and without): `TypeCorrect`, `FormattedOnce`,
`ExpansionsReach`. Nothing is assumed; the exceptions `Outrun` and `BareShown` are in the
properties. The invariant says what each handler knows of the device and the file system
(`Sound`): a stage under way holds the lock of its key, whatever the attachment, and as
long as the volume is attached and nothing of an earlier attachment was left over when it
was attached (`Intact`) that key is the cloud's name for the device. So any two
stage handlers past the lock are one, and what it saw is still true when it makes a file
system or mounts one; an expansion that goes to resize has found the volume's device, with a
file system, showing its new size. `MountInv` says that what is mounted is the volume and
has a file system, which is how the expansion knows; `LockInv` that a key is held by one
handler. `SoundStays` is the argument for all the others: a file system is neither unmade
nor made smaller, so what they know stays true.

The same module proves what the kubelet may believe of the paths: `StagedStaysMounted`,
`PublishedStaysVolume`, `UnstagedStaysClean`. Their exception, `Overlapped`, is in the
properties; nothing else is assumed, and crashes, restarts of the node and failing
commands are included. `CallerInv` says that one caller waits at a time and that the phase
is that of its call. As long as no handler has outlived its call (`QuietInv`) there is one
handler at most; `PlaceInv` says that each path is empty or shows the volume and nothing
else, and which of the two in each phase; `Placed` what the handler has found out of its
path and still knows when it mounts or removes it. A restart of the node keeps `PlaceInv`
because the phase falls back to staging with both paths empty. The two invariants are
inductive only together (`PathInvariance`): that the volume stays a block volume is part of
`Sound`, and that the handlers of an expansion have a caller part of `CallerInv`.

`BosNodeProofs` (any number of handlers, containers, faults and requests carried out late,
with handlers that outlive their calls): `TypeCorrect`, `ContainersKeepFiles`,
`PublishedStaysServed`, `UnpublishedStaysClean`. Nothing is assumed. The handlers have no
lock. What replaces it is that docker's requests need a caller that waits: `CallerInv` says
that a publish whose caller waits, and an unpublish of any kind, exclude each other, since
the kubelet never goes back from unpublishing. So while a path is in use nothing that a
publish made is taken away, not even from one left over (`FilesOf`); once an unpublish has
seen the container gone it stays gone (`CleanOf`); and no handler goes to remove a container
while none has ended for good (`ServedOf`). Requests that nobody waits for need an argument
of their own: while the path is in use all of them come from a publish, and stop or remove
nothing but what has ended (`LateInv`); afterwards one of them may create a container, but
a start names the container it starts, ids that somebody still holds are not given
again, and nobody holds that one's (`Claimed`), so it is a `Stray` for ever. `Keeps` says
what each step owes to the other handlers, and `OthersStay` that this is enough, so that
every action is looked at once.

`GatewayTokenProofs` (every lifetime and any retries): `TypeCorrect`,
`NothingInBetween`, `TokensEndWithCalls`, `SignedWhileLive`. The invariant adds that
the volume's token, and what Sign has read of it, is one the volume has held during
the call (`HeldInv`), that an empty token is read only after the volume held one
(`ReadInv`), and that while the volume is rotated in time a token that has
been read still has time left when its expiry is read (`RotationInv`).

`VolumeListingProofs` (any ids, any page size): `TypeCorrect`, `LookupIsAtomic`. The
invariant (`ListInv`): a volume found was there at some moment of the call, and if there
never was a moment without a volume of the name, one that is there now has been found or
is still to be listed. It needs that no two volumes have the name at once (`UniqueInv`).

`DriverStartProofs` (any deployments): `TypeCorrect`, `NodeIsItself`,
`ClusterIsKnown`, from an invariant that says what is known at each step of the
process (`Knows`) and which faults have left their trace (an answer is told apart from
`Untold`, so that an empty one counts); and `ServesOnlyIfItCan`, the
safety half of `ServesInTheEnd`, from what a process has found out about its flags by
the time it is at each step (`Passed`).

`VolumeSizeProofs` (every positive GB and every width that holds the default
size): `SizesAreInt64`, `SizesAreMet`, `ResizesGrow`, `ServedStaysEnough`. The
lemmas say that wrap-around leaves small numbers alone and makes large ones
negative, that rounding up covers the requirement, and that a computed size fits
its range; the inductive invariant adds to the properties that sizes fit into
int64 as bytes.

Only model-checked: the liveness properties (`EventuallyAnswered`, `PublishSettles` and
`UnpublishSettles` of two modules, `PublishedGetsMounted`, `StageSettles`,
`UndoSettles`, `ExpandSettles`, `EventuallyAccepted`, `ServesInTheEnd`, but for its
safety half). Liveness under fairness and ENABLED are beyond the prover, as are
induction over data and RECURSIVE operators, which the modules do without.

## 6. The environment

Taken from how `src/` uses it, and worth knowing when reading a result:

- the cloud makes volumes idempotent by client token; it refuses a request that
  does not fit the status of the volume, a second attachment, and a smaller size;
- it lists a new volume late (controller.go:252, 331), an attachment late only
  under the fault `late_listing`;
- the provisioner deletes only a volume it was given, and asks no more for a name
  it deletes; the attacher repeats publish or unpublish until OK;
- the cloud lists volumes in a fixed order and a page goes on where the one before
  ended; it has one volume of a name at a time (proved of the driver);
- the plugin replaces both token files at once (as a volume of Kubernetes is updated)
  and with two units of a token's lifetime left; a request takes less than one;
- the gateway passes on what has a valid token and the host to pass it to;
- the node object is complete in the end; a killed process leaves its socket file;
- the device shows the new size in the end after the cloud has resized the volume;
- docker refuses to remove a running or restarting container without Force and
  restarts one whose process ended, unless it was stopped; it may carry out a request
  whose client has stopped waiting, at any time later or never;
- bosfs needs a readable credentials file to mount, and ends without one;
- requests return, those of `http.DefaultClient` to the meta service too, though it sets
  no timeout (metadata.go:65);
- mounting a device that is already the topmost mount of the path fails, and
  removing a mount point fails.

## 7. Not covered

NodeGetVolumeStats, which reads a path and changes nothing; validation of capabilities,
zones, secrets and bucket names, whose outcome is the choice between going on and an
error; identity and the clients for nodes and buckets, which keep no state; the
sources of a token that are never set (a secret, a callback). The deadlines of
`retryOnAborted` are choices, not clocks. Requests of one volume that differ in content
only by fields no model has (secrets, parameters) are not told apart. The handlers of other
volumes on a node are not modelled: their devices appear only as what a name may be
instead of the volume's. In `DriverStart`
the flags that only change a name or a limit, and errors of the file system under the
socket, are left out.

## 8. Plan

Done: provisioning, attaching, sizes and the two node servers; the gateway signer, the
paged lookup, expansion on the node, the abstract seat of a volume with its refinement, and
startup; theorems for every safety property. Next, in this order:

1. A composition of `CdsAttach` and `CdsNode`: the controller detaches only what the
   node has unstaged.
2. Sizes and modes of a repeated CreateVolume together with the flights
   (`CdsProvision` over `VolumeSize`).
3. What left-over handlers may still do to the paths of `CdsNode`, as invariants that hold
   with `Overlapped` too.
