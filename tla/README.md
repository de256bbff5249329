# Verification of terraform-provider-libvirt

TLA+ models of the provider in `src/`, the TLC configurations that check them,
and theorems about them that TLAPS proves. This file is the inventory of the
system, the plan of the development, and its documentation.

Contents: [the system](#the-system) · [the modules](#the-modules) ·
[the runs](#the-runs) · [what the runs found](#what-the-runs-found) ·
[the proofs](#the-proofs) · [assumptions](#assumptions) ·
[what is left out](#what-is-left-out) · [the plan](#the-plan)

## The system

The provider is a process that Terraform starts and that talks to a libvirt
daemon. Terraform calls a *handler* per resource (create, read, update,
delete); handlers of resources that do not refer to each other run in parallel,
each in a goroutine of its own. A handler is a straight sequence of RPCs to the
daemon with early returns, polls and retry loops. It keeps nothing between
calls: what survives is libvirt's state and Terraform's state file, of which the
handler sees the resource's id and attributes (`schema.ResourceData`).

What handlers share in memory is the `Client` of a connection URI
(`config.go:19`): the libvirt connection, `poolMutexKV` (a mutex per pool name)
and `networkMutex`. All other interaction goes through the daemon, where a
second provider process and people with `virsh` are at work too.

| Component | State | Operations | Interacts with |
|---|---|---|---|
| mutexkv (`helper/mutexkv`) | `store`: a mutex per key, `lock` over it | `Lock`, `Unlock`, `get` | the storage handlers |
| libvirt_pool (`resource_libvirt_pool.go`, `pool.go`) | id = UUID | create, read, delete, two polls | pool mutex; all volumes of the pool |
| libvirt_volume (`resource_libvirt_volume.go`, `volume.go`) | id = volume key | create, read, delete, two polls | pool mutex; its pool; its base volume |
| libvirt_cloudinit_disk (`cloudinit_def.go`) | id = key and UUID | create, read, delete | pool mutex; `volumeDelete` |
| libvirt_ignition (`coreos_ignition_def.go`) | id = key and UUID | create, read, delete | pool mutex; `volumeDelete` |
| volume images (`volume_image.go`, `utils_volume.go`) | none | size, type, import, copier | volume create |
| libvirt_network (`resource_libvirt_network.go`, `network.go`) | id = UUID, attributes | create, read, update, delete, two polls | `networkMutex`; DNS hosts; domains |
| DNS hosts (`network_dns.go`) | the network's DNS host list | diff of old and new, delete and add | network update |
| DHCP hosts (`network_def.go`) | the network's DHCP host table | `updateHost`, `addHost`, `updateOrAddHost` | domain create and update |
| libvirt_domain (`resource_libvirt_domain.go`, `domain.go`) | id = UUID, attributes | create, wait for leases, read, update, delete | volumes, networks, DHCP hosts |
| provider (`provider.go`, `config.go`) | `globalClientMap` | configure, cleanup | every handler's `Client` |
| connection URIs (`uri/`) | none | parse, dial | provider |
| definitions (`domain_def.go`, `volume_def.go`, `utils_domain_def.go`, `disk_def.go`, …) | none | attributes to XML and back | their resources |
| XSLT (`utils_xslt.go`) | none | run `xsltproc` | pool, volume, network, domain create |
| helpers (`utils.go`, `utils_net.go`, `helper/`, `util/`) | none | retries, address arithmetic, names | all |

Where it is hard, and what makes each part correct:

- **The pool mutex.** A pool refresh fails while a volume of the pool is made or
  deleted, so every storage handler works under the pool's mutex. It has to be
  one mutex per pool (also when two goroutines ask for a new key at once), be
  released on each of the dozen return paths of every handler, and really cover
  what it is for: the volumes of the pool change by its owner only.
- **Look-ups before the lock.** The pool's delete, `volumeDelete` and the
  cloud-init and ignition creates look pools or volumes up first and lock then.
  What they saw may be stale: another definition of the pool, a stopped pool
  whose volumes look deleted, a pool that is gone.
- **The refresh without the lock.** A volume's read takes no mutex, loops over
  look-up, pool state and pool start, and may remove the resource from the state.
- **Names and keys.** A key is the path of a volume: a volume that is deleted and
  created again has the same key, and a poll cannot tell them apart.
- **Partial failure.** Every call can fail. What was made before must be tracked
  by an id in the state, or it is lost to Terraform.
- **Outside interference.** Pools stopped or undefined and volumes deleted with
  `virsh`, and the provider killed between two calls. The tests say that a
  destroy tolerates that its resource is gone already.
- **Sources.** A volume's create asks its source three times, for the type, the
  size and the content, and its base volume twice. What it finds may be another
  version each time; a server may answer with errors of its own.
- **Definitions and back.** What a create puts into a definition a read takes out
  of it again: subnets become addresses and ranges, lists of maps a command line,
  disks of several kinds targets on three buses. A slip is a change in every plan,
  or a domain that libvirt refuses.
- **Network and domain.** Partial updates of host tables that the state does not
  follow, tables that several domains edit through two calls each, a domain
  create with seven effects and one cleanup, a wait with fatal states.

The list of hazards, with lines and the properties that cover them, is in
`PROJECT.json`.

## The modules

| Module | What it models |
|---|---|
| `KeyLock` | abstract: one lock per key |
| `MutexKV` | `mutexkv.go`, statement by statement, for goroutines that lock and unlock one key at a time |
| `MutexKVProofs` | theorems about `MutexKV` |
| `LibvirtStorage` | external: the daemon's pools and volumes, one operator per libvirt call |
| `Handlers` | what storage handlers share: `ResourceData`, the pool mutex, the return |
| `PoolResource` | libvirt_pool: create, read, delete |
| `VolumeResource` | libvirt_volume: create, read; `volumeDelete` |
| `DiskResource` | libvirt_cloudinit_disk and libvirt_ignition: create, read |
| `PoolGuard` | abstract: what the pool mutexes are for |
| `Storage` | the composition: Terraform's walks, all handlers, the outside; the properties |
| `StorageProofs` | every handler action has one of four shapes (lemmas), and theorems about `Storage` |
| `LibvirtNetwork` | external: the daemon's networks, one operator per libvirt call |
| `Network` | libvirt_network: create with its cleanup, read, update with its DNS hosts, delete; Terraform, the outside; the properties |
| `NetworkProofs` | every handler action has one shape (lemmas), and theorems about `Network` |
| `LibvirtDomain` | external: the daemon's domains, the DHCP hosts and leases of their network, one operator per libvirt call |
| `Domain` | libvirt_domain: create with its wait for leases and its DHCP host entries, read, update, delete; Terraform, guests, the outside; the properties |
| `DomainProofs` | every action changes one domain only, and establishes the invariant for it (lemmas); theorems about `Domain` |
| `VolumeImage` | the middle of libvirt_volume's create: `volume_image.go`, the copier, the base volume, and a source that changes; the properties |
| `VolumeImageProofs` | theorems about `VolumeImage`, one of them that it refines steps of `VolumeResource` |
| `Addresses` | the address arithmetic of `utils_net.go`, `network.go` and `network_def.go`, byte by byte, and prefixes bit by bit to compare it with |
| `Definition` | what the attributes of a network and a domain become, and what is read back: addresses, machine, command line, disks; the properties |
| `AddressProofs` | theorems about `Addresses`: ranges and sections for prefixes of every length |
| `CmdlineProofs` | lemmas about sequences, sorting and the command line, up to that a second read changes nothing of it |
| `DefinitionProofs` | theorems about `Definition`: letters and targets of disks, addresses, and what is read back |
| `MCMutexKV`, `MCStorage`, `MCNetwork`, `MCDomain`, `MCVolumeImage`, `MCDefinition` | constants for TLC |

`Storage` extends the handler modules, these extend `Handlers`, and `Handlers`
extends `LibvirtStorage`. Pool mutexes appear in the handlers as an instance of
`KeyLock`, which `MutexKV` is shown to implement. `Network` extends
`LibvirtNetwork`, and `Domain` extends `LibvirtDomain`; they share nothing with
the storage modules, as their handlers share nothing with the storage handlers but
the connection. What a domain needs of volumes and networks is that its look-ups
may fail. `VolumeImage` refines the steps `VolumePrepare`, `VolumeCreate` and
`VolumeUpload` of `VolumeResource`, for one volume (checked and proved as
`ImplementsCreate`); `Definition` (which extends
`Addresses`) has the data that `Network` and `Domain` leave out, for one network and
one domain, with the calls in sequence.

### State

| Variable | Code |
|---|---|
| `store`, `guard`, `held` (MutexKV) | `MutexKV.store`, `MutexKV.lock`, the mutexes themselves |
| `pst`, `puid`, `vols`, `data` | the daemon: a pool's state and UUID, who created a volume, whose source was written into it last |
| `lock` | `Client.poolMutexKV`: the owner of each pool's mutex |
| `pc`, `op` | where the handler of a resource is, and which operation it performs |
| `handle` | the UUID inside the handler's `libvirt.StoragePool` variable |
| `d` | `ResourceData.Id()` |
| `state` | the id in Terraform's state |
| `nst`, `author`, `bridge`, `hosts` (Network) | the daemon: a network's state, who defined it, its bridge, its DNS hosts by address |
| `mutex` | `Client.networkMutex` |
| `attr`, `saved` | attribute `dns.hosts` of the `ResourceData`, and in Terraform's state |
| `chosen` | the bridge that libvirt takes for free when it begins a definition |
| `todo` | the entries that a loop of `updateDNSHosts` has not handled yet |
| `dst`, `author`, `dhcp`, `lease` (Domain) | the daemon: a domain's state, who defined it, the address of its DHCP host entry, the address its guest leases |
| `asked` | what the configuration says: `running`, the interface's `addresses` and `wait_for_lease` |
| `attr`, `saved` | the same attributes in the `ResourceData`, and in Terraform's state |
| `required` | `requiredStatus` of the create |
| `failed` | whether the last operation ended with an error |
| `id` (VolumeImage) | `ResourceData.Id()`, which the create sets once it has a volume |
| `format`, `capacity` | `volumeDef.Target.Format.Type`, `volumeDef.Capacity.Value` |
| `retryCount`, `body` | of `httpImage.Import`; the open file or response |
| `volume` | the daemon: what the volume is defined as, and what was written into it |
| `current`, `seen`, `answers` | what is at the source; history: what was there during the create, the server's answers |
| `config`, `d`, `round` (Definition) | the configuration; the `ResourceData` of network and domain; whether the domain is made of the first configuration or of the one that has adopted what was read |
| `IPs`, `xmlIdx` | `networkDef.IPs`; the section that `updateOrAddHost` addresses |
| `def` | `domainDef`: machine, command line, disks |
| `i`, `numOfISOs`, `numOfSCSIs` | the loop of `setDisks` |

A resource runs at most one handler at a time, so a handler's local variables
are indexed by the resource. `vols[k]` remembers the *author* of a volume, which
libvirt does not: it lets properties tell a volume from another one with the same
key.

### Actions

An action is one libvirt call of a handler together with the code up to the next
one: its guard is what the call answers, its disjuncts are the returns and
branches on the answer. Two neighbouring calls are one action only where nothing
another handler does can be seen between them, or where the first one's answer is
not used (`StorageVolGetXMLDesc` in `volumeDelete`), or where both outcomes of the
second one return the same (`StoragePoolGetInfo` and `StoragePoolGetXMLDesc` of the
pool's read). `MayFail` is a failure for a
reason the model does not describe, switched by the constant `Faults`; a pool of a type
other than "dir", which is refused before the lock, is one. `Return`
is the end of a handler: the deferred `Unlock` and Terraform's save of the id. A
create that returns an error with an id saves a tainted resource; `d.Set("id",
"")` in `resource_libvirt_volume.go:267` names no attribute of the schema and
changes nothing (`FailedUploadDropsId`). `Outside` is what others do to pools and to the
provider, `ByHand` the volumes that others may delete.

In `Network` the failures are per resource (`Mishap`): one network may meet every
failure while another one meets none, so that one run can ask both what survives
failures and what holds without them. `NetworkDefineXML` is two steps, because
libvirt picks the bridge when the call begins and uses it when the call ends; that
is what `networkMutex` is for. `StartFails` has three outcomes: the network does
not run, it runs although the call failed, or it could not run since its bridge is
taken. A read that finds no DNS hosts leaves the attribute as it is, as the code
does. An update that fails has its new values in the state: the plugin SDK saves
the `ResourceData` unless the handler calls `d.Partial(true)`, which no handler
does.

In `Domain`, too, mishaps are per resource. A create reserves the address of its
interface (`updateOrAddHost`: modify, and if that fails add; two steps, since other
domains edit the table in between), defines and starts the domain, sets the id,
waits for a lease, reads everything back, enters the addresses it has found into
the table, and stops the domain again if it shall not run. The calls in front of a
step that fail with the same outcome (preparations and the first host call, autostart
and start, look-up and state of the delete) are one step with it. The read inside a
create does not return when the domain is gone: it clears the id, and the create
goes on. `GuestLeases` is the guest.

In `VolumeImage` an action is one question to the source or one call of libvirt.
`Republish` is whoever replaces the source, at any moment. A file is replaced by
another one of its name, so a file that has been opened keeps its content; a body
that is being downloaded does too. A source is known by what the create can tell of
it: that it is there, that it has 8 bytes, that these are the header of a qcow2 image
of version 3 (`isQCOW2Header` takes version 2 for raw data), and its length.

In `Definition` an action is one of the setters that the creates call in turn, one
round of the loop of `setDisks`, a define, or a read. Addresses are bytes; an element
of attribute `cmdline` is a set of arguments with keys and a string of arguments
without; a disk's target is its bus and its letters. `cmdline`, `disk` and `machine` are
arguments of the user that the read overwrites in the state: Terraform compares the
configuration with what the read has left, and a create starts from the configuration. So
the properties compare with `config`. After the first read comes `Adopt`: the user, who
sees a plan that wants to replace the domain, writes into the configuration what the read
has found, and the domain is made again (`round`).

`BeginCreate`, `BeginRead`, `BeginUpdate` and `BeginDelete` are Terraform: a refresh walk and an
apply walk do not overlap, and inside a walk all resources run in parallel. No
dependency edges are assumed: a pool that is named by a literal gives none.

Definitions whose comment begins with "Bug:" are variants of an action, used by
no action: each property of a run is tried on one of them, which TLC finds to
violate it.

## The runs

| Run | Question | Bounds |
|---|---|---|
| `mutexkv` | Is the table one lock per key, and does every `Lock` return? | 3 goroutines, 2 keys, 3 mutexes to allocate |
| `storage_faults` | Is the mutex taken and returned on every path while any call may fail? Does every operation end? | a pool, a volume and a cloud-init disk that want one volume name in one pool; undefines and crashes at any step |
| `storage_tracking` | Does what the state names exist, in every interleaving, and while somebody stops the pools? Does a destroy tolerate that its volume was deleted by hand? | 2 pool resources of one name, a volume, a volume based on it, an ignition file; stops, and deletes of the ignition file's volume, at any step |
| `network` | Is no network lost, are bridges distinct, does an update do what it says and no more, does every operation end? | 2 networks, 2 bridges, 2 addresses, 2 host names |
| `domain` | Is no running domain lost, is a delete complete, are addresses reserved and `running` obeyed, does every operation end? | 2 domains, 2 addresses, of which both want one |
| `image` | Do type, size and content of a volume fit each other while the source is replaced at will? Are server errors retried, does the create end? | 4 versions of a source (two qcow2 images, a raw one, none), one given size, 2 formats, 3 attempts |
| `definition` | Are address ranges right and targets distinct, and is what is read what was configured? | 29 subnets and 5 pairs of them in 3 modes, a mode that is not supported, a bridge without a name; all lists of up to 3 disks of 14 kinds, of up to 5 of 3 kinds, and of 30 of one kind; command lines of up to 3 maps; 6 machines |
| `storage_upload` | finding | a volume, nothing outside |
| `storage_refresh` | finding | 2 volumes, a pool that is stopped outside |
| `storage_stopped` | finding | a pool and a volume, nothing outside |
| `network_refresh` | finding | a network whose hosts are removed outside |
| `domain_off` | finding | a domain, 2 addresses, nothing outside |

Why the bounds are enough to be worth something: in `mutexkv`, three goroutines
let two of them race for a new key while the third one holds or releases another,
and three mutexes are one more than the keys, so that a second allocation for a
key is possible if the code allows it. In the storage runs all contention is for
one pool and, in `storage_faults`, for one volume name: that is where handlers
meet, handlers of different pools share nothing (the theorems hold for any number
of pools). Every pair of resource kinds occurs in some run, but for the cloud-init disk and the
ignition file, which do the same from the lock on. In `storage_tracking` the volume that
is deleted by hand is the ignition file's: all destroys run `volumeDelete`, and so the
volumes of the others show that what the state names exists. `Uuid` bounds how many
definitions of a pool exist at once or in a stale handle: one current definition,
one in a handle and one spare; `StoragePoolDefineXML` takes an id that is not in
use anywhere, and a pool is not created when there is none (with three UUIDs that
does not happen with one or two pool handlers). Nothing else is bounded: the
models have no counters. In `network`, one network meets every failure but a
failing cleanup, and is stopped, undefined and edited by hand at any step; the
other one meets none. Two bridges are enough for two definitions to collide, and
since a network of a resource's name may be there from the beginning, also for
none to be free. The tables (`MCWanted`) let a host come and go beside one that
stays, and two names swap their addresses: the change in which the order of
deletions and additions matters. In `domain`, one domain meets every mishap and wants
an address, a lease and to be off at the end: it goes through every step of a create.
The other one meets none and wants the same address, or whatever the guest gets.
Domains meet in the host table and in the leases only, so two of them and two
addresses, the contested one and another one, have every way to collide: an entry
that appears between modify and add, a lease of an address that is reserved later,
and an entry that a destroyed domain has left. In `image` the given size lies between
those of two versions and the third one is of that size, so that every comparison has
both outcomes and may have one with the version that is declared and the other one
with the version that is copied; three attempts are those of the code. In `definition`
the prefixes are those at both ends of each byte, at both sides of the limit of 16
bits, and at the limit of 3 bits, for 4 and 16 bytes and for IPv4 addresses in IPv6
notation; 30 disks are enough for a second letter; two maps with the same key, and
words that sort between, make the command line's order differ from the
configuration's.

The properties:

- `TypeOK` (each specification). Beyond types it says that an id is of the
  resource's own kind and that no handler gets to a call that needs an id without
  one; in `MutexKV`, that `Unlock`'s `get` never allocates.
- `SectionsAreSafe`, `ImplementsKeyLock`, `LockReturns` (`MutexKV`): at most one
  goroutine in a key's section, where `Unlock` gives back a mutex that this goroutine
  holds; the refinement; and no waiter is left.
- `SectionsExclude`: a handler holds its pool's mutex exactly from `Lock` to its
  return, on every path, and holds no other.
- `GuardsVolumes`: `Storage` implements `PoolGuard`; volumes of a pool change by
  the owner of its mutex only, each resource in its own name.
- `NoResurrection`: while `volumeDelete` polls, nobody makes the key again.
- `DiskUploadsOwn`: cloud-init and ignition data goes into the volume that this
  handler created (unless others delete that one).
- `FreshPoolHandle`: the volume create's pool handle is current to its end.
- `CreateKeepsTrack`: a volume that a create made or adopted, and filled, stays in the
  state, whatever fails in the wait and the read at its end, and whichever deletes of that
  key others have begun. (What happens when the upload fails is the question of
  `FailedUploadDropsId`.)
- `PoolsAreNotShared`: two pool resources never own one pool.
- `StateIsBacked`: what the state names exists (without faults, but whoever stops the
  pools, and but for volumes that others delete).
- `DestroyToleratesDeleted`: the destroy of a volume-like resource succeeds when
  its volume is deleted by hand at any moment of it.
- `EveryOperationEnds`: every begun operation ends (in `Storage`, `Network`, `Domain`).
- `NothingLeaks`: whatever fails but the cleanup itself, a network that a create
  defined is in Terraform's state or gone.
- `BridgesDiffer`: two networks never have one bridge.
- `UnchangedHostsStay`: an update touches no entry that the configuration does
  not change.
- `StateTellsHosts`: without mishaps, the hosts in the state are the network's,
  after every change of one table to another.
- `DeletesSucceed`: without mishaps, a destroy succeeds and the network is gone.
- `NothingRunsUntracked`: a domain that Terraform does not know does not run.
- `DeletedIsGone` (`Domain`): a delete that succeeds leaves no domain, whoever stops,
  pauses or undefines it between the look at its state and the undefine.
- `CreateObeysRunning`: a create leaves the domain running or off as `running` asks,
  and saves that, although it runs in between and the read overwrites the attribute.
- `WaitedIsMapped`: a create that waited has an address, which the network has reserved.
- `AddressIsReserved`: so is an address of the configuration after a create, and after
  an update that changes it.
- `RecreateSucceeds`: what earlier operations leave is an obstacle to the next create in
  one case only. The host entry, which no delete and no failure removes, never is, unless
  it is another domain's. The name is taken only if a domain that Terraform did not make
  has it, or the definition of an own create whose `DomainCreate` failed, which leaves it
  without an id (`resource_libvirt_domain.go:583`). Without mishaps, nothing else makes a
  create fail but a guest that gets no lease in time.
- `ContentIsWhole`: a create with a source succeeds only with the whole of one version
  of it in the volume, and a volume of its own is large enough for that.
- `ImageIsDeclared`: capacity and format of a new volume are those of the source at some
  moment of the create, and the format is the configured one if there is one. (They
  need not be those of the version that is in the volume: a raw image that replaces a
  qcow2 image of the same length in between is declared as qcow2.)
- `BackingFits`: a new volume is at least as large as its base volume.
- `ServerErrorsAreRetried`: attempts follow the server's own errors only, and an import
  fails of these only when every attempt got one.
- `ImplementsCreate`: what `VolumeImage` does between the pool's refresh and the read is
  what the create of `VolumeResource` does there: prepare or fail, create or find a
  volume and set the id, upload or fail.
- `CreateEnds`: so the create ends, whatever the server and the source do.
- `AddressesFit`: of each network that libvirt takes, the host's address and the DHCP
  range are in the subnet, in this order, off the network and the IPv4 broadcast
  address, of at most 2^16 addresses; the read makes the subnet of them again; a
  domain's address is registered in the section of a subnet that has it. (An address
  in the notation of `::ffff:10.0.0.0/104` gets a wrong range, but libvirt refuses such
  a network, since it is of family "ipv6" with an IPv4 address.)
- `TargetsDistinct`: no two disks of a list get one target.
- `ReadsBack`: a read loses no kernel argument and finds the machine of the configuration;
  and what it leaves is what the configuration says, that is no plan shows a change, of the
  disks if the definition tells their kind, of the machine's name if it is the only one,
  and of the command line exactly if its maps are `Tidy`. Disks are told unless they have
  two sources, are a `file` that is no `.iso`, a `url` without a port or with a query, or a
  SCSI disk without a `wwn` of its own. Maps are tidy if arguments without a key are a last
  map of their own, no map has a key twice, arguments come in the order of the line, and a
  new map begins only with a key that the map before it has. A configuration of another
  form is shown as changed in every plan, and since these attributes force a new domain,
  as a replacement; but when it has adopted what the read has found, the next plan is empty.

## What the runs found

Five runs state what a comment, a message or a test of the repository says, and
TLC shows a behaviour of the code against it.

- `RefreshDropsOnlyDeleted` (`resource_libvirt_volume.go:313`). Two volumes of a
  stopped pool are refreshed at once. Both look-ups fail; one read starts the
  pool; the other one finds it active, keeps its old "not found" and drops an
  existing volume from the state.
- `DeletedIsGone` (`volume.go:73`). A volume's delete looks the volume up while a
  pool's delete has stopped the pool, takes the answer for "already deleted" and
  reports success. (The pool's delete then fails, since the pool is not empty.)
- `FailedUploadDropsId` (`resource_libvirt_volume.go:267`). After a failed upload the
  comment wants the id thrown away, "we will keep instead a broken volume" otherwise. The
  code sets an attribute "id", which the schema does not have, and ignores the error of
  that; the id stays, and the broken volume is kept as a tainted resource. (That is
  why `CreateKeepsTrack` begins after the upload.)
- `RefreshTellsHosts` (`resource_libvirt_network.go:629`). When all DNS hosts of a
  network are gone, a refresh keeps those of the state: `dnsBlock["hosts"]` is set
  only if there are some. The same happens after a failed update, whose planned
  hosts are in the state already.
- `UpdateTurnsOff` (`resource_libvirt_domain.go:678`). The documentation says that
  `running = false` turns an instance off. An update never reads the attribute: it
  starts a domain that does not run, stops none, and saves the `false`.

What the models show besides, where no line of the repository says otherwise, so that
no run is about it:

- `resource_libvirt_domain.go:909`: a disk of a `file` that is no `.iso` is read back
  as `volume_id`, or makes the read fail if no volume has that path; a `url` without a
  port comes back with a `:` behind its host; the random `wwn` of a SCSI disk is read
  into an attribute that is not computed. Each is a change in every plan, and `disk`
  forces a new domain. (`KeepsDisks` excepts these kinds; `PlanIsEmpty` says that they come
  to rest once the configuration has what was read.)
- `domain.go:259`: the Ignition disk of s390x and ppc64 has the target of the second
  disk of the list, so that a domain with two virtio disks is refused, and
  it appears in the disks that are read. `domain.go:190`: the cloud-init disk has the
  target of the fourth image.
- `utils_domain_def.go:103`: arguments without keys come back in a map of their own,
  whatever map they were configured in. The example of the documentation
  (`website/docs/r/domain.html.markdown:109`) has them beside arguments with keys, so every
  plan for it replaces the domain: its maps are not `Tidy`.
- `resource_libvirt_domain.go:583`: a domain that could be defined but not started stays
  defined, and the create ends without an id. The next create fails on the name until
  somebody undefines it (`Abandoned` in `RecreateSucceeds`).
- `resource_libvirt_volume.go:253`: a volume that is found is logged as "left as-is",
  but a source is then written into it.
- `volume_image.go:236`: a qcow2 image of version 2 is declared as qcow2 by default and
  as what the user says otherwise, without the check that version 3 gets.

## The proofs

TLC checks the instances above; the theorems hold for every value of the
constants that satisfies the `ASSUME`s of the modules, with any set of resources,
pools and keys, faults on or off, and any interference.

`MutexKVProofs`: `TypeCorrect` and `Exclusion` follow from one inductive invariant: distinct keys have distinct mutexes, a goroutine past `get`
has the mutex that the table has for its key, and a mutex that is held is held by
the goroutine in its section. `Implementation` maps the owner of a key to the
holder of the key's mutex, and every statement to a step of `KeyLock` or to a
stutter.

`StorageProofs`: `TypeCorrect`, `Sections`, `DeletedStays`, `Guarding` and `OwnPools`
hold with every interference, and so does `UploadsOwn`, for volumes that nobody deletes by
hand; `HandleStaysFresh` assumes that nobody undefines pools, `KeepsTrack` that nobody
stops them, `DestroyTolerates` that calls fail only for the reasons the
model has, and `StateBacked` that too, that nobody outside undefines pools or kills the
provider, and that no two resources have one volume key (each is
false without them: a delete whose wait fails leaves an id that names nothing). The
inductive invariant `IInv` adds to the properties that a handler runs exactly while its
resource has an operation (`IdleInv`), that the labels of a create belong to
creates (`OpInv`: the read at the end of a create runs under the lock, a refresh
does not, at the same labels), that a new pool has a handle (`HandleInv`) and a defined
one a UUID (`NamedInv`). It is needed because the properties about volumes rest on the
mutex, and the mutex on the control state.

The argument has two halves. The first one looks at each of the handler actions
once and shows that it has a *shape*: it moves on the same side of the mutex
(`Stays`), takes it (`Enters`), gives it back (`Leaves`) or returns (`Returns`),
it touches only what a handler of its kind may touch, and only in the section
(`Touches`), and arrives at a label with what that label claims (`Arrives`).
The second one proves the properties from the shape, in a few cases instead
of one per action. `OwnPools`, `KeepsTrack`, `StateBacked` and `DestroyTolerates` need an
invariant of their own: pool resources know
disjoint sets of UUIDs (`IdsInv`); the volume of a create that has an id is visible
until the create returns (`TrackInv`); an id names what is there except while its delete
waits (`BackedInv`, which needs `IdsInv`: no other resource can undefine the pool); a
delete has the id of the state, and a handle in the section (`DeleteInv`). There the
shape says that other handlers do no harm, and the handler's own calls are gone through.

`NetworkProofs`: `TypeCorrect`, `NothingLost`, `OwnBridges` and `UnchangedStay`.
The inductive invariant `IInv` adds why they hold: the mutex is held exactly
between its lock and the end of the definition (`MutexInv`), so the bridge that a
definition has chosen is still free when it ends (`BridgeInv`); a network without
an id is being started or cleaned up, and does not run when the cleanup undefines
it, so that it vanishes (`LeakInv`); the loops hold entries that change only
(`TodoInv`). The argument is again one `Shape` of all handler steps: what happens
to the network, where the handler goes or how it ends, what happens to the mutex,
what is left behind, and which hosts an update edits. `DeletesEnd` rests on an invariant
of the networks that meet no mishap (`CalmInv`): such a network runs from the moment it
has an id until its own delete stops it, is absent when the delete waits, and its handlers
never get to the cleanup or to the restart of an update. `HostsAreTold` rests on another
one (`HostsInv`): between operations the network has the hosts of the state, in a create
those of the ResourceData, and in an update each entry is the saved one until it is
deleted, gone until it is added, and the planned one afterwards. It assumes `OneAddress`:
no configuration gives one host name to two addresses, for libvirt refuses the second.

`DomainProofs`: `TypeCorrect`, `RunsTracked`, `DeleteRemoves`, `CreateObeys`, `WaitMaps`,
`Reserving` and `Recreating`, with every mishap (the properties themselves except those
domains whose mishaps make them false, or say, as `RecreateSucceeds`, what the mishap is).
An action of one domain changes every variable at this domain only (`Affects`,
`Handles`), so the inductive invariant is a statement about one domain (`Good`), the
others keep it (`StepKeeps`), and each action establishes it for its own. It adds
that a handler runs exactly while there is an operation (`ControlGood`); that an
active domain has an id, and none is active when the delete undefines it
(`TrackGood`), so that the undefine ends it instead of making it transient; and that
a create has the configured address until it has read the interfaces
(`AddressGood`). Type correctness needs the last one: a create whose domain vanishes
goes on without an id, and may enter an address into the host table only if it is one.
`CreateObeys`, `WaitMaps`, `Reserving` and `Recreating` need a second invariant, again of one domain (`Detail`): which
labels an operation can be at (`LabelGood`); that a domain which is there has an author,
and a guest that does not run has no lease (`GuestGood`); that a configured address is in
the table before the domain is defined, is not entered twice, and is the only one that
the guest can lease (`ReserveGood`); that `required` remembers the configured `running`
while the read overwrites the attribute (`RunGood`); and that without mishaps a create
which waits has the lease when it reads and maps (`CalmGood`). `Recreating` needs one more
(`FreeGood`): a domain that is there while Terraform knows none is a foreign one or is shut
off and was left by a start that may fail.

`VolumeImageProofs`: `TypeCorrect`, `WholeContent`, `DeclaredImage`, `BackingHolds`,
`Retries` and `Implementation`, for any versions of a source that replace each other in
any order, and for any number of retries. The inductive invariant remembers, at each label, of which
version an answer was that the rest of the create relies on: the format of one that was
there (`FormatInv`), the capacity of another one (`CapacityInv`), the body of a third
one (`CopyInv`), and what the volume was defined with (`VolumeInv`); `RetryInv` has the
attempts before `retryCount` answered by the server's own errors, all of them, and those
after it not yet made. It is needed because the properties speak of the end of the
create, when the source has long been another one. `Implementation` maps the labels up to
the upload to the one step of `VolumeResource` that they make up, and shows for each action
that it is that step, its failure, or not seen: for that the id must be there exactly from
the moment when the volume is created or found.

`AddressProofs`: `HostAndRange` and `IndexIs`, about the operators of `Addresses`, for
addresses of 4 and of 16 bytes and prefixes of every length. `networkRange` and
`getLastIP` work on bytes and masks, the properties speak of bits; the lemmas in between
say of one byte what its first bits are, for each number of them, and of an address which
byte a prefix ends in. Adding to the last byte stays in the subnet, since a subnet that is
not refused has three bits left; that is where the limit of `getNetworkIPConfig` is needed.

`CmdlineProofs`: lemmas, of which `CmdlineIs`, `SplitKernelCmdLineIs` and `SecondRead` are
used. Folds over sequences are first shown to have a value at every step (`FoldsExist`, by
the least element of a set of counterexamples: induction needs no operator as a parameter
that way). The number of times that a word occurs goes unchanged through the insertion
sort, the joining and the splitting. A second read needs more: the split depends only on
the order among the words with a key and among those without (`SameSplit`); sorting puts
the words with a key, which are one string each, into the one order that their ranks allow
(`RankedUnique`, as two sorted sequences with the same words are equal), and what a read has
stored has one string of words without (`ReadMaps`), whose order sorting cannot change.
Which maps a read leaves as they are is shown from the way in which the split takes words:
maps that it has made are tidy, and tidy maps are made again of their own words, which the
sort leaves in their order (`TidyReads`).

`DefinitionProofs`: `LettersDiffer`, for all natural numbers. The recursion is first
shown to have a solution (functions that satisfy it up to n exist and agree with each
other), then two indices of the same letters are the smallest such pair, whose last
letters and whose carries are the same, which gives a smaller pair.
`DistinctTargets`, by the invariant of the loop of `setDisks`: the
target of a disk on bus b has an index below b's counter (`TargetsInv`, where `Index` is
the inverse of `diskLetterForIndex` by the theorem above), targets of list disks differ
(`DistinctInv`), and Ignition's disk comes before and cloud-init's after the list
(`OrderInv`). `NetworksFit`, from `HostAndRange` and `IndexIs`: every section of the
network is made of the subnet at its place (`AddressInv`).
`ReadBack` is put together from three parts, each of which has an invariant and is a
theorem too. `DisksReadBack`: the loop has made every disk of the definition of the one at
its place, such that the read makes that one of it again if it is of a kind that can be told
(`ReadInv`). For the configuration that has adopted what was read, whatever it was before:
the list that a read leaves is settled (`SettledInv`: at most one source per disk, URLs that
stay, SCSI disks with a `wwn`), and such a list is read as it is. `MachineReadsBack`: the
name that a read stores leads back to
the machine that runs (`MachineInv`), which needs `MachinesAssumption`.
`ArgumentsReadBack`: the line is that of the attribute (`CmdlineInv`), and the lemmas; that
the attribute is the configuration's whenever a domain is made and read is `SameInv`.
A domain with an Ignition disk is not settled by a read (its disk is read into the list
and is there twice the next time), which is why the property excepts it.

What the liveness properties rest on is proved without fairness, in two parts. *Nobody
waits in a circle* (`NoDeadlock` of `MutexKVProofs`, `StorageProofs` and
`NetworkProofs`): whoever waits for a mutex waits for one that works and waits for none.
In `MutexKV` that is worth a proof, since `Unlock` asks for the table's lock while it holds
the mutex of its key; whoever holds the table's lock never waits for a key. *Every call
leaves fewer to make*: the number of calls that are left (`CallsLeft`, `Remaining`) is
bounded, each step of a handler makes it smaller and no step of anybody else larger. It is
at most 16 for a storage operation, 12 for a domain operation, 9 and two for each address
for a network operation (`CallsShorten`; there `IP` is assumed to be finite, as the hosts of
a configuration are), and `2 * maxHTTPRetries + 9` steps for an image (`CreateShortens`).
The loops are where this could fail: the two of `updateDNSHosts` meet no entry twice, and
the retries of a request are counted. One case is excepted, and is real: the read of a
volume that finds no volume starts the pool and looks again
(`resource_libvirt_volume.go:290`), so whoever stops the pool in between sends it round
again, until `d.Timeout` ends it. In the run that checks `EveryOperationEnds` only a delete
of the pool itself stops it.

Only model-checked, and for good: the liveness properties `LockReturns`,
`EveryOperationEnds` and `CreateEnds` themselves, since fairness and `ENABLED` are out of
reach of the prover. Every other property of a run that holds is the subject of a theorem.

The proofs of `ReadsBack` found two things that no run had met. A disk with a
volume and a file of the same value had one source in the model and was called plain,
while the create takes the volume only: `Plain` counts attributes, not values. And that a
second read changes nothing rests on what Go's `net/url` does with the URL of a disk,
which is now an assumption (below).

## Assumptions

- **libvirt.** `LibvirtStorage` has what the handlers count on: a handle names a
  definition of a pool by its UUID; volume calls fail on a pool that is not
  active, where a key look-up answers "no such volume"; a volume is created only
  when its name is free; a pool's directory is deleted only when it is empty.
  `LibvirtNetwork`: a network name is defined once; a bridge that libvirt chooses
  is one that no network has when the definition begins; a bridge serves one
  running network; an active network that is undefined becomes transient and
  vanishes when it stops; an added DNS host may not repeat an address or a name.
  `LibvirtDomain`: a definition needs a free name; a DHCP host entry is modified by
  its MAC address or name, whatever addresses other entries have, and added only if
  none of MAC address, name and address has an entry; a destroy removes no entry
  (`TestAccLibvirtDomain_CheckDHCPEntries` counts on that); a guest leases the address
  that is reserved for it or one that is not reserved, and loses it when its domain
  stops; an active domain that is undefined becomes transient.
  `VolumeImage`: an upload is cut off at the declared capacity with an error, and a
  volume that is there is not replaced while the create works on it (the pool mutex,
  `GuardsVolumes`). `Definition`: libvirt refuses a domain with two disks of one target
  and a network with an address that is not of its family, and completes the machine
  to its canonical name, the first machine of its capabilities being the default.
- **Data.** What `Definition` takes as given, as `ASSUME`s. Names of machines are unique
  among those of a guest, and a canonical name is the name of a machine which has no other
  (`MachinesAssumption`; so are the capabilities of QEMU). Words of a command line have an
  order (`RankAssumption`); none begins with another one, and no value contains a blank,
  at which the read would split it. A URL that a read has put together (`fmt.Sprintf` of scheme,
  host, port and path, `resource_libvirt_domain.go:884`) is put together as itself and has
  the same suffix (`SourcesAssumption`). The code does not ensure that for a URL with
  escaped characters in its path (`%3F`, `%23`) or with an IPv6 address as its host, which
  come back as another URL or as none: the constants of the model have no such URLs.
- **Fairness.** `SF` of each handler's next step. A handler's steps are RPCs that
  answer or fail and loops that end at a timeout; a loop whose call fails for
  ever ends with an error, so `WF` would do for all steps but `Lock`.
  `sync.Mutex` hands the mutex to a waiter that has waited for more than a
  millisecond (its starvation mode), so a waiter gets a mutex that becomes free
  again and again: `SF`. In `MutexKV` it is the same, and in `Network` for `networkMutex`.
  `Domain` has no lock, and its wait for leases ends at a timeout: `WF` of each
  handler's next step. In `VolumeImage` it is `WF` too: a request or an upload ends, with
  an answer or an error. Nothing is assumed about Terraform or the guests: operations
  need not begin, and leases need not come.
- **Time.** A timeout is the possibility to give up in a state in which the call
  fails. A loop that runs into its timeout although its last attempt succeeded
  is not modelled.
- **Terraform.** The id is saved when a handler returns; after an error too. A
  killed provider leaves the state as it was before the operation.

## What is left out

- Content: XML, ISO and ignition files. A definition that cannot be built or an XSLT
  that fails is a step that may fail.
- Attributes of a volume other than id, pool, name, source, size, format and base
  volume; the branches of `volume_image.go` for Windows, and those for a definition
  with timestamps: a create's definition has none, so no import is skipped and no answer
  is 304.
- Of a domain's definition: graphics, video, consoles, TPM, firmware, CPU, filesystems
  and boot devices, which are copied field by field; an Ignition file without
  `fw_cfg_name`; emulator and architecture, which go the way of the machine.
- Two provider processes on one daemon: the pool mutexes are not shared between
  them, and the code does not claim anything there. `OutsideDelete` and its like
  stand for what others do.
- Data sources, XSLT, URI parsing and dialers, the entry point: pure or I/O.
- The client map: `providerConfigure` fills it without a lock, but Terraform configures
  a provider once per block and process.
- Networks with a bridge or a `domain` of their own in the configuration: with a
  bridge libvirt chooses none, and with a domain the read begins with an empty DNS
  block. Network attributes other than the DNS hosts: an autostart flag is a call
  that may fail. Two network resources of one name. A provider that is killed in a
  network handler.
- Domains with several interfaces, with a host name of their own, or in a network
  without DHCP (in `Domain` the one network has one range, in `Definition` several);
  in `Domain`, disks, cloud-init and autostart are calls that may fail; the states in which the
  guest suspended itself, crashed or is blocked; domains that somebody starts by hand;
  two domain resources of one name; a provider that is killed in a domain handler.

## The plan

1. `KeyLock`, `MutexKV`, the storage modules, their runs and theorems. *Done.*
2. `LibvirtNetwork`, `Network`, their runs and theorems. *Done.* Next to it: the
   attributes `domain` and `bridge`, a killed provider, and an abstract "the network
   has the new hosts" that an update without failures implements.
3. `LibvirtDomain`, `Domain`, their run and theorems. *Done.* Next to it: the other
   states of a guest, a killed provider, several interfaces, and the table of DHCP
   hosts with its own abstract specification (one entry per address).
4. `VolumeImage`, its run and theorems, among them that it refines the steps
   `VolumePrepare` to `VolumeUpload` of `VolumeResource`. *Done.*
5. `Addresses`, `Definition`, their run and theorems: targets, ranges, sections,
   and everything that `ReadsBack` says. *Done.* Next to it: graphics, consoles and boot
   devices, routes.
6. Theorems for the remaining safety properties of the storage, network and domain
   modules. *Done.* Next to it: `StateBacked` with faults (a read that fails must not
   drop what is there), and `HostsAreTold` for a network that is refreshed while it is
   edited by hand.
