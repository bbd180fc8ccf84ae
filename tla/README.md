# external-dns-porkbun-webhook in TLA+

The program is an ExternalDNS webhook provider: ExternalDNS asks it for the
records of a Porkbun zone (`GET /records`), plans changes, and sends them back
(`POST /records`); the program turns them into single Porkbun API calls. There
is no transaction on the other side. What makes the code hard is that one
logical change is several calls (a record and the TXT record that says who owns
it), that every call may fail, time out after its effect or be cut off by a
restart, and that ExternalDNS loses a record for good once the two halves come
apart. This directory models that part, checks it with TLC and proves the most
important facts with TLAPS.

## The system

| part | state | operations | interacts with |
|---|---|---|---|
| `provider/` Provider | record cache, `operationMu`, `cleanupMu`, two queues of pending ownership work | `Records`, `ApplyChanges`, `AdjustEndpoints`, `GetDomainFilter` | called by the webhook server and by the readiness loop, calls the client |
| `provider/` index and endpoint operations | the index of one batch | `createEndpoint`, `updateEndpoint`, `updateOwnershipEndpoint`, `deleteEndpoint`, `convergeTarget` | part of a batch; each step is one client call |
| `provider/` registry layout | none | `validateChanges`, `registryDeletePairs`, `registryUpdatePairs`, `validateRegistryCreateLayout` | splits a batch into record and marker pairs, or rejects it |
| `provider/` codecs, scope | none | canonical names, targets, TTLs, domain filters | used everywhere |
| `porkbun/` Client | `lastCall` under `rateMu` | `Retrieve`, `Create`, `Edit`, `Delete`, `Ping`, each one `do` | Porkbun over HTTPS |
| `webhook/` Server | readiness flag, two HTTP servers | handlers, `checkReadiness`, `Run`, `shutdown` | ExternalDNS, kubelet |
| `webhook/` Metrics | counters | observe, expose | Prometheus |
| `main.go` | none | environment, start, signals | |

What is hard, and what correctness means:

* **Provider.** A marker must be in the zone before the record it owns and
  until that record is gone, whatever fails in between. What a failed batch
  leaves behind is queued, repaired from a fresh read, and `Records` fails
  until that is done. The mutex keeps answers from being read in the middle of
  a batch; the cache must never show an older zone.
* **Endpoint operations.** Duplicates, TTL drift and CNAME/ALIAS drift have to
  converge to exactly one record per target, without taking a live target away.
* **Client.** A write is sent again when its answer was lost, and must happen
  once. Calls of several goroutines share one request rate; a cancelled caller
  must not wait for another.
* **Server.** Shutdown ends within thirty seconds whatever requests, listeners
  and the readiness check do, and says truthfully whether it cut something off.
  The readiness flag follows Porkbun in both directions.
* **View, codecs, scope.** ExternalDNS only sees what `Records` says and only
  sends what `AdjustEndpoints` makes. A difference that the one hides or the
  other makes up is never repaired, or planned for ever; one endpoint that
  validation rejects keeps its whole batch from being applied.

## Modules

| module | models |
|---|---|
| `ZoneIndex` | the zone, the index, and the calls one endpoint operation makes |
| `Provider` | `Records` and `ApplyChanges`: mutex, cache, queues, batches; ExternalDNS, readiness probe and restarts around them |
| `OwnershipContract` | abstract: what the provider promises of each identity |
| `ProviderInvariants` | the inductive invariants, layer by layer |
| `ProviderLate` | Provider with a Porkbun that commits a create after the client gave up |
| `PorkbunClient` | concurrent `do` calls: retries, backoff, rate slots, cancellation, idempotency keys |
| `CallContract` | abstract: what one client call promises |
| `WebhookServer` | `Run`, both listeners, the readiness loop, shutdown, requests as far as they hold the provider's mutex; time in ticks of five seconds |
| `RegistryLayout` | the lists of a batch: which layouts `validateChanges` accepts, how records and markers are paired, creates reordered and protected |
| `RecordsView` | one identity: the endpoint `Records` groups out of its records, what `AdjustEndpoints` makes of the wanted one, the planner's comparison, and the update it leads to |
| `DomainScope` | which names are configured, advertised, shown and accepted |
| `RecordCodec` | one target on its way: adjusted, validated, sent, listed by Porkbun, read |
| `ZoneIndexProofs`, `ProviderProofs`, `OwnershipProofs`, `FailClosedProofs`, `ClientProofs`, `ServerProofs`, `LayoutProofs`, `EndpointProofs` | theorems |
| `MCProvider`, `MCProviderLate`, `MCPorkbunClient`, `MCWebhookServer`, `MCEndpoints` | constants of the TLC instances |

`Provider` EXTENDS `ZoneIndex` and instances `OwnershipContract` with what the
zone holds of each identity; `PorkbunClient` instances `CallContract`. The two
compose by contract: `Provider` sees a client call as one step that succeeds,
or ends in an error with or without its effect, which is what `CallContract`
leaves of `do`. Its third possibility, an effect after the error, is
`ProviderLate`.

`WebhookServer` and `Provider` share the mutex, the cache and the queues:
`Provider` has their contents and no time, `WebhookServer` has their time (how
long the mutex is held, how long the cache lives) and of the contents only
whether the cache answers and whether something is pending.

`RegistryLayout` stands under `Provider`: a batch of `Provider` is a set of
steps in which a record and its marker already belong together, and
`RegistryLayout` shows that the code gets there from the lists it is sent. Its
`ProtectedBy` is what `Provider` takes as `Protected`: the records that keep a
marker from being rolled back.

`RecordsView` EXTENDS `ZoneIndex` too, and asks the question before
`Provider`'s: `Provider` assumes that an identity that differs from what is
wanted is planned, and `RecordsView` shows that the endpoint ExternalDNS gets to
see does differ exactly then. `RecordCodec` shows that targets may be compared
as values in both.

### How the provider model reads

*Identities.* `Owned` are (name, type) pairs. A zone is a set of records; a
record is a primary or the ownership TXT ("marker") of an identity. A record
has an id, a content (target or owner value) and `attr`, what else
`recordMatchesInput` compares. `NameOf` says which identities share a name:
`protectedEndpointForOwnership` cannot always tell those apart.

*A batch* is a set of steps, one per endpoint operation or pair; `Rank` gives
the order of `ApplyChanges` (deletes, updates, creates with markers first),
`After` the second half of a pair. Pairs of one rank are done in any order,
which covers every order ExternalDNS can send. `Task` says what a step wants of
the zone, `Calls` (in `ZoneIndex`) the next API call towards it, one call per
action: `CallOk`, or `DrainError`/`ApplyError` when it fails, with both
outcomes for the zone. Five places of the code ask `p.dryRun` before they send
a call; each is a definition of its own (`SkipsDelete`, `SkipsDuplicate`,
`SkipsCreate`, `SkipsMove`, `SkipsEdit`), and a call that none of them covers is
sent, dry run or not.

*A request* (`Handlers`, and `Probe` for the readiness loop) goes through
`queued` (waits for `operationMu`), `drainRead`/`drain` (the two queues are
worked off from a fresh read), `read` (cache or retrieve), `work` (the batch)
and `reply`. A batch that fails fills the queues (`LeftCleanups`,
`LeftRepairs`) and goes back to `drainRead`, as the deferred recovery calls of
`ApplyChanges` do, then ends with its error. A request's context may die at any
point (`Cancel`); the call goes on until it next uses the context, and
ExternalDNS may already be sending its next request.

*ExternalDNS* is modelled as the code relies on it: it plans from one
successful answer, one request at a time, and its v0.22 TXT registry sends
pairs (`Batch`, `ChangeOf`, `ManagedBy`). An identity that has a record but no
marker is not its own and never appears in a batch.

### How the server model reads

`run` is where `Run` stands: in its `select`, in the two calls of `shutdown`,
in `wg.Wait`, returned. A listener goes from `starting` to `serving`, to
`failing` when `ListenAndServe` returns an error, and to `ended` once it has
sent that error or been told to close. The readiness loop goes from `idle`
through the lock and the call of `Records` to `swap`, where it stores the flag.
`Due` says that something can be done without waiting; time passes only when
nothing is due, so a deadline met in the model is one that waiting alone cannot
break. `since` counts from the moment the end was asked for, `dark` from the
moment Porkbun was last of any use to the check.

### How the endpoint models read

`Grouped` is the loop of `Records` over records in some order; `View` says the
same of the set. `Adjusted` is `AdjustEndpoints`, `Differs` the planner's
comparison, `UpdateTask` the task `ApplyChanges` makes of the pair; its calls
are those of `ZoneIndex`. A name in `DomainScope` is the sequence of its labels
from the root, so the suffix tests of the code are prefixes; `Size` says how many
bytes a label has, for the limits of `validateDNSName`. A list in
`RegistryLayout` grows record by record; `unmarked` are those of its records for
which ExternalDNS adds a marker to the creates. A target in
`RecordCodec` has the fields whose forms differ (priority, numbers, host, pairs
of quotes); `Canonical` is `canonicalEndpointTarget`, `Sent` what `recordInput`
makes of a target, `Target` what `recordToEndpointTarget` makes of a record.

## Runs

| run | question | result |
|---|---|---|
| `crash` | faults, cancellations and a restart at any point, two types at one name, two requests and the probe; ownership, queues, cache | hold |
| `drift` | duplicates, drift and a change of the owner value under two faults: kept targets, mixed owners; are queued repairs done, does the zone converge? | hold, yes |
| `recovery` | does a restart in the middle of a batch heal? | yes |
| `dryrun` | is a dry run a full run without writes? | yes |
| `unpaired` | does the zone converge without the TXT registry too? | yes |
| `late` | "an ambiguous main create can never leave an unowned record" (provider.go:310) | violated |
| `client` | at most one write, spaced requests, no early retry | hold |
| `client_live` | does every call end, and a cancelled one without the clock or other calls? | yes |
| `endpoints` | lists, views, names and targets: what the provider makes of them | hold |
| `quotes` | "The webhook removes one matching outer pair of double quotes" (README.md:86) | violated |
| `server` | does the process end in time and truthfully, does readiness follow Porkbun? | yes |
| `readiness` | "Readiness probes credentials and connectivity every 15s" (docs/ARCHITECTURE.md:68) | violated |

The properties, by what they guard:

* `ContractSpec` (refinement of `OwnershipContract`): per identity only the
  moves absent–marked and marked–live, in either direction, ever happen; an
  unmarked record is never touched. Holds through faults, cancellation and
  restarts.
* `RecordsFailClosed`: no successful answer shows a marker without its record,
  nor two owner values. `DamageQueued`: whenever nobody holds the mutex, every
  such marker in the zone is in a queue under the value it has. Both are said
  of behaviours without a restart so far (see Bounds).
* `CacheCoherent`, `IndexFresh`, `LockInv`, `OwnershipInv`: what the mutex, the
  invalidations and the fresh reads are for.
* `AppliedWhenDone`: a batch without an error has done all of it, exactly once.
  `KeptTargets`: and never took a target away that was to stay.
* `PendingDrained`, `Converged`, `Restored`: liveness.
* `DryRunReadOnly`: no write, and nothing queued for later. The run meets each of
  the five guards: with any one of them left out it fails.
* `RegistryPaired`: a marker names its record and not its type, yet each record
  gets its own; `ProtectedSound`: a rollback looks for the marker's own record
  at least, and for others only when the list cannot tell them apart.
* `ViewOrderFree`: the endpoint does not depend on the order in which Porkbun
  lists records. `NoHiddenDrift`: ExternalDNS sees a difference exactly when an
  update has something to do. `Settles`: and after that update it sees none.
* `NeverRejected`: neither what the zone holds, nor what is wanted, nor a marker
  that inherits its properties is rejected by validation.
* `PlannedAccepted`, `MarkersAccepted`: the names ExternalDNS plans, `Records`
  shows and validation accepts are the same, and a marker is accepted with its
  record exactly when its name is not too long. The marker of a name is longer by
  the prefix and a dot, and for a wildcard by what replaces the asterisk. So a
  record with a name of more than 253 bytes less that, which validation accepts
  by itself, brings a marker that validation rejects with the whole batch, at
  every retry; nothing else keeps a marker out.
* `TargetsStable`: a target is the same at every comparison. A TXT value that came
  with several pairs of quotes is the same but for these; with one at most, which
  `AdjustEndpoints` removes, it is the same without exception.
* `StopsInTime`, `GracefulEnd`, `CleanExit`, `NeverHalfServing`,
  `ProbeGivesWay`: the end of the process.
* `RedInTime`, `ReadyRecovers`: `/readyz` goes red in bounded time after Porkbun
  has gone, and green again when it is back.
* `SlotsApart`, `RetryNotEarly`, `CallEnds`, `CancelPrompt` and the client's
  `ContractSpec`.

### The divergences

`quotes`: every place that makes a TXT value canonical takes a pair of quotes
off it (validation.go:562), and README.md:86 announces one pair. Within one
`ApplyChanges` these are `validateEndpoint` (validation.go:404), `recordInput`
(validation.go:479) and, once more, `serialiseContent` (provider.go:1049). The
run shows a value that comes with two pairs and is written with none. Two pairs
in the source are enough for a plan without an end: `AdjustEndpoints` leaves one,
the record is read back with none, and ExternalDNS sees a difference for ever.

`late` starts from an empty zone. A create times out in its last attempt while
Porkbun is still working on it; the batch fails, the rollback reads the zone
afresh, does not see the record, and deletes the marker; then the record
appears. The next plan of ExternalDNS finds a record that is nobody's and never
touches it again. The comment in `ApplyChanges` says this cannot happen; it
cannot when the effect of a failed create is settled by the time the error is
returned, which is the assumption of every other run and of the proofs.

`readiness`: the check calls `Records`, and `Records` answers from its cache
while that lives (provider.go:562, one minute by default). A check then
succeeds while Porkbun is out of reach or refuses the credentials, although
docs/ARCHITECTURE.md:68 and README.md:232 describe it as a probe of both.
`RedInTime` is what is true instead: the flag outlives Porkbun by the cache's
life, one interval and one deadline at most.

### Bounds, and why they are enough

* `Handlers` = two requests and the probe in `crash` and `dryrun`: a
  request that was given up, its successor and an unrelated reader; a fourth
  thread can only queue on the same mutex. The other runs have one request and
  the probe. In `drift` this keeps the check of liveness feasible; that two
  requests at once do no harm to duplicates and mixed owner values either is
  what `FailsClosed`, `NoDamageLost`, `BatchApplies` and `TargetsKept` prove, for
  any number of requests.
* `crash` has two identities but one target, attribute and owner value, so it has
  no update pairs; `drift` has them for one identity. For several identities
  with updates the refinement rests on the theorem `OwnershipKept`. The queue of
  `drift` holds work on one identity; several markers of one failed create are
  queued in `crash` (`DamageQueued`), but no run follows them until they are drained.
* `MaxFaults` (failed calls and cancelled requests) is 1 where two identities
  are in play and 2 where one is: a fault in the batch and one in the drain
  that repairs it. A dead context fails every later call at no cost.
* `MaxEdits`: one change of what is wanted while anything is under way, none in
  `late` and `recovery`. Initial zones and wants already cover all pairs of before and after.
* `MaxCrashes` = 1 in `crash` and `recovery`. `DamageQueued` and
  `RecordsFailClosed` speak of behaviours with `crashes = 0`, since the queues
  are in memory: after a restart an orphaned marker may be shown until
  `Restored` takes it over.
* `Ids` exceeds the records any instance can have, so a create always has an
  id. Ids are the least unused ones; their order only breaks ties between
  duplicates.
* Client: two calls; two retries (the program's default) in the safety run, one
  in the fair run; a tick is a second, minGap two ticks (one in the fair run),
  Retry-After below, between and above the backoff and the limit.
* Server: `ProbeTimeout`, `Period` and `Grace` are the code's ten, fifteen and
  thirty seconds in ticks of five; the cache lives twenty instead of sixty,
  longer than an interval and shorter than two. Two requests, so that one may
  wait for the other; one in `readiness`.
* Layout: two names with three types each, lists of up to four records, and any
  of the markers in the zone already: same-name records with and without
  their markers, in every order.
* View: up to three records of one identity, two contents, TTLs absent, below,
  at and above the floor, both raw types for up to two records; one failing
  call. Three records are enough for a duplicate beside another target; the
  order of grouping is all permutations of them.
* Scope: names of up to four labels in a zone of one, any filters over three
  names, one of them outside the zone. The labels are as long as it takes: names on
  both sides of 253 bytes, and names within it whose markers are of 253 bytes
  and of 254, with and without a wildcard; one label is too long itself.
* Codec: numbers at both ends of sixteen bits and one beyond, padded or not;
  two pairs of quotes from a source (three in `quotes`), one more from Porkbun.

### Fairness

`FairSpec` of `Provider`: the controller keeps polling, a call that was started
goes on, and an attempt to lock is granted in the end although others come and
go (strong fairness of `Acquire`: `sync.Mutex` hands over to a starving
waiter). No failure, cancellation, expiry or probe is obliged to happen; faults
are bounded, so calls stop failing at some point.

`FairSpec` of `PorkbunClient`: a call that has begun goes on, because its waits
select on its context and its request has the HTTP client's timeout. That time
passes is a premise of `CallEnds` only; `CancelPrompt` does without. Porkbun
never has to answer.

`FairSpec` of `WebhookServer`: what is due is done, time passes, and the
readiness check gets the mutex in the end (strong fairness of `ProbeLock`, for
the reason above). `ReadyRecovers` also needs that Porkbun, while it is
reachable, answers some of the checks before their deadline (strong fairness of
`ProbeAnswer`); a Porkbun that is always too slow is not told from one that is
away. Nothing makes requests end, listeners fail or a signal come.

`ViewFairness`: an update that is due is asked for and goes on. Failures are
bounded.

### Assumptions

* A call that ends in an error has or has not had its effect by then
  (everywhere but in `ProviderLate`).
* One controller, nobody else writes to the zone.
* When a request is given up its context is dead before its batch could run.
* A retrieve that returns records the code cannot decode counts as failed.
* Targets are processed in one fixed order.
* Porkbun gives every record an id of its own (`IdsAssumption`, for the zone the
  process starts on).
* Porkbun honours idempotency keys: a key in use is refused as retryable, a
  known one is answered again. Keys of different calls differ.
* What the program does without waiting takes no time against ticks of five
  seconds (`WebhookServer`).
* Porkbun lists a record as it was written, but may leave out a priority of
  zero, end a host with a dot, and put a TXT value in quotes (`RecordCodec`).
* The registry's prefix and wildcard replacement are the chart's, and are labels
  within the limit of 63 bytes (`DomainScope`).

## Proofs

All theorems are about the specifications for every value of the constants that
satisfies the named assumptions (`ZoneAssumption`, `ProviderAssumption`,
`ClientAssumption`, `TimesAssumption`, `LayoutAssumption`, `ViewAssumption`,
`ScopeAssumption`, `CodecAssumption`, `IdsAssumption`): any number of identities, requests,
faults and restarts, lists and names of any length, any time limits. Every
invariant and action property that a passing run checks has its theorem. Three
hypotheses are not assumptions of a module:

* `Registry`, in `OwnershipKept`, `Fitting`, `FailsClosed` and `NoDamageLost`:
  ExternalDNS runs with its TXT registry, without which there are no markers.
* `WholeStart`, in `FailsClosed`, `NoDamageLost` and, with a registry,
  `BatchApplies`: the zone the first process starts on has no marker without its
  record and no two owner values of one record. A process that ends with nothing
  pending leaves such a zone; one that is killed may not, which is why these
  properties speak of behaviours without a restart. The zones of `crash`,
  `drift` and `dryrun` satisfy it; `recovery` starts from one that does not.
* `IsFiniteSet(Records)` and `IsFiniteSet(AllContents)`, in `OperationsEnd`: a zone
  and the targets of an endpoint can be counted.

The invariants of `Provider` come in layers, each inductive on top of the ones
before it:

* `LockInv` (`ProviderProofs`: `Locked`, `Typed`, `Coherent`, `Fresh`): the
  thread that holds `operationMu` is the one inside; there is no snapshot while
  a batch or drain runs; steps exist only inside the loops; nothing is read for
  an answer or a batch before the queues are empty. `CacheCoherent` alone is not
  inductive: a confirmed call changes the zone, and only the empty cache at work
  keeps it true.
* `PlanInv` and `OwnershipInv` (`OwnershipProofs`: `Fitting`, `OwnershipKept`).
  The argument: from a successful answer until the batch planned from it begins,
  nothing is pending and nobody writes, so the plan fits the zone (`ViewInv`,
  `BatchFits`); within the batch each step either fits the zone or waits for its
  marker's step before it (`WorkInv`); what a failure queues is about identities
  that are not foreign (`ItemsInv`); and a step that fits the zone makes a move
  of the contract (`ZoneIndexProofs` has the facts about single calls).
  `DryRunReads` and `TargetsKept` are action properties; the first rests on
  `CallGuarded` (`ProviderProofs`): whatever call a step comes to, one of the five
  guards covers it.
* `WholeInv` (`FailClosedProofs`: `FailsClosed`, `NoDamageLost`). Outside a batch
  every damaged identity is in a queue, and its item names every owner value
  there is (`Queued`); within a batch the damage is at the step under way or at
  a marker the batch has tried to create, and the step knows the values
  (`Sheltered`: `Known`, `TriedKnown`, `DamageKnown`, and the order in which the
  passes come, `InOrder`). A failing call moves from the one to the other
  (`ErrorQueued`), a drain takes an item out only when its identity is whole
  (`DrainDone`), and so an answer, which is read with both queues empty, shows
  no damage (`DrainedWhole`). `RecordsFailClosed` says nothing of the queues and
  could not be proved without them.
* `AppliedInv` (`FailClosedProofs`: `BatchApplies`): of the steps asked for, each
  is still to come with its identity as it was planned (`Ready`), under way, half
  done (`HalfDone`) or achieved; the calls of a step leave the achievements of the
  others alone, because two steps of a batch meet at one identity only to create
  its two halves (`Apart`).

The other components:

* What an endpoint operation does is proved about `ZoneIndex`, for any task and
  any index. `OperationEnds`: every call lowers `CallsLeft`, the records of the
  identity, those of them with other attributes, those to be moved, and twice the
  contents that are missing. A create adds a record, which is why a missing
  content counts twice; a duplicate is deleted only while another record has its
  content (`AnotherStays`). `StopsOnlyDone`: there is a next call exactly while the
  task is not done; it rests on the ids (`IdsApart`), because two records with one
  id would both be the preferred one. `ProviderProofs` takes both to the loops:
  `OperationsGoOn` (with `IdsInv`, which every call preserves) and `OperationsEnd`.
  These are the facts about the code behind `Converged`; that the calls are made
  in the end is fairness, and stays with TLC.
* `ClientProofs`: `Typed`, `SlotsKept`, `NotEarly`, `CallMeetsContract`, from
  one invariant: a key is used up exactly when its write happened and only then
  is success answered; no claim is younger than the slot; a call that backs off
  waits at least as long as the server wants.
* `ServerProofs`: `StopsWithinGrace`, `EndsGracefully`, `ExitsTruthfully`,
  `ServesWhole`, `CheckGivesWay` from `ServerInv`: the servers are shut down one
  after the other and only once stopping has begun (`ShutInv`); every error in
  `errCh` is of a listener that has ended, so two places are enough and no send
  blocks (`ErrsInv`); Run has left the API server with requests in progress only
  after the whole grace and with an error (`LeftInv`). The heart is `TimeUp`:
  once the grace is over something is always due, so time cannot pass before
  Run returns. `RedWithinPatience` has an invariant of its own, `RedInv`: while
  the flag is up, the age of the outage plus what is left of the cache's life, of
  the interval or of the deadline, whichever the loop is waiting for, stays within
  what these add up to.
* `EndpointProofs`: `TargetsKeepForm`, from `CodecInv` (what every place of the
  way has is canonical, or stems from something canonical, and is what was asked
  for with as many quotes or fewer: `ComesBack`, `KeptBack`), for any numbers and
  any pairs of quotes.
  `DriftSeen`, for any records of an identity, any TTLs and any wanted endpoint:
  `SameWhenDone` and `DoneWhenSame` are the two directions of `NoHiddenDrift`
  for one state, and `ViewInv` says which states those are. `OrderFree`: one round
  of the grouping loop takes the view of a set to the view of the set with the
  record (`ViewAdds`, the loop invariant), and the fold of the community modules,
  a choice among the functions that satisfy its equation, can then only be the
  view (`GroupedIs`). `BatchNotRejected` rests on `AliasInv`: only a CNAME has
  records of the raw type ALIAS, or gets any. `PlansAccepted` and `MarkersTaken`
  rest on `ScopeInv`: the filters are names in the zone and without wildcards,
  so a filter that is above a name is above its marker, in which only wildcards
  are replaced (`MarkerLabels`, `MarkerBelow`). `MarkerBytes` counts the bytes of a
  marker label by label: a wildcard can only be the first label of a name, the
  last one here, so all labels below it have the same bytes in both.
* `LayoutProofs`: `PairsFound` for lists of any length: the first marker stands
  right behind the records, so position `n + i` is the marker of `i`.
  `BatchPaired` and `CreatesProtected` from `LayoutInv`: the markers of a list of
  creates are of planned records; there are as many only if they are of all of
  them, in order, and fewer only if some record has its marker already.

Model-checked only: liveness (`PendingDrained`, `Converged`, `Restored`,
`CallEnds`, `CancelPrompt`, `Settles`, `ReadyRecovers`), which is out of TLAPS'
reach. No theorem is an induction over data: `LayoutInv` is one over the steps
that plan a list, `GroupedIs` exhibits the function the fold stands for, and
takes the least place at which another one would differ.

## Not modelled, and the plan

Done in this order: index and endpoint operations, provider, contract, proofs,
client, its contract and proofs, registry layout; server and its proofs, view,
scope, codec and their proofs; then the invariants of batches, repairs, lists,
views and names, and the finite part of liveness, that an endpoint operation has
only so many calls to make and stops only when it is done. Next is the same for a
whole batch and a whole drain.

Not modelled, and why:

* Of the codecs, the types that a DNS library or `net/netip` parses (CAA, HTTPS,
  SVCB, addresses) and those that are fields of digits (TLSA, SSHFP): string
  algorithms without a step of their own, and the libraries are not here.
* Of `validateChanges`, record types, set identifiers and the range of TTLs: one
  test each, no relation between two pieces of code.
* Requests to the ops server: short, and nothing waits for them but shutdown.
* `computeBackoff` at attempts above the retries the program ever makes.
* Body limits, media types and status codes of the HTTP layer, metrics, reading
  the environment, the chart, the release scripts: no state, no order, or
  observed by nobody in the process.

## Running

    tlc -workers 2 -config crash.cfg MCProvider.tla
    tlapm OwnershipProofs.tla

Definitions called mutants in the modules are deliberate errors, one for each
checked property: with the mutant in place of the definition it follows, the
property's run fails.
