# SentryDNS in TLA+

A TLA+ development of SentryDNS, the split-horizon DNS forwarder in `src/`. The
modules are translated from the Go source. TLC checks them on small instances.
TLAPS proves the main safety properties for every value of the constants.

## 1. The system

A DNS handler admits a request, the resolver answers it from a static record, the
cache or an upstream, and remembers which names are Iranian. Everything else supports
that path. All components run as goroutines of one process.

| component | state | operations | interacts with |
|---|---|---|---|
| handler, limiters (`main.go:145-212`, `ratelimit/`) | token bucket; a window per client | `Allow` twice, `cleanup` | resolver |
| `Resolve`, `resolve` (`resolver.go:428-605`) | singleflight table, cache, store | static, cache, share, route, retry | cache, store, upstreams |
| `resolveWithLearning` (`resolver.go:263-426`) | two channels, two contexts, timers | race IranDNS and GlobalDNS, vet, learn | breakers, store |
| circuit breakers (`resolver.go:39-104`) | `state`, `failures`, `lastOpen`, gauge | `isOpen`, `tryProbe`, `recordFailure`, `recordSuccess` | `query` (`resolver.go:619-728`) |
| store (`store.go`) | `domains`, `persistBuf`, generations, timer, file | `Add`, `Remove`, flush, rewrite, cleanup, `Stop` | disk, resolver, state file |
| cleanup pool (`store.go:250-281`, `346-431`) | a bounded channel, workers | wait, snapshot, hand out, validate | resolver, store |
| cache (`cache.go`) | map with expiry | `Get`, `Set`, sweep | resolver |
| updater, classifier (`updater.go`, `classifier.go`) | range file, prefix tables | download, check, rename, `Reload`, record | resolver, state file |
| metrics, state file (`metrics.go`, `state.go`) | counters, a JSON file with four writers | restore, daily reset, debounced flush, `Update` | store, updater |
| shutdown (`main.go:231-250`) | | `m.Stop`, `r.Stop`, `s.Stop`, `u.Stop`, in this order | all of them |
| config, logger, exporters | none that changes | | |

What is hard here: breakers made of several atomics without a lock; two goroutines
racing in every learning request; a file that is appended to by one goroutine and
replaced by others, with a generation number deciding what to drop; a `Get` that gives
up its lock half-way; requests that share a resolution; statistics that are read counter
by counter, written ten seconds later, reset at midnight and restored after a crash; a
shutdown that overtakes goroutines it does not wait for. `PROJECT.json` lists these
hazards at the lines where they bite.

## 2. The modules

| module | models | checked by |
|---|---|---|
| `CircuitBreaker` | the breaker, one step per atomic operation, and the query path | `breaker_*` |
| `Answers` | DNS responses as far as the resolver tells them apart | through the modules below |
| `LearningSpec` | what `resolveWithLearning` promises its caller, in one step | as `Implements` |
| `Learning` | `resolveWithLearning` in full | `learning` |
| `Resolver` | `Resolve` and `resolve` for concurrent requests | `resolver`, `resolver_types` |
| `Store` | the learned-domain store and its file | `store_*` |
| `Cache` | the response cache | `cache` |
| `Admission` | both limiters and the handler that asks them | `admission` |
| `StateFile` | `state.Update` and its four writers | `background` |
| `Statistics` | the counters of learned names: counting, saving, reset, restoration | `background` |
| `Updater` | the updater and the classifier that it reloads | `background` |
| `CleanupSpec` | what the cleanup of the store promises, without goroutines | as `CleanupImplements` |
| `CleanupPool` | the goroutines of the cleanup and their channel | `background` |
| `Background` | the four modules above, with main that starts and stops them | `background` |
| `*Proofs` | theorems about the module they are named after; `StatisticsProofs` are about `Statistics` as a part of `Background`, and `BackgroundProofs` also about `CleanupPool` | TLAPS |
| `MC*` | constants and symmetry for TLC | |

Composition: `Resolver` and `LearningSpec` both take the outcomes of a learning
request from `Answers!LearningOutcomes`. `Learning` is shown to implement
`LearningSpec` (the property `Implements`, the theorem `ImplementsSafely`), so what
`Resolver` assumes is what the code of `resolveWithLearning` does. `Admission` composes
the two limiters the way the handler does. `Background` composes `Statistics`, `Updater`
and `CleanupPool`, which share the state file (`StateFile`) and the flags of the
shutdown; `CleanupPool` is shown to implement `CleanupSpec` alone and in that
composition. What a cleanup does to the names in memory and on disk, once they are
judged, is in `Store`.

### How state and actions correspond to the code

* **CircuitBreaker.** `state`, `failures` and `gauge` are the atomics. `granted` is a
  history variable, the probes granted since the last trip; no guard reads it. `age` is the
  time since `lastOpen`, and stops just above the cooldown, where `tryProbe` no longer tells
  times apart. `pc`, `n` and `prev` are the control point and the locals of each query
  stream. A stream is a goroutine that sends one query after another: through `isOpen` and
  `tryProbe` (*gated*), through `isOpen` alone and not at all when the breaker is open
  (*learning*, `resolver.go:272`), or directly (*bypassing*: learned names, fallbacks). A
  stream may be of several kinds, and then changes between them. Reading the clock and
  `lastOpen` is one step, and so is reading the clock and storing it.
* **Learning.** `worker`, `sending` and `chan` are the two upstream goroutines and their
  channels, `cancelled` and `ctxDone` the contexts, `pc` the select the request waits in.
  Timers may fire at any time. An exchange may return nil at any time: an error, a
  timeout and a cancellation look the same to the caller. The check of the context and
  the exchange are two steps. The fallback server of
  GlobalDNS and the TCP retry only decide which response that is.
* **Resolver.** `flight` is singleflight, `cache` the set of cached answers, each with the
  question it was obtained for. A question is a name, a type and a class; the key has no
  class, and no type if `dns.TypeToString` does not know it. Left out are the SERVFAILs of
  `resolver.go:429-447`: the server accepts no message without a question, and main stops
  the servers, which wait for their handlers, before the resolver. Other response codes than
  success, NXDOMAIN and SERVFAIL take one of the branches of these three. Entries expire,
  and the store forgets names, at any time.
* **Store.** `buf` and `batch` are the append buffer and what the flusher has drained,
  with a Boolean that says whether a rewrite has started since (the code compares
  generation numbers, of which only this matters). `file` and `tail` are the complete
  lines and an unfinished last one. `Junk` is a line that is a piece of a name.
  `diskError` remembers that the file may be damaged. The constant `Operations` selects
  what a run explores. `Stop` waits for the learners, as main does: the DNS servers'
  `Shutdown` waits for the handlers. The worker pool of the cleanup is one step here that
  picks the names to remove; it is modelled in `CleanupPool`.
* **Cache.** The time left replaces the clock: positive, 0 at the instant of expiry, -1
  afterwards, since `Get` and the sweep treat that instant differently.
* **Admission.** Tokens are counted in units of 1/`Ticks`. Time since the last refill
  stops at a second, which fills the bucket whatever it held; the age of a window stops
  where the code no longer compares it. `excess` and `recent` are history: by how much the
  tokens taken exceed the rate, and how long ago the last requests of each client were
  admitted, as many as two windows could hold.
* **StateFile.** `file` is the record on disk. `Update` is two steps under `updateMu`:
  the load, which takes a file that cannot be read for an empty one, and the save, which
  may fail unnoticed. `saved` is a history variable: each field as its own writer saved it
  last. `damaged` remembers a failure.
* **Statistics.** `total` and `midnight` are the atomics of the metrics, `spc` and `taken`
  the goroutines in `saveLearnedToday`, which read the total, the count at midnight and the
  date in three steps. `buf`, `flushTimer` and `flushMu` are `flushBuf`, the timer of ten
  seconds and its mutex; a timer that has fired is not stopped any more. `day` is the
  date, `learned` (history) the names really learned since midnight. `RestoreFromFile`
  takes a file that it cannot read for an empty one (`Loadable`). `torn` (history)
  marks a reading across midnight, a reset that is still at work at the next one, and a
  start from zero beside a file that is not empty.
* **Updater.** A list of ranges is a model value with two qualities: whether
  `containsValidCIDR` accepts it, and whether `classifier.New` does. They are independent:
  the one stops after ten valid ranges, the other fails on a line that its scanner cannot
  take. `works` says whether downloads and renames succeed at present.
* **CleanupPool.** `ValidateDomain` and `IranDNSHealthy` look whether the resolver is
  stopped in one step, and ask IranDNS in another. `work` is the channel, with room for two
  names per worker; `wpc` and `hand` are the workers. `gone` are the names that IranDNS
  denies when it is asked. They, the names in the store and the workers are picked when the
  cleanup takes its snapshot.
* **Background.** `mpc` is main. The variable `uses`, fixed from the start, says what goes
  on in a behaviour and what may fail, so that a run explores a sum of workloads and not
  their product. A crash or the exit of main ends every goroutine wherever it is; the
  next start restores what the file has. A start fails, and is never taken, if the ranges
  file cannot be loaded.

## 3. The runs

| run | constants | shows |
|---|---|---|
| `breaker_safety` | 3 streams, each of all three kinds, threshold 2, cooldown 1, bound 3; symmetric streams | `FailuresBounded`, `ClosedBelowThreshold`, `OneProbePerTrip`, with contexts that may end early |
| `breaker_liveness` | 1 gated stream, 1 learning and bypassing stream, contexts that do not end before the exchange begins (`CtxMayEnd = FALSE`), failures only when the upstream is down | `HalfOpenHasProbe`, `HalfOpenIsDecided`, `RecoversWithUpstream` |
| `breaker_stuck` | 1 gated stream, contexts that may end | `HalfOpenIsDecided` fails |
| `learning` | every set of address kinds | `LearnsWhatItSaw`, `GlobalAnswerIsUsed`, `NoGoroutineLeak` and the refinement `Implements` |
| `resolver` | 2 requests for one name or for a name and its parent, 5 names (one per route), 4 types, 2 of them without a name, 2 classes | `CleanAnswers`, `AnswersNameAndType`, `OneResolutionPerQuestion`, `FollowersHaveLeader`, `EveryRequestIsAnswered` |
| `resolver_types` | 2 types without a name, 1 class | `AnswersOwnQuestion` fails |
| `store_faults` | 2 names, crashes, torn appends, disk errors | `NoLostLearning` |
| `store_live` | 2 names, cleanups, graceful restarts | `NoLostLearning`, `LearnedReachesFile` |
| `store_cancel` | cleanup against removal | `CancelledRewriteIsRedundant` fails |
| `cache` | 3 keys, 2 entries | `Bounded`, `FreshEntriesStay`, `ExpiredGoFirst` |
| `admission` | 2 clients, 2 handlers, 2 ticks to a second | `BurstBounded`, `LessThanTwiceTheRate` |
| `background` | 8 workloads; 2 learners, saves at every second name, 2 days; 4 lists; 3 names for 1 worker or 2 names for 2 | `NoLostUpdate`, `ExitSavesTotal`, `LearnedTodayIsRight`, `SuccessMeansLoaded`, `SenderIsServed`, `GoodListArrives`, `CleanupImplements` |

Why these bounds are enough. A race on a breaker involves a goroutine between two atomic
operations and another that overtakes it; three streams give every such pair, with a third
to observe. `MaxFailures` bounds the failure counter: with that many failures counted, an
exchange may fail only while the breaker is half-open. The bound is on the exchange and not
on `failures.Add(1)`, so streams that are already past it still race, and the counter
exceeds the bound by as many. It is above the threshold in `breaker_safety` and
`breaker_liveness` and equal to it in `breaker_stuck`. The store needs two names, one older
and one newer than a rewrite. The resolver needs two requests that share a key, or a name
and its parent, and one name for each route. Two clients are enough for limiters that keep
clients apart. The statistics need two readings in flight and a name learned after each, one
midnight, and a count before the first day that is not zero; `MaxTotal` and `LastDay` bound
them. There is one list for each verdict of the two tests that matters (accepted, too short,
unusable) and a second good one to replace the first. One worker with three names meets a
full channel; two workers share one.

Deadlock is not checked for `learning`, `resolver` and `resolver_types`: their requests
end.

Fairness. Go schedules every runnable goroutine, so each process step has weak
fairness. Timers fire and deadlines pass. A mutex is handed to its oldest waiter after
a millisecond (starvation mode), hence strong fairness for taking `ioMu`. An exchange
ends, with a response or without, since it has a timeout; which of the two is never
assumed, nor that an upstream comes back. Crashes, stops, and the arrival of names and
the start of cleanups in the store have no fairness. In `breaker_*` each stream keeps
sending queries, and in `resolver` each request arrives: `Step` includes both.
`RecoversWithUpstream` therefore speaks of an upstream that clients keep using. It is
checked only where contexts do not end before the exchange: `breaker_stuck` shows that
otherwise the breaker may stay half-open, also when the upstream is back.
In `background` the updater and the cleanup each have weak fairness, since each may go
round for ever. The others share one: their work is bounded by the names that are left to
learn, so they cannot starve each other. A `select` with a timer and the
shutdown ready time and again takes the shutdown some time, because Go picks at random:
strong fairness for that step. Midnights, signals, failures, crashes and new lists have
none; `GoodListArrives` assumes in its premise that the list
stays and that downloads and renames work from some time on, and concludes that the
classifier has the list from some time on.

### Where code and documentation disagree

Three runs are expected to fail, each on a statement of the repository.

* `breaker_stuck`: `query` returns before the exchange when its context has ended, and
  tells the breaker nothing (`resolver.go:620-640`). A goroutine that has just won the
  probe, for instance in the retry of line 478, leaves the breaker half-open, where no
  probe is granted any more. ARCHITECTURE.md:783 has every probe decide the breaker.
  Without such contexts the property holds (`breaker_liveness`).
* `store_cancel`: the cleanup cancels a pending rewrite as redundant (`store.go:448-454`),
  but a name may have been removed after the snapshot of its own rewrite.
* `resolver_types`: types that `dns.TypeToString` does not know share one key
  (`resolver.go:467`, `cache.go:129`), against ARCHITECTURE.md:1015. For known
  types and one class the property holds (theorem `OwnQuestionsAreAnswered`). Whatever the
  types and classes, the answer is for the name asked and for its type, if that has a name
  (`AnswersNameAndType`, run `resolver`).

### Behaviours to know of

The modules also have the following behaviours, which are not kept as runs.

* A probe may be granted right after a trip: the state is Open before `lastOpen` is stored
  (`resolver.go:60-61`; ARCHITECTURE.md:782).
* The gauge may contradict the state after two racing changes (`resolver.go:63`, `:75`;
  `metrics.go:58`).
* Failures need not be consecutive to trip a breaker: a success takes one off
  (`resolver.go:81`; ARCHITECTURE.md:1084). Cancelled exchanges count as failures.
* An address query whose GlobalDNS race was skipped by the breaker fails without the
  synchronous fallback when IranDNS has nothing (`resolver.go:414`; ARCHITECTURE.md:770).
* With both breakers open the first select has nobody to wait for, and waits for the
  deadline (`resolver.go:302`; ARCHITECTURE.md:1001).
* An upstream that has already returned nil is waited for once more, until the timer fires,
  when the other one needs it (`resolver.go:353`, `:384`).
* The class of a question is not part of the key either (`resolver.go:467`,
  `cache.go:129`): a query of class CH may be given the answer to one of class IN. The
  documentation describes the key as name and type.
* A goroutine that has passed the check of its context may start its exchange after the
  request has returned (`resolver.go:620-640`). It ends soon, since the context is
  cancelled, and its response goes to a buffered channel (`NoGoroutineLeak`).
* A name removed while it is buffered may be appended after the rewrite that dropped it
  (`store.go:122`).
* A rewrite that fails has raised the generation, so a batch may be skipped that is
  nowhere on disk (`store.go:203`, `:155`). This is why `NoLostLearning` speaks of an
  undamaged file.
* Appends are in place: a crash may leave a piece of a line, which is loaded as a name
  (`store.go:159-168`; ARCHITECTURE.md:1005). `diskError` marks this too, so no property
  speaks of it.
* The process may exit before the flusher has written its last batch (`store.go:133`).
* The client limit is a fixed window: up to twice the rate, less one, within a second
  (`ratelimit.go:64`; ARCHITECTURE.md:910 calls it sliding). `LessThanTwiceTheRate` is
  what holds. A request takes its token before its client is checked (`main.go:184`).
* Traffic that only learns never closes the IranDNS breaker: `resolveWithLearning` skips
  IranDNS while the breaker is open, and does not probe (`resolver.go:286`).
* NXDOMAIN removes the exact name, while the lookup may have matched its parent
  (`resolver.go:583`). A shared resolution ends with the deadline of its leader
  (`resolver.go:470`).
* The cleanup deletes a name that was judged minutes ago, also if it has been learned again
  since (`store.go:435`); a rewrite that fails is not repeated before the next removal or
  cleanup (`store.go:236`).
* A state file that cannot be read counts as empty, so the next save erases the fields of
  the other writers (`state.go:25-30`; ARCHITECTURE.md:977 has the state reset).
* The same at a start (`metrics.go:98`): the counters begin at zero, and the count of today
  is too small. If a midnight follows, the reset puts a small count at midnight beside the
  old total, and after a crash and another start the count of today is too large. `torn`
  marks it.
* Saves may arrive out of order: a goroutine that read the counters earlier may put its
  reading over a newer one (`store.go:317`). Two names counted before either goroutine
  looks again step over the multiple of 50, and neither saves (`store.go:93`). The save of
  the shutdown repairs both (`ExitSavesTotal`); a crash does not.
* The reset at midnight saves the count at midnight and not the total (`metrics.go:133-137`).
  After a crash the total may be below it, and the count of today stays 0 until the total
  has caught up. This is the `<=` of `LearnedTodayIsRight`.
* A reading across midnight may join the counters of one day with the date of the next, and
  a restart then counts the names of both days as of today (`store.go:296-303`). The same
  happens when midnight falls between `m.Stop` and `s.Stop`. A reset that is held up until
  the next midnight saves the older count with the newer date (`metrics.go:133-137`). The
  history variable `torn` marks all three.
* A count of 0 at midnight is taken for a missing one (`metrics.go:102-109`).
* The ranges file is replaced before it is loaded (`updater.go:144-150`). A list that passes
  `containsValidCIDR` and fails in `classifier.New` leaves the old ranges in memory, as
  ARCHITECTURE.md:979 says, and a file with which the process does not start again.
  A rename that fails leaves the temporary file behind.
* After a restart the last update counts as a success, whatever the state file says
  (`updater.go:87`).
* The cleanup waits for an unhealthy IranDNS, with a growing delay, rather than being
  skipped (`store.go:352-371`; ARCHITECTURE.md:984).
* A shutdown that comes when all names have been handed out leaves some of them unjudged,
  and the cleanup removes what it has found and records its time as if it had finished
  (`store.go:397-399`, `:430`). `r.Stop` comes before `s.Stop`, so names whose
  validation begins in between are all valid (`resolver.go:731`), while those already asked
  about may still be denied. Neither removes a name wrongly.

## 4. The proofs

| theorem | statement | argument |
|---|---|---|
| `CircuitBreakerProofs!FailureCounterBounded` | `Spec => []FailuresBounded` | a pending decrement will lower the counter whatever its value is by then, so the invariant takes the pending ones off in advance: `failures - Cardinality(Decs) >= 1 - Cardinality(Streams)` |
| `CircuitBreakerProofs!NoMissedTrip` | `Spec => []ClosedBelowThreshold` | a closed breaker at its threshold always has a stream on its way to trip or reset it |
| `CircuitBreakerProofs!AtMostOneProbe` | `Spec => []OneProbePerTrip` | while Open no probe has been granted; only the swap from Open grants one |
| `CircuitBreakerProofs!ProbeIsUnderWay` | `Spec => []HalfOpenHasProbe` | inductive as it stands: the winner of the swap is about to query, and a stream on its way decides the breaker or finds it decided |
| `StoreProofs!LearningIsKept` | `Spec => []NoLostLearning` | the mutex, and: what was learned after the snapshot of a rewrite is buffered in its generation |
| `LearningProofs!LearningIsVetted` | `Spec => []LearnsWhatItSaw` | an invariant per control point on what has been received |
| `LearningProofs!GlobalIsUsed` | `Spec => []GlobalAnswerIsUsed` | the same invariant |
| `LearningProofs!ImplementsSafely` | `Spec => Abstract!Safety` | every step is a stutter, or the one answer |
| `ResolverProofs!TypeCorrect` | `Spec => []TypeOK` | no answer that is cached, or about to be released, is nil |
| `ResolverProofs!AnswersAreClean` | `Spec => []CleanAnswers` | every answer held or cached is clean for the question it was obtained for, and that question has the key of the one asked |
| `ResolverProofs!QuestionsAreCoalesced` | `Spec => []OneResolutionPerQuestion` | whoever resolves a key is recorded for it in singleflight |
| `ResolverProofs!NameAndTypeAreAnswered` | `Spec => []AnswersNameAndType` | an answer has the key of the question it is given to, and the key keeps the name and a type that has a name |
| `ResolverProofs!OwnQuestionsAreAnswered` | `Spec => []AnswersOwnQuestion`, if `UnknownTypes = {}` and there is one class | the key then determines the question |
| `ResolverProofs!FollowersAreServed` | `Spec => []FollowersHaveLeader` | a recorded key is being resolved by the request recorded for it, and a key that is waited for is recorded |
| `CacheProofs!CacheIsBounded` | `Spec => []Bounded` | a full map loses an entry before it gains one |
| `CacheProofs!FreshEntriesAreKept` | `Spec => FreshEntriesStay` | both deletions test the expiry under the write lock |
| `CacheProofs!ExpiredAreEvictedFirst` | `Spec => ExpiredGoFirst` | a sample as large as the map is the map |
| `BackgroundProofs!CleanupRemovesWhatIsGone` | `PoolSpec => Abstract!Safety` | conservation: until the shutdown, every denied name is still to be sent, in the channel, in one hand, or in `toRemove` |
| `BackgroundProofs!PoolInContext` | `Spec => PoolSpec` | every other step leaves the pool alone |
| `BackgroundProofs!CleanupImplementsSafely` | `Spec => Abstract!Safety` | the two before together |
| `BackgroundProofs!WorkersStay` | `Spec => []SenderIsServed` | until the store is told of the shutdown, a worker returns only when the channel is closed and empty |
| `BackgroundProofs!TypeCorrect` | `Spec => []TypeOK` | one lemma per component |
| `BackgroundProofs!UpdatesAreKept` | `Spec => []NoLostUpdate` | whoever is between load and save holds `updateMu`, and the copy it has loaded is what the writers have saved |
| `BackgroundProofs!SuccessIsLoaded` | `Spec => []SuccessMeansLoaded` | an update that is about to be recorded as a success has been loaded; a start loads the file |
| `StatisticsProofs!ShutdownSavesTotal` | `Spec => []ExitSavesTotal` | from `s.Stop` on, the total of main is in its reading, in `flushBuf`, in the hand of `flushState` or in the file, whoever runs it |
| `StatisticsProofs!TodayIsCounted` | `Spec => []LearnedTodayIsRight` | the counts of a day are followed from memory into the readings, the file and back (`TodayInv`, below) |
| `AdmissionProofs!RateIsKept` | `Spec => []BurstBounded` | what was taken in excess of the rate is missing from the bucket |
| `AdmissionProofs!ClientRateIsKept` | `Spec => []LessThanTwiceTheRate` | the window in force counts the latest admissions; `MaxRPS` admissions before it lie in older windows, whose first is more than a window ago |

Each module of proofs establishes type correctness first. The theorems assume only the named
assumptions of the modules: a finite nonempty set of streams; a positive threshold and
bound, a cooldown in `Nat`; positive rates and ticks; finitely many cache keys and a
positive MaxTTL; query types among which A and AAAA have names, and none of which is empty;
finitely many workers, at least one for each cleanup; files that initially hold complete
names; a first list that can be loaded; address sets made of the known kinds; and special
values that differ from the names and goroutines they are mixed with. The bound
`MaxFailures` is a parameter of the theorems, so they hold for every bound. The invariants
are not inductive as stated. `NoLostLearning`, for one, holds after a rename only because a
name missing from the snapshot was buffered after the rewrite had begun; the strengthening
says just that.

The proofs about `Background` are for any number of learners, workers, names, lists, days
and workloads. `NoLostUpdate` is stated with a history variable, and its strengthening ties
`loaded` to it while `updateMu` is held. `ExitSavesTotal` needs to know where the total is
at each control point of main and of `flushState`, because the callback may have taken
`flushBuf` before main gets to it, or may run after main has put the last reading there.

`LearnedTodayIsRight` speaks of two counters while main serves, but a restart takes them
from the file, and what is in the file was read up to ten seconds before it was written,
perhaps on the day before. `TodayInv` therefore says, unless something is torn: that every
reading, in a goroutine, in `flushBuf` or in the hand of `flushState`, is of an earlier day
or has today's count at midnight (`ReadInv`); that nothing in the file is of today before
the reset has stored that count (`DateInv`); that the total in memory (`CountInv`) and in
the file (`FileCounts`) is at most the count at midnight plus the names learned since; that
it is equal to it where nothing was lost (`ExactInv`); and that the last save of main has
the date of today if anything was learned today (`LastSave`). The run has `LastDay = 2`; the
theorem is for any number of days.

Only model-checked: liveness (`HalfOpenIsDecided`, `RecoversWithUpstream`,
`LearnedReachesFile`, `NoGoroutineLeak`, `EveryRequestIsAnswered`, `GoodListArrives`, and
the liveness part of `Implements` and of `CleanupImplements`), which is out of the
prover's reach. Every invariant and every action property that a run checks and that holds
is a theorem as well. Three of them are what the liveness rests on: `HalfOpenHasProbe`,
`FollowersHaveLeader` and `SenderIsServed` say that whoever waits, waits for somebody who is
on the way. `NoLostLearning` plays that part for `LearnedReachesFile`.

`BackgroundProofs` and `StatisticsProofs` make Zenon the default prover; the leaves with
arithmetic name SMT.

## 5. What is not modelled

* Configuration, logging, metrics export and HTTP: no state that a property is about.
  Metric counters other than the gauges, the learned names and the last update are left
  out everywhere.
* Matching of names against suffix lists, and of addresses against ranges: the constant
  `Suffixes` and the kinds of address stand for their results. A lookup during `Reload`
  sees the old ranges or the new ones, both slices together (`classifier.go:83-86`).
* Floating-point rounding in the bucket; the hash that picks a shard.
* The wall clock: when an update or a cleanup is due (`scheduleFromMtime`,
  `parseCleanupSchedule`, `cleanup_qps`) is left open, and the reset happens at midnight. The
  code re-arms its timer with 24 hours, and drifts by an hour when the clocks change.
* The listeners, the loop detection and `dns.Server.Shutdown`, which waits for the handlers.
  `r.Stop` relies on that: a request could otherwise be counted after it has looked
  (`resolver.go:438`, `:822`). Its limit of 30 seconds is above the deadline of a request.
* `metrics.New` starts the goroutine of the reset before `RestoreFromFile` sets the path of
  the state file, without synchronisation (`metrics.go:92`, `:97`). It matters only for a
  midnight between the two, at the start of the process; the model starts both at once.
* Durability below the file system: a rename is atomic and lasting once it has returned.
