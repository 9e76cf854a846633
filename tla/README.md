# A verification of pacproxy in TLA+

pacproxy is a local HTTP proxy that asks a PAC script where to send each
request. The script is JavaScript, evaluated by one interpreter behind one
mutex, so its decisions are cached; `SIGHUP` reloads the script and flushes the
cache while requests keep running. HTTPS goes through CONNECT tunnels that
relay bytes in both directions.

This directory models the parts of the program in which several goroutines,
peers or clocks meet: the decision cache, the engine, the process that reloads
them, the tunnels, the forwarding of plain requests, the memos behind the
script's helper functions and the helpers that read the calendar.
Line numbers below are those of the repository's files.

## Inventory

| part | state | operations | talks to |
|---|---|---|---|
| decision cache, `pac/cache.go` | `items`, `order` under `mu`; `ttl`, `maxSize` | `FindProxyForURL` (two critical sections around the inner call), `Invalidate` | engine (inner finder); handlers and `reloadManager` call it |
| engine, `pac/otto.go` | `isStarted`, `vm` under `mutex` | `Start`, `Stop`, `Reload`, `FindProxyForURL` | loader; helper functions run inside the VM |
| process, `pacproxy.go`, `pacproxy_signal.go` | `sigChan`, the signal goroutine | `main`, `reloadManager.Reload`, signal delivery | engine, cache |
| CONNECT tunnels, `proxyhttphandler.go:183-423` | two connections, `br`, deadlines, two copy goroutines | `doConnectProxy`, `readConnectHandshake`, `relay`, `closeBoth`, `closeWrite` | cache (lookup), client, origin or upstream proxy |
| helper memos, `pacfunc/cache.go` | two LRU lists with an index each | `get`, `put`, `Clear`, `resolveHostCached`, `shExpRegexp` | resolver; called by the script only |
| HTTP forwarding, `proxyhttphandler.go:442-552` | the client's connection, the transport's idle connections | `ServeHTTP`, `lookupProxy`, `doHTTPProxy`, header filters | `net/http` server and transport, cache, hops |
| helper predicates, `pacfunc/pacfunc.go` | the clock | `weekdayRange`, `dateRange`, `timeRange`, string and address tests | memos |
| parsing and selection, `pac/parse.go`, `pac/selector.go`; static pages | none | `ParseFindProxyString`, `SelectProxy` | called by the handlers |
| loaders, `pac/loader.go` | none | file and HTTP input | called by `Start` under the engine's mutex |

What is hard, and what makes each part correct:

* **Decision cache.** The inner call runs outside the mutex, so lookups of one
  key overlap each other, evictions and a flush. Correct: the index never
  points to an element that is not linked or belongs to another key; the list
  stays bounded; a decision is answered only under its key and within its time;
  nothing survives a flush.
* **Engine.** `Reload` is two critical sections, `Start` looks at `isStarted`
  under two different locks, evaluations may panic while they hold the mutex.
  Correct: one goroutine inside at a time; versions are published in order; a
  successful reload shows the edit; the mutex is always released.
* **Process.** A reload is three steps (stop, start, flush) next to requests in
  any state; the signal channel holds one signal. Correct: no signal is lost
  with its edit; what is stale after a reload is known precisely; a failed
  reload ends the process.
* **Tunnels.** Handshake bytes and payload share a buffer; the two directions
  end in either order, by EOF, error or deadline. Correct: no byte is lost,
  repeated or overtaken; a half-close is passed on behind everything else, and
  the FIN of a `Close` comes earlier only after a reset or the drain limit; no
  left-over deadline cuts a tunnel; every tunnel ends.
* **Helper memos.** `get`, the resolver and `put` are separate; outcomes have
  different life times. Correct: list and index agree; a memo answers with
  nothing that is past its outcome's time.
* **HTTP forwarding.** Requests of one client share its connection and hops are
  reached over pooled connections that may be dead; a reply may break off after
  its status was passed on. Correct: a request goes where the first statement
  says or nowhere; a reply that looks complete and was announced with a length is;
  nothing a hop says about its own connection reaches the client's; every
  connection to a hop is in use, pooled or closed; every request is answered.
* **Calendar helpers.** Bounds are made by setting one field of today after the
  other, in an order the script chooses, and `time.Date` carries what a month does
  not have; dates are compared as nanoseconds in 64 bits. Correct: the answer is the
  one the bounds as written would give, in the years that 64 bits count.

`PROJECT.json` lists every hazard at its line with the properties aimed at it.

## Modules

| module | models | notes |
|---|---|---|
| `LruList` | `container/list` as the caches use it | sequences; position 1 is the front |
| `ProxyCache` | `CachingProxyFinder` | `Hit`, `MissExpired`, `MissAbsent` are the outcomes of the first critical section, `Insert` is the second; `InnerReturns` and `InnerPanics` the call between them |
| `DecisionCache` | (abstract) what such a cache promises | knows only the set of offers |
| `OttoEngine` | `OttoEngine` | each section under the read lock is one action; a write section is split where the loader or the script runs |
| `PacProxy` | the process: `OttoEngine` and `ProxyCache` with `main`, the signal goroutine and `reloadManager` | a named instance of each component; its actions conjoin theirs |
| `Tunnel` | `doConnectProxy`, `relay` | `inbox` and `outbox` are the kernel's buffers, `prefetch` is `br`, `held` the relay buffer; `shut` and `hung` are the peers that were sent a FIN by `closeWrite` and by `Close` |
| `HelperCaches` | both memos of `pacfunc/cache.go` | `engine` is the mutex of `OttoEngine` |
| `HttpForward` | `ServeHTTP`, `lookupProxy`, `doHTTPProxy`, `copyHeaders`, `ParseFindProxyString`, `SelectProxy` | the server and the transport of `net/http` are external and part of the actions that cause their steps |
| `ByteStreams` | (abstract) what a CONNECT proxy promises two peers | one answer, and two streams whose end is seen only behind the last byte unless the tunnel was broken |
| `PacTime` | `WeekdayRange`, `DateRange`, `TimeRange` | the functions as operators; a clock reads local time and GMT; `UnixNano` is where the 64-bit count puts a date |
| `LruListProofs`, `ProxyCacheProofs`, `OttoEngineProofs`, `HelperCachesProofs`, `PacProxyProofs`, `TunnelProofs`, `HttpForwardProofs`, `PacTimeProofs` | proofs | |
| `MC*` | instances for TLC | |

Correspondence of state. `items` and `order` are the fields of the same names;
a list element carries an identity (`id`), because concurrent misses link
several elements with one key, and the code compares pointers. A decision
stands for the pair (proxies, err), since errors are cached alike. The script is
a version number that edits increase; a VM, and in `PacProxy` a decision, is
named by the version it comes from. `pc`, `mpc` and `fpc` say where a goroutine
is between two critical sections. Variables marked *history* in the modules are
read by properties only. In `HelperCaches` a list holds keys, because `put`
looks for the key first: `MemosSound` checks that no key is linked twice. In
`HttpForward` `client`, `request` and `response` are the client's connection,
`stage` is where `doHTTPProxy` is, `conn` its connection to the hop and `pool` the
transport's idle one for each hop; bodies are counted in pieces.

Clocks tick up to a bound. In `Tunnel` time is not counted: a deadline that is
set may pass at any moment, which covers every speed of the peers.

## Runs

| run | instance | what it shows |
|---|---|---|
| `proxy_cache` | 2 callers, 2 keys, 3 decisions, size 2, TTL 1, clock to 2 | the invariants of the cache and that it implements `DecisionCache` |
| `proxy_cache_lru` | 2 callers, 3 keys, size 2 | **violation** of `EvictsOnlyWhenFull` |
| `engine` | 2 managers, 1 finder, 2 edits, the first breaks the script | the engine's invariants, and that every call returns |
| `process` | 1 request, 2 keys, size 1, TTL 1, clock to 1, 2 edits, the second breaks the script, room for 1 signal | what can be stale after a reload, in the cache and in answers; a live process has flushed for what it runs; signals are kept and take effect; lookups return |
| `process_edits`, `process_swap` | 2 requests, 1 key, 1 edit | **violations** of `EditsTakeEffect`, `VmIsSwapped` |
| `tunnel` | 2 bytes each way, 1 byte of kernel buffer | the tunnel's invariants, and that it implements `ByteStreams`; setting up ends, and tunnels end when peers read |
| `tunnel_pinned` | the same, peers need not read | **violation** of `DrainIsBounded` |
| `http_forward` | 3 requests on a connection, 2 proxies and DIRECT, 11 answers of the script, 4 of them longer than is read, replies of every framing of up to 2 pieces, a split limit of 2 | the invariants of forwarding; who hangs up; every request is answered |
| `pac_time` | the 1st, the 3rd and the 28th to 31st of every month of 2015 and 2016, late enough for GMT to be a day ahead, bounds in years that 64 bits of nanoseconds do not count, and times around midnight and the bounds; every form of call, fields in any order | the three helpers say what their bounds say |
| `pac_time_dates` | the same | **violation** of `OneDateMeansThatDate` |
| `helper_caches` | 2 goroutines, 3 hosts and 3 patterns (one does not compile) in memos of 2 and 1, life times 2 and 1, clock to 3 | the memos' invariants |

Why the bounds are enough. Two callers are what an interleaving of one miss with
another, with an eviction or with a flush needs; the keys outnumber the places
in every cache that evicts, so elements without an index entry, their eviction
and re-insertion all occur. The clock passes an entry's end and, in
`helper_caches`, both life times. Two edits allow a good version after a broken
one and the reverse, and a second signal while the first is served. Two managers
are two `Reload`s between whose halves the other runs. In `tunnel` two bytes let
one be prefetched behind the handshake while the next waits in the socket, and
a buffer of one byte lets a write block. One request is enough in `process`
for a decision taken before a reload to be inserted after it, and two keys for
its element to be evicted again; the interleavings of several requests in the
cache and the engine are those of `proxy_cache` and `engine`. In `http_forward`
the first request leaves an idle connection, the second may find it dead and be
tried again, and the third meets what the second left; a split limit of 2
stands for the 50 of the code, with answers on both sides of it, whose rest parses
as another hop than the statements say or as none. `pac_time` has
every carry `time.Date` makes from a day, in a leap year and in another, and
years whose nanoseconds have wrapped up, down and many times. The theorems
below do not depend on any bound. `helper_caches` uses the symmetry of callers
and of hosts; runs with liveness use none.

### What the violations show

* `EvictsOnlyWhenFull` (`pac/cache.go:28`, "a bounded, TTL'd LRU cache"): an
  insert does not look whether its key was indexed meanwhile (162). The older
  element stays linked, unreachable, and when it is evicted it takes the index
  entry of the newer one along (166): a fresh decision is forgotten while the
  cache is not full. The cost is one evaluation; the cache never answers wrongly.
* `EditsTakeEffect` (`pacproxy.go:90-92` and the repository's `README.md:45`,
  "reloads the PAC and flushes the cache atomically"): a lookup that has evaluated the old
  script and not yet inserted when the cache is flushed inserts the old decision
  afterwards; it is served for a TTL. `StaleOnlyIfLate` shows that once a flush is
  over these are the only stale decisions. Between the engine's reload and the
  flush the cache still answers with old decisions as well, so that requests
  in that window are answered by either script.
* `VmIsSwapped` (`pacproxy.go:91`): inside `Reload`, after `Stop` and before
  `Start` has the mutex again, a lookup calls a nil VM and panics. net/http
  recovers the panic and drops the connection; the mutex is released, so
  `CallsReturn` and `LookupsReturn` still hold.
* `DrainIsBounded` (`proxyhttphandler.go:43-48`): the drain limit is a read
  deadline, so a direction blocked in a write to a live peer that does not read
  is not bounded by it. With peers that read, `TornDown` holds.
* `OneDateMeansThatDate` (`pacfunc/pacfunc.go:232`): more than one argument is
  always split into two bounds of half the arguments, so `dateRange(3, "JAN")`
  is everything between the 3rd of this month and today's day of January, and
  true on 5 January.

### What else the models say

These are properties of the code as it is, beside what the runs are about.

* A reply that is chunked, unpacked by the transport, or ended by the hop's
  hanging up carries no length to the client, and `io.CopyBuffer`'s error is
  dropped (`proxyhttphandler.go:457`): if it breaks off, the client sees a
  complete answer. `CompleteMeansAll` is about replies that declare a length.
* "hop-by-hop headers are stripped" (the repository's `README.md:54`) is true of
  replies. Of a request's headers only the ones `removeProxyHeaders` lists are
  deleted, and its `Close` flag stays set: a client that says `Connection: close`
  also costs the connection to the hop.
* The script is asked again at every retry of the transport, and may send the
  retry elsewhere.
* `Split` stops at 50 pieces (`pac/parse.go:33`), and the 50th is all that is left
  of a longer answer. Mostly that does not parse, and the request fails. But
  `DIRECT ;...` is DIRECT, because only the word before the blank is looked at,
  and `PROXY h:1/;...` is `h:1`, because what follows the slash is a path;
  `PROXY h:1;x@y:2` is even `y:2`. The model takes any hop or none for the
  rest (`rest`). `RoutedAsSaid` says what holds all the same: a hop among the
  statements before the limit is the one used, and one of them that does not parse
  stops the answer; the rest names the hop only if all before it are empty.
* A peer cannot tell by its end of stream that a tunnel was cut short. When one
  side is reset or the drain limit passes, `closeBoth` (409) closes the healthy side,
  too, and that sends an ordinary FIN, perhaps before all was delivered. `FinMeansAll`
  and `ByteStreams` say that this happens for those two reasons only.
* A request with a body to a hop that stops reading, and a reply's body, have no
  time limit; `RequestsAnswered` assumes what it needs.
* `dateRange("GMT")` is true. One full date, three arguments, is split one to two.
  `dateRange(1, "FEB", 29, "FEB")` is true on 1 March of a year without a 29
  February; `DateMeansBetween` is about dates that exist.
* `dateRange` compares `UnixNano()` (`pacfunc/pacfunc.go:347-355`), which counts from
  September 1677 to April 2262. `dateRange(2015, 9999)` is false in 2016: the
  bound of 9999 has wrapped to a time long past, and the two are swapped.
  `DateMeansBetween` is about 1678 to 2261, the years counted in full.
* Bounds are swapped into order, never wrapped: FRI to MON is MON to FRI, and
  22 to 6 is 6 to 22. Seconds from 60 on lose the minute they carry.

### Fairness

`OttoEngine!Fairness` is strong fairness of each goroutine's steps: a goroutine
that can run does, and one that waits for the mutex gets it if it is released
again and again, because a Go mutex is handed to a waiter that has waited for a
millisecond. Nobody is assumed to call. Loading and evaluating a script are
assumed to end: a script that loops holds the mutex forever in the code, too.
`PacProxy!Fairness` is the same for main, the requests and the signal goroutine;
nothing is assumed of signals and edits. That loading ends is an assumption the
code does not enforce when the script comes from a URL: `http.Get`
(`pac/loader.go:48`) has no time limit and runs under the engine's mutex. `Tunnel!FairSpec` is weak fairness of
the handler and the two copy goroutines and of deadlines passing; nothing is
assumed of the peers. `ReadingSpec` adds that peers keep reading; `TornDown`
needs it, and `tunnel_pinned` shows that it does. Dialling ends because the
dialer has a timeout. `HttpForward!Fairness` is weak fairness of the handler, of
`ResponseHeaderTimeout`, of handing a request without a body to the kernel and
of noticing a dead connection. Nothing is assumed of hops: `RequestsAnswered` asks
that a request without a body gets a status, or that its connection ends; that a
reply's body ends is not claimed.

## Proofs

| theorem | statement |
|---|---|
| `ProxyCacheProofs!TypeCorrect`, `IndexIsSound`, `SizeIsBounded`, `NewestIsReached`, `AnswersFit` | the invariants of `proxy_cache`, for every instance |
| `ProxyCacheProofs!Implements` | `Spec => KeepsPromise`: the cache implements `DecisionCache` |
| `OttoEngineProofs!TypeCorrect`, `MutualExclusion`, `ReloadIsSeen`, `PublishedInOrder` | the invariants of `engine`, for every instance |
| `HelperCachesProofs!HelperTypes`, `MemosStaySound`, `NoReplyTooOld` | the invariants of `helper_caches`, for every instance |
| `PacProxyProofs!TypeCorrect`, `StaleIsLate`, `QuietIsCurrent`, `SignalKept`, `CurrentAnswers` | the invariants and `AnswersAreCurrent` of `process`, for every instance |
| `PacProxyProofs!RunsEngine`, `RunsCache` | `Spec => Engine!Spec` and `Spec => Cache!Spec`: the process implements its components |
| `PacProxyProofs!EngineStaysSound`, `CacheStaysSound` | what is proved of engine and cache alone holds in the process |
| `PacProxyProofs!CacheKeepsPromise` | `Spec => Cache!KeepsPromise`: the process as a whole implements `DecisionCache` |
| `TunnelProofs!TypeCorrect`, `NothingLost`, `FinIsAll`, `NotCutShort`, `Timed` | the invariants of `tunnel`, for every number of bytes and every buffer |
| `TunnelProofs!Implements` | `Spec => KeepsStreams`: the tunnel implements `ByteStreams` |
| `HttpForwardProofs!TypeCorrect`, `AllArrives`, `GoesWhereSaid`, `NoneLeaks`, `StaysAlive` | the invariants and `KeptAlive` of `http_forward`, for every script, request and reply |
| `PacTimeProofs!TypeTheorem`, `WeekdayTheorem`, `DateTheorem`, `TimeTheorem` | the invariants of `pac_time`, for every clock and call |

Assumptions. `CacheAssumption` and `NilAssumption` (`ProxyCache`),
`EngineAssumption` (`OttoEngine`), `HelperAssumption` and `HelperNilAssumption`
(`HelperCaches`), `ProcessAssumption` (`PacProxy`), `TunnelAssumption` (`Tunnel`),
`ClocksAssumption`, `CallsAssumption` and `NilAssumption` (`PacTime`),
`LimitAssumption`, `RequestsAssumption`, `AnswersAssumption`, `RepliesAssumption`
and `NilAssumption` (`HttpForward`): sizes, times and bounds are
naturals, the signal channel has room for one signal at least (the code makes
it of size 1), a URL without a host is not a key, the nil pointer is neither a
decision nor an element, goroutines of different kinds differ; an answer of the
script is a sequence of statements and what its rest parses as, and no proxy is
called `DIRECT`, `bad` or nothing; a clock shows a day of the calendar whose GMT is
in the years 1 to 9999 and within a day of local time; a number in a `dateRange`
is from 1 to 9999; a reply that names headers has a `Connection` header, and one
of known length does not name `Content-Length` in it (a reply that does loses its
length on the way, and `CompleteMeansAll` with it). Nothing bounds
the number of callers, keys, decisions, managers, finders, hosts or patterns.

*The cache.* `IndexSound` is not inductive: that eviction keeps the index sound
needs that identities in the list are distinct (`Bounded`), and that the index
points to the foremost element of its key (`NewestWins`), for otherwise the
deletion of a key's index entry with an evicted element could leave an entry
that points to another evicted element. `NewestWins` in turn needs that no
element expires later than `now + TTL` (`Horizon`), so that a new element never
expires before an older one of its key. `AnswerFitsKey` splits into what callers
hold and what elements hold. The inductive invariant `IInv` is the conjunction.
`LruListProofs` states once what each list operation does to lengths, positions,
members and distinctness; `UnlinkKeeps`, `MoveToFrontKeeps` and `InsertKeeps` lift that
to the store; `StepInv` has one case per action. `Implements` maps `offers` to
what the index reaches and each action to one action of `DecisionCache`, using
`IInv` for the element behind an index entry.

*The engine.* `ReloadSeesEdit` is strengthened by the order of versions: a
manager that is loading has found no VM, and what it loaded is between the last
version published and the script (`InOrder`); and once a `Reload` is past its
`Stop`, whatever anybody publishes was loaded after that `Reload` was called
(`SeenFromStop`), which holds because the engine has been seen stopped under
the mutex since.

*The helper memos.* `RepliesAreFresh` is about what the memo answers with (the
answer of the resolver itself is as old as the way from the resolver to the
script). It needs that every entry expires at its own
outcome's time (`EntriesDated`). The memo's `put` alone would not keep that: it
prolongs an entry that is there already. It never finds one, because no entry
for a host appears while that host is looked up (`NotKnown`), because only one
goroutine is inside the script (`OneInside`). `MemosSound` is carried by the
lemmas of `LruListProofs` about members.

*The process.* `RunsEngine` comes first: every step of the process is a step of
its engine or none, so the engine's inductive invariant holds inside the process
and is cited there (`EngineHolds`), never proved again. The strengthening says
that main manages the engine alone until the process is up and the signal
goroutine alone afterwards (`OneManager`), that whoever reports a success has
left a VM behind, that what runs is what was published last, and that nothing
newer than it has been flushed for (`Ordered`). `StaleOnlyIfLate` is then an invariant
because a flush empties the cache and `late` records the lookups that hold an older
decision at that moment; `QuietMeansCurrent` because a failed reload leaves no live
process. `RunsCache` needs that the VM is a version of the script or nil,
which the engine's invariant gives: a decision taken from it is then one that
the finder the cache wraps may give. With both, the components' theorems are
instances here: `EngineStaysSound` and `CacheStaysSound` carry the invariants over, and
`CacheKeepsPromise` the refinement, so that what a client of the process may rely
on is `DecisionCache`, reloads included. `AnswersAreCurrent` is an action
property: a hit gives what an element holds, which is no older than the last
flush unless its key is in `late`, and an evaluation gives what runs, which is
no older than what was flushed for; it needs the cache's type invariant, that an
indexed key has a decision. `SignalIsKept` says what the
dropping of signals costs: nothing, because a signal that finds the channel full
finds one that is not received yet, and a reload reads the script later than it
receives. It needs that no signal announces a script that does not exist yet
(`ToldInTime`), that there is room for one signal, and the engine's
`ReloadSeesEdit`: what a reload publishes is at least what there was when it was
called.

*The tunnel.* `Conserved` says that what a peer has got, what waits in the
kernel's buffer, in the relay's buffer and in the socket or the prefetched bytes
is, in this order, the sequence of what was sent; each step moves a piece from one place to
its neighbour, which the lemmas about cutting and joining sequences carry. It
needs `Stage`: nothing is relayed before the relay starts, and the response head
is the first thing in what an upstream proxy has sent. `NoTruncation` needs
`Orderly`: without a reset and within the drain limit, a goroutine that has ended met
an end of stream, and neither closed a socket the other still uses.
`FinMeansAll` needs `Orderly` as well, for the FINs of `Close`: while nobody reset and
nobody used up the drain time, both goroutines of a tunnel that closes have
ended at an end of stream, so both peers have had their half-close
before. `WaitsAreTimed` is the safety behind `SetUpEnds` and `TornDown`, which
only TLC checks: wherever a tunnel waits although one side has ended or has not
yet answered, a deadline is set, and a relay open both ways has none.

`Implements` maps a tunnel to `ByteStreams` by what peers can see: bytes they sent
and read, and an end of stream that a peer sees once its buffer is empty
(`SeenEnd`), whether `closeWrite` or `Close` sent the FIN; the tunnel is `broken` once a peer has
reset or used up the drain time. What the proxy keeps in between has no counterpart: reads of a copy
goroutine, buffers and deadlines are stutters (`HandlerKeepsStreams`,
`CopyKeepsStreams`), except that a shutdown of an empty direction lets the peer
see the end. That the next byte a peer reads is the next of the other's stream
is `Conserved` (`LineCounts`: what is in line counts on from what was read,
`PositionFacts`); that an end of an unbroken tunnel is seen only behind the last byte is
`FinMeansAll` with it (`NothingUnread`). `Answered` ties what the client was told to the
phase, for `ByteStreams` lets nothing arrive before.

*Forwarding.* `NoLeak` counts connections: those open to a hop are the one in
use and the idle one. It needs that a connection is held exactly while a
request is sent, awaited or copied (`Stages`) and that a hop in use has no idle
connection besides (`OneEach`). `LengthIsForwarded` says that `copyHeaders` leaves a declared length alone;
`CompleteMeansAll` follows from it. `RoutedAsSaid` is about data: the
statement followed is the first that is not empty (`StatementsRead` relates the pieces of
`Split` to the statements of the answer). What
`ParseFindProxyString` keeps is a recursive function of the position
(`KeptUpTo`), and a property of every position follows without an induction
theorem over operators: the set of positions where it fails is a set of naturals,
and one that is not empty has a least element, which contradicts the step
(`Induction`). `KeptStep` is the step, `KeptAreFilled` and `FirstIsSelected` what
follows.

*The calendar.* A bound made field by field need not be the date the script
named: a day the month on the way does not have is carried into the next month.
`DateTheorem` shows that the bound is always on the same side of today as the
named date (`BoundSide`, with `SideOfOne`, `SideOfTwo` and `SideOfThree` for
the number of fields), which is all that the comparison sees. That the comparison
sees it is arithmetic: days are in the order of year, month and day (`DayByStamp`, from
`IntoYear` and `YearsFollow`), and within 1678 to 2261 the 64-bit count has not
wrapped (`CountedDays`), so it is in the order of days. `TypeTheorem` shows
that the bounds are days of the calendar, for halves of up to three fields.

Only model-checked: liveness (`CallsReturn`, `HupTakesEffect`, `LookupsReturn`,
`SetUpEnds`, `TornDown`, `RequestsAnswered`), which the proof system cannot reach, as it
cannot reach ENABLED or RECURSIVE operators (the modules
declare none); and the violations. Every invariant and every action property of a
passing run is a theorem, and so are both refinements.

## Not modelled

* The request's headers (`removeProxyHeaders`, `parseBasicAuth`): a sequence of
  deletions without a state; what they leave of `Connection: close` is in
  `EndOfBody`. The limits on the number of idle connections
  (`proxyhttphandler.go:105-106`): the pool of the model has one place for each hop.
  With one client a retry therefore finds one dead connection at most;
  `RequestsAnswered` says nothing about retries over many.
* HTTP/1.0 clients that ask to keep the connection: the server ends an answer of
  unknown length to them by hanging up, which `KeptAlive` does not allow for.
* The host predicates of `pacfunc.go:72-180`: each is one call of `strings` or
  `net`. (`LocalHostOrDomainIs` asks whether the last occurrence of the host is
  the first position, so a host that occurs twice in the domain is refused.)
* Daylight saving time: `PacTime` reads a clock and never converts one.
* The syntax of a single statement in `pac/parse.go` and the `String` methods.
* Loaders: a choice among four inputs and then input; `OttoEngine!Load` reads
  the script's current version or fails.
* The one-shot mode `-r` (`do_resolve`): one lookup in a process without others.
* Writes before the relay starts (the CONNECT passed on to the upstream proxy,
  the handshake passed back) are assumed to fit the kernel's buffers.
* That `pacfunc.Clear` "is used when the underlying PAC engine is reloaded"
  (`pacfunc/cache.go:174-175`) is not true of the program, in which only tests
  call it; `HelperCaches` lets it happen at any time or never.

## Plan

Done: every module and every proof named above. What is left, in the order of
its worth:

1. Several clients at once in `HttpForward`, with the transport's limits on idle
   connections. The handlers share nothing else, so this is about the pool only.
2. The one-shot mode `-r` as a second `main` of `PacProxy`.
3. `PacTime` over daylight saving changes, which needs the conversion of a local
   time that exists twice or not at all.
