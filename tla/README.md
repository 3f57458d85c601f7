# Formal model of the multi-threaded proxy server

TLA+ modules, TLC configurations and TLAPS proofs for the HTTP proxies of this
repository: the caching one, `src/proxy_server_with_cache.c`, the one it is
compared with, `src/proxy_server_without_cache.c`, and the request parser
`src/proxy_parse.c` that both use.  Every definition is translated from that code; line
numbers below refer to `proxy_server_with_cache.c` unless another file is named.
`PROJECT.json` maps each definition to the lines it stands for.

## 1. The system

One process, one thread per client.  `main` accepts connections and creates a
thread for each; a thread receives one GET request, answers it from the cache or
from the origin server, closes the connection and ends.

| component | state | operations | shared with |
|---|---|---|---|
| accept loop (746-845) | slot index `i`, `Connected_socketId[MAX_CLIENTS]`, `seamaphore` | accept, store the descriptor, `pthread_create` | each thread: it gets the *address* of its slot |
| worker thread, `thread_fn` (573-743) | `buffer`, `tempReq` (the cache key: the whole request text), the client's descriptor | wait for the semaphore, receive, look up, parse, coalesce, fetch, answer, close, post | all below |
| request coalescing (41-162) | `pending_table`: hash chains of reference-counted entries with a mutex, a condition variable and `completed` | `pending_wait_or_register`, `pending_wait`, `pending_complete` | threads with the same key |
| response cache (624-658, 847-1007) | LRU list, `hash_table`, `cache_size`, `rwlock`, `lru_mutex` | lookup (inlined in `thread_fn`), `add_cache_element` with its eviction loop | all threads |
| origin exchange, `handle_request` (447-552) | request buffer, response buffer, origin descriptor | send the request, pass the response on, collect it for the cache | connection pool, cache |
| connection pool (165-309, 390-444) | per-bucket lists of idle origin connections, their count, a lock | `get_from_pool`, `return_to_pool`, `is_connection_alive` | all threads in `handle_request` |
| request parser (`proxy_parse.c`) | a `ParsedRequest`: the parts of the request line, cut out of `buf` in place; `headers`, an array that doubles; `headersused`, `headerslen` | create, parse, get / set / remove a header, print, destroy | nobody: an object belongs to one thread |
| server without cache (`proxy_server_without_cache.c`) | slot index, slots, semaphore; one thread per client with its own connection to an origin; a list of responses that stays empty | accept, receive, connect, pass the response on, close | slots, semaphore, descriptor numbers, the static result of `gethostbyname` |
| benchmark scripts (`scratch/`, `*.py`, `*.sh`) | none of the server's | start servers, measure, patch variants of the source | - |

What is hard in it:

- **Interleaving.**  Waiters, fetchers and completers of a pending entry share
  its reference count under one lock and `completed` under another.  Lookups
  hold `rwlock` for reading and still reorder the list, under `lru_mutex`.
- **Staleness.**  A thread reads its descriptor from a slot after it has waited
  for the semaphore.  A waiter goes back to the cache expecting the response.
  A pooled connection is tested and used later.
- **Partial failure.**  Allocation fails after elements have been evicted; the
  origin or the client goes away in the middle of a response, or before its
  first byte; threads and descriptors run out.
- **Boundaries.**  A key longer than 511 bytes, colliding keys, the slot index
  wrapping, a cache at its limit, a bucket of two connections, an array of
  headers with one free slot.
- **Texts.**  The parser cuts the request line in place and looks for separators
  without checking what lies between; what it accepts is printed again and sent
  to an origin.

What makes each component correct:

- coalescing: one fetcher per key; exact reference counts, so no entry is used
  after it is freed or leaked; no lost wake-up; every waiter is released;
- cache: a well-formed list of the same elements as the table; exact accounting
  within the limit; found elements stay valid until copied; every call returns;
  to its users it is an LRU cache;
- worker thread: one request per key at the origin, what the cache serves was
  stored under the key asked for, one answer per client, no client left
  unanswered but for known reasons, every connection closed;
- accept loop: the semaphore counts, a thread serves its own client, whatever
  is served is closed, every waiting thread gets its turn;
- origin exchange and pool: every origin connection has exactly one owner, the
  bucket counts are exact and bounded, a request talks to its own server and
  passes on a prefix of the response to it (as long as no connection was pooled
  in the middle of a response), and returns;
- request parser: the headers are a map from keys to values; a request that is
  printed parses again to the same request, or is refused for its length; every
  block is freed once;
- server without cache: no thread uses another's descriptor, and every thread ends.

`PROJECT.json` lists the hazards at their lines, with the property that covers
each or the reason why none does.

## 2. The modules

| module | models | uses |
|---|---|---|
| `Pending` | request coalescing, both locks and the condition variable | - |
| `LRUCache` | abstract specification of the response cache | - |
| `Cache` | the response cache pointer by pointer, lock by lock | refines `LRUCache` |
| `Proxy` | the life of a client connection in `thread_fn` | instantiates `Pending` and `LRUCache` |
| `Acceptor` | accept loop, slots, semaphore, client descriptors | - |
| `OriginPool` | `handle_request` with its origin connection, the connection pool, the origins | - |
| `HeaderMap` | abstract specification of the headers of a request | - |
| `HeaderTable` | the array of headers with its holes and its growth | refines `HeaderMap` |
| `RequestText` | what the parser finds in a text, and what is printed: operators only | - |
| `ParsedRequest` | the life of a `ParsedRequest` object | extends `HeaderTable` and `RequestText` |
| `Baseline` | the server without cache | - |
| `ListFacts` | lemmas the proofs share: least elements, removing from a list, adding to it | TLAPS and its library |
| `PendingProofs`, `OriginPoolProofs`, `CacheProofs`, `BaselineProofs` | theorems about the module each is named after | that module, `ListFacts`, TLAPS |
| `AcceptorProofs` | theorems about `Acceptor` | `Acceptor`, TLAPS and its library |
| `ProxyProofs` | theorems about `Proxy` | `Proxy`, `ListFacts`, instantiates `PendingProofs` |
| `ParsedRequestProofs` | theorems about `HeaderTable` and `ParsedRequest` | `ParsedRequest`, `ListFacts`, TLAPS |
| `MCPending`, `MCCache`, `MCProxy`, `MCOriginPool`, `MCParsedRequest`, `MCBaseline` | constants and symmetry for TLC | the module each is named after |

**Grain of atomicity.**  A critical section that takes no other lock is one
action, since all accesses to what it protects are under that lock.
`pending_complete` takes the entry's mutex inside `pending_lock`, so it is three
actions during which waiters can still test and block; `pthread_cond_wait`
releases the mutex atomically with going to sleep and may return spuriously.
In `Cache`, what `rwlock` keeps constant during a lookup (the hash chain) is read
in the action that takes the lock; the two list operations and the copy are
actions of their own, so concurrent lookups interleave between them.

**Pending.**  `pc[t]` says where thread `t` is: `fetching` between
`pending_wait_or_register` returning NULL and `pending_complete`; `waiting`,
`blocked`, `leaving` in `pending_wait`; `unlinked`, `signalled` in
`pending_complete`.  `entry[t]` is the local pointer, `heap` the allocated
entries.  `Stored` is the truncation by `strncpy` to the 512-byte field: the chain an
entry is added to is that of its stored key (line 78), while searches use the
whole key (lines 66, 132).

**Cache.**  `order` is a history variable, the sequence of linked elements as a
list should hold them; the pointers are checked against it.  `HashInsert` selects the two
statements that put a new element into `hash_table`.  **The committed source lacks them**
(line 1000 reads `// hash disabled`; `scratch/bench_suite.py` makes exactly this
replacement to build its linked-list variant): `HashInsert = FALSE` is the source as
committed, `HashInsert = TRUE` the cache its comments and README describe.  With
`FALSE` no lookup ever hits, so most of the lookup code cannot run; the passing
runs use `TRUE` so as to say something about all of the code; `ProxyUnanswered` and the theorems
`NothingServed` and `WaitersUnanswered` say what the committed source does.

**Proxy.**  One thread per client connection; a request text is a GET that is
served, one with a bad version, or one the parser rejects.  `handle_request` is
what `thread_fn` sees: it fails before it has sent anything (result -1), or it
passes on what arrives, offers what it has collected to the cache, and returns
0.  `answer` is the sequence of pieces a client was sent.  `Exchange` says how the
pieces sent and the pieces collected are related: nothing may have arrived (the
first `recv`, line 500, returns 0 or -1; the result is still 0, no error is sent,
line 704, and an empty response goes to the cache, line 546), and the last piece
sent, or a part of it, is not collected when `send` or `realloc` fails.  A cached empty
response sends nothing (lines 663-667).  Whose bytes a connection brings is not
asked here: a reused connection may deliver the end of another key's response
(lines 213, 243), which is the subject of `OriginPool`.  A thread registers at most
once, so thread names serve as the addresses of pending entries.  `fetched` is a
history variable: what fetches have collected under each key.

**Acceptor.**  `conn` says which client each descriptor is connected to.  The
kernel gives the lowest free number, but origin connections take numbers too, so
`accept` may return any that is free here; numbers are reused.
`accepts` and `overrun` are history variables: `overrun` records that
`MAX_CLIENTS` further clients were accepted while a thread had not yet read its
slot.

**OriginPool.**  A request is one call of `handle_request`; `remote[r]` is
`remoteSocketID`, `pool` and `count` are a bucket's list and its `count` field,
`conn[f]` is the connection open on descriptor `f`: its server, what has arrived,
what the origin still owes, whether the origin has closed.  A section under a
bucket's lock is one action; `is_connection_alive` runs outside it, so `Alive`
is read in one action and relied on in a later one (`ReturnAlive`, then
`ReturnToPool`; `Reuse`, then `SendRequest`).  `socket` gives the lowest free
descriptor.  The origin is a process of its own: it delivers what it owes piece
by piece and closes when it likes, with or without losing what is unread.
`abandoned` is a history variable: a connection was pooled with part of a
response unread or still to come.

**HeaderTable and HeaderMap.**  `headers` holds the slots in use, so
`headersused` is its length; `Found` is the first slot with a key, which is
where the walk of `ParsedHeader_get` stops.  `lost` says that `realloc` has failed:
`headers` is then NULL while `headersused` is not 0, and the next walk over the
headers ends the process.  `call` and `result` are the last call and what it returned, in both
modules, so the refinement relates results, not only states.

**RequestText and ParsedRequest.**  A text is a sequence of symbols: the
characters the parser looks for, one symbol each, and words it takes whole or by
their beginning (`"GET"`, `"HTTP/"`).  `Strtok` is `strtok_r`; `LineFields` runs the
calls of `ParsedRequest_parse` in their order, with the NULs that `strtok_r`
writes into the address (`memory`), because the code measures a length across
them.  When the address ends the line the version lies behind the buffer:
`BeyondBuffer` is what may be there.  A text may go on behind the end of its
headers, as the received buffer does that both servers pass (`Complete`): the
parser still looks for colons there, and for the end of a value in whatever follows
the colon (`AfterColon`; `BeyondBuffer` again when the colon is the last symbol).  Where
there is none `strstr` gives NULL, a length is computed from it, and the process
ends (`HasValue`, `ParseCrashes`).  After a failed `realloc` the parser goes on, as it
ignores what `ParsedHeader_set` returns (`proxy_parse.c:250`); the next header, or the next
call on the object, walks over a NULL array and ends the process (`ParseCrashes`,
`CallCrashes`).  A text shorter than 4 or longer than `MAX_REQ_LEN`, or without an end of
headers, is refused and leaves the object as it was (`ParseRefused`).  `allocated` counts the blocks of the
object.  `out` is the last text printed, with the request it was printed from; it
may be given to a new object.

**Baseline.**  `conn` says what each descriptor is open for.  `hostent` is the
static result of `gethostbyname`, written by `LookUp` and read by `Connect`;
`overlapped` is a history variable: two threads were between the two at once.
The run ends where the code's behaviour is undefined or the process exits or is
killed: no descriptor for `accept`, no slot, a failed send.

## 3. The runs

| run | instance | checks | states |
|---|---|---|---|
| `PendingSafe` | 4 threads (symmetric), keys a, b in one bucket, a long key stored as a | `TypeOK`, `SingleFlight`, `RefCountExact`, `NoDanglingEntry`, `NoLostWakeup` | 10 499 |
| `PendingLive` | 3 threads, a and b, fair | `WaitersHaveFetcher`, `EntriesReclaimed`, `EveryWaiterReleased` | 8 011 |
| `PendingTruncated` | 3 threads, a and the long key stored as a | `NoOrphanedWaiter` **violated** | - |
| `Cache` | 2 threads, 2 colliding keys, small and large responses, 3 addresses, `HashInsert`, fair | `TypeOK`, `ListWellFormed`, `NothingLeaked`, `SiteValid`, `TableMatchesList`, `SizeAccounted`, `CallsReturn`, `ImplementsLRUCache` | 38 412 |
| `ProxySafe` | 3 clients (symmetric); a GET, a longer one that begins with it (truncated to it as a pending key), a bad version, an unparsable text; responses of none, one and two pieces, two being too large to cache; `HashInsert` | `TypeOK`, `OneRequestAtOrigin`, `HitsBelong`, `UnansweredExplained`, `AnsweredOnce` | 284 149 |
| `ProxyLive` | the same clients and texts, responses of one piece, fair | `EveryClientClosed` | 116 572 |
| `ProxyUnanswered` | 2 clients, `HashInsert = FALSE` | `WaitersServed` **violated** | - |
| `Acceptor` | 4 connections, 2 slots and tokens, 3 descriptors, 3 threads, fair | `TypeOK`, `SemaphoreConserved`, `ServesOwnClient`, `ConnectionsClosed`, `EveryThreadEnds` | 10 036 |
| `AcceptorOverrun` | the same | `AlwaysServesOwnClient` **violated** | - |
| `OriginPool` | 2 requests, 2 hosts in one bucket, 2 ports, a pool of 1 connection, 2 descriptors, 2 pieces, fair | `TypeOK`, `FdOwnedOnce`, `CountExact`, `OwnServer`, `ResponseIsPrefix`, `RequestsReturn` | 141 012 |
| `ParsedRequest` | 480 addresses put together from good and bad parts, other malformed lines, up to 3 header lines of 6 kinds, up to 2 with one of 4 texts behind the headers; 2 keys to set and remove, an array of 2 slots, `MAX_REQ_LEN` = 36 | `TypeOK`, `MemoryOwned`, `PrintedReparses`, `ImplementsHeaderMap` | 41 660 |
| `Baseline` | 3 clients, 2 hosts, 5 descriptors, fair | `TypeOK`, `DescriptorsOwned`, `EveryThreadEnds` | 224 890 |

Why these bounds suffice for the cases that matter:

- `PendingSafe`: four threads are a fetcher, two waiters on its entry and a
  thread of another key in the same chain; or the fetcher of a long key beside
  three threads of its prefix.  Entries under a truncated key stay in the table
  (that is what the code does), so the four addresses can run out and the run does
  not check for deadlock.  `PendingLive` has short keys only, and does.
- `Cache`: sizes are chosen so that the limit fits three small elements or one
  large and one small; evictions of zero, one and two elements, a refused
  response and equal keys twice in a chain all occur.  Responses carry no
  identity beyond their size class.
- `ProxySafe`, `ProxyLive`: the third client arrives at any point of a fetch with a waiter; a
  long request, which is itself a good one, leaves its entry under the key of the short one.
  Both are checked with `Short` or `Shadowed` as provisos (below), not with an instance that
  leaves the case out.  `ProxyLive` has one response only, for what a
  response holds does not matter to whether a connection is closed.
- `Acceptor`: with two slots, four connections wrap the index twice and reuse
  descriptors; three threads let creation fail for the fourth.
- `OriginPool`: hosts share a bucket, so a search passes over a
  connection to another host or port, and a request finds the bucket full when it returns its
  own; a descriptor number is closed by one request and reused by the other.  Responses have two
  pieces, so that a time-out or a lost client can fall in the middle of one.  Longer lists and
  more requests are left to the theorems of section 5.
- `ParsedRequest`: every guard of the parser is met and missed.  Three header
  lines give a key set twice with another between, a line without a colon before
  one with, and values without a space; the array of two slots grows at once, and
  again while `MaxUsed`, the bound on `headersused` for later sets, is not reached.
  With `MAX_REQ_LEN` at 36 some texts are refused at once and some only after they have
  been parsed, printed and thereby grown.  What lies behind the headers has a colon with an
  end of a line after it, one without, one as the last symbol, or none.
- `Baseline`: five descriptors for three clients and their three origins run out
  in `accept` and in `socket`; a client's number is reused by an origin and the
  other way round.

Systems that stop because each client is served once (`ProxySafe`, `ProxyLive`, `Baseline`), each
request is made once (`OriginPool`), the bounded number of connections has been made
(`Acceptor`) or the process has crashed (`ParsedRequest`) disable the deadlock check; `Cache`
and `PendingLive` keep it.

Every property of a passing run has a mutant in `PROJECT.json`: a definition
changed as a plausible bug would change the code, which TLC must catch.

### What the violation runs show

1. `ProxyUnanswered`: nothing is ever inserted into `hash_table` (line 1000), so every lookup misses
   and responses are stored only to be evicted (`NothingServed`).  A client whose request coalesces with another's is woken,
   misses in the cache, cannot parse its cleared buffer (line 687), and is
   closed without an answer although a response was fetched.  (With `HashInsert = TRUE` the same
   happens when the response was too large to cache, was evicted meanwhile, or could
   not be allocated.)  The theorem `WaitersUnanswered` says the same of every execution of the
   committed source.
2. `AcceptorOverrun`: a thread that has not read its slot while the loop wraps
   around reads the descriptor of a later client.  In the run's trace it is past the
   semaphore and slow; a thread still waiting for the semaphore fares the same.  Two
   threads then serve and close that client's connection, and its own client's is left
   open.  Until `MAX_CLIENTS` connections have been accepted this cannot be
   (`FirstClientsServed`).
3. `PendingTruncated`: a request of more than 511 bytes files its entry under its first 511
   (line 85), and its `pending_complete`, which looks for the whole key, never finds it.  A
   later request whose text is just that prefix finds the entry, and waits while
   nobody fetches.  The other properties of `Pending` speak of short keys, or of entries
   and pointers, and hold; this is what is left of it.

### Provisos

`OneRequestAtOrigin` speaks of keys that fit a pending entry (`Short`), and
`EveryClientClosed` of clients whose key is not the first 511 bytes of another client's
(`Shadowed`): `PendingTruncated` shows what becomes of the others.

`HitsBelong` says that what the cache serves was fetched and stored under the client's key.
It does not say that an origin sent it in answer to that key: for that, `ResponseIsPrefix`
has the proviso that no connection went back to the pool with part of a response
still unread or still to come (`abandoned`); the code does that after a time-out or a lost client,
and the next request on the connection then reads the rest.

`PrintedReparses` has the second parse refused when, and only when, the printed text is longer than
`MAX_REQ_LEN` (65535), says nothing once `realloc` has failed, and excepts requests in which a
header line has no colon.  The
parser looks for the colon in all of the remaining text, so such a line becomes
part of the next header's key; that header is then not found under its own key,
cannot be removed, and comes to light when the printed text is parsed again.
The first character of a value is lost when no space follows the colon
(`proxy_parse.c:244`), although `proxy_parse.h:49` gives the format as
"key:value"; this changes the value once and the same value is printed and
parsed from then on, so the property holds.

`DescriptorsOwned` lets a thread of the server without cache be connected to another
client's host once two look-ups have overlapped: `gethostbyname` is not
thread-safe (line 221 of that file), and the run reaches such states.

## 4. Fairness

- Threads are scheduled: a step that needs nothing another thread holds is
  weakly fair.  Acquiring a mutex, the semaphore or the write side of `rwlock`
  competes with other threads and is strongly fair: pthreads promise no more
  than that a thread which keeps asking gets the lock eventually.
- `PendingLive` and `ProxyLive` assume that `handle_request` returns: that responses end,
  and that clients read what they are sent.  The receive time-out (line 440) is one for each
  silence, so an origin that falls silent or closes does not keep the thread; one that keeps sending
  does (the loop of lines 511-541 has no bound), and so does a client that does not read,
  since `send` (lines 516, 665) has no time limit.  That a request arrives is not assumed.
- `Acceptor` makes `Close` fair, which assumes that a client sends its request
  or goes away: `recv` from a client (line 591) has no timeout, and without the
  assumption `MAX_CLIENTS` silent clients block the server for ever.
- `Baseline` makes every step of a thread weakly fair (there are as many tokens as
  slots, so the semaphore is never contended), which assumes that a client sends
  its request or goes away and that an origin closes its connection: no receive in
  that server has a time limit.
- `ParsedRequest` needs no fairness: its properties are about safety.
- `OriginPool` makes the next step of every request weakly fair: the sections
  under bucket locks are bounded and every receive ends after one second.
  Origins may stay silent or close; that their responses end is the bound `Chunks`,
  that clients read is in the fairness of `Receive`, and that look-up and `connect` return in
  that of `Connect` and `ConnectFails`.
- `pthread_cond_wait` is never obliged to return spuriously, nor `malloc` to fail or succeed.

## 5. Proofs

Every theorem below holds for all values of the constants that satisfy the
assumptions of its module.  Each module's proof has the same form: an inductive
invariant `IInv`, one lemma per action saying that a step keeps it, `Inductive`
(`Spec => []IInv`), and one short theorem per property.  Every `IInv` was checked
with TLC on the instance of the module's run before it was proved.

**Assumptions.**  They are named in the module that declares the constants and
evaluated by TLC in its runs.  They say that `NULL` is not a datum, a descriptor
or a record (`NoConnection`, `NoElement` and the conjuncts about `NULL`), that counts
and limits are numbers and hash functions total.  Three say more:
- `PendingAssumption` (and `CoalescingAssumption`, its copy for `Proxy`): a truncated
  key is not truncated again, and there are finitely many threads.
- `CacheAssumption`: `MAX_ELEMENT_SIZE` is at most `MAX_SIZE`, as the two `#define`s
  are, so evicting makes room.
- `ParsedRequestAssumption`: the NUL that `strtok_r` writes (`"nul"`) is not a symbol of a
  text, as C strings have none.

### Pending

| theorem | statement |
|---|---|
| `Inductive` | `Spec => []IInv` |
| `TypeCorrect` | `Spec => []TypeOK` |
| `SingleFlightCorrect` | `Spec => []SingleFlight` |
| `RefCountCorrect` | `Spec => []RefCountExact` |
| `NoUseAfterFree` | `Spec => []NoDanglingEntry` |
| `NoLostWakeupCorrect` | `Spec => []NoLostWakeup` |
| `AlwaysServed` | `AllShort => (Spec => []Served)` |
| `FetcherAtWork` | `AllShort => (Spec => []WaitersHaveFetcher)` |
| `NothingLeftBehind` | `AllShort => (Spec => []EntriesReclaimed)` |

None of the properties is inductive alone.  `RefCountExact` needs
that an entry is in at most one chain and there at most once (`ChainsOK`),
otherwise unlinking it would not take away exactly one reference; that a
pointer held by a thread is to an allocated entry (`PointersOK`), and that an
entry a completer holds is no longer in the table (`CompleterOK`), so the
decrement in `pending_complete` gives up a reference that is counted.
`SingleFlight` needs `FetcherListed`: while a thread fetches a short key, an
entry with that key is listed, so `find_pending` of any other thread finds one;
and for that to survive another thread's `pending_complete`, that
the unlinked entry has the completer's key, hence by `SingleFlight` itself not
another fetcher's.  `EntriesHeld` (an allocated entry is pointed to) keeps a
freed address from being counted.  The lemmas are about
counting (`SharersCount...`: what taking and dropping a pointer do to the number
of sharers) and one `...Inductive` lemma per action.

The last three have the proviso of the run `PendingLive`: no key is longer than the
field it is copied to (`AllShort`).  With a longer key they are false, which the hazards
record.  They need a second invariant, `Served`: each key has at most one listed
entry (`OneEntryPerKey`); the fetcher of a listed entry is at work
(`ListedFetched`); an entry that is neither listed nor completed is in the hands of
the thread completing it (`UnlistedCompleted`); and a thread points to the entry
of its own key (`OwnEntry`).  So a waiter's entry is either listed, and being fetched,
or about to be completed; and once no thread is left, none is allocated.

### Cache

| theorem | statement |
|---|---|
| `Inductive`, `TypeCorrect` | `Spec => []IInv`, `Spec => []TypeOK` |
| `OneList` | `Spec => []ListWellFormed` |
| `NoElementLost` | `Spec => []NothingLeaked` |
| `LookupsSafe` | `Spec => []SiteValid` |
| `CounterExact` | `Spec => []SizeAccounted` |
| `TableExact` | `HashInsert => (Spec => []TableMatchesList)` |
| `Implements` | `HashInsert => (Spec => ImplementsLRUCache)` |
| `NothingServed` | `~HashInsert => (Spec => []NeverFound)` |

The first five hold of the committed source too; `TableExact` and `Implements` of the
cache with its insertion into the hash table; and `NothingServed` says what the source is without it:
every chain stays empty (`NeverFound`), so the cache stores and evicts, but no
lookup returns a response.  `IInv` adds to the properties that an element
being added is not larger than one may be (`Requested`: otherwise the
eviction loop would not end with room for it), and splits `TableMatchesList` into
what holds either way (`ChainsHold`: a chain holds allocated elements of its
bucket, each once) and what needs the insertion (`AllHashed`).  The pointer
proofs go through the sequence `order`: that an element is linked where the
sequence has it (`ListWellFormed`) says what the four assignments of unlinking and
of linking at the head do, at either end and in the middle.  `SizeAccounted` and
the bytes of `LRUCache` are sums over finite sets of elements; the lemmas say what adding and
taking away one element do to them.  For `Implements`, every action is a step of
`LRUCache` or a stutter under the mapping of `Cache`, in which an element that a
lookup has unlinked, and not yet linked again, is already at the end of the
list it is on its way to.

### Proxy

| theorem | statement |
|---|---|
| `Inductive`, `TypeCorrect` | `Spec => []IInv`, `Spec => []TypeOK` |
| `OneFetchPerKey` | `Spec => []OneRequestAtOrigin` |
| `HitsUnderOwnKey` | `Spec => []HitsBelong` |
| `NoSecondAnswer` | `Spec => AnsweredOnce` (an action property) |
| `ImplementsPending` | `Spec => P!Spec` |
| `ImplementsCache` | `HashInsert => (Spec => C!Spec)` |
| `CoalescingSafe` | `Spec => [](P!NoDanglingEntry /\ P!RefCountExact /\ P!NoLostWakeup)` |
| `NoOtherSilence` | `Spec => []UnansweredExplained` |
| `WaitersUnanswered` | `~HashInsert => (Spec => []OnlyFetchersAnswered)` |

The composition: `thread_fn` calls the coalescing and the cache code in an order
their modules allow, so what is proved of them holds in it.  `PendingProofs` is
instantiated with the variables of `Proxy` (a thread's address serves as that of
its entry), so `CoalescingSafe` and `OneFetchPerKey` are not proved again but
follow from its lemmas.  `IInv` has `P!IInv` and, for each thread, its `Whereabouts`:
where it is in `Pending` at each point of `thread_fn`, and under which key
(`InCoalescing`); that it has a key past the receive loop (`HasKey`); that it has no answer
before it gets one (`Unanswered`, which gives `NoSecondAnswer`); and that what it has
found in the cache belongs to its own key (`FoundOwn`).  With `CacheGenuine` (the cache holds only
what was fetched under the element's key) this gives `HitsBelong`.  It is a theorem about the
cache: what a fetch brings is `OriginPool`'s subject, and its proviso is there.

The last two say why a client gets nothing.  `Story`, kept beside `IInv`, follows each
thread (`Accountable`): its buffer is cleared, or holds its own text; it has no result before it
has been to the origin; it looks into the cache with a cleared buffer only if some thread has
been to the origin for its key (`BeenThere`); and when it is done with a good request and has sent nothing, one of the
three reasons of `UnansweredExplained` applies.  That `BeenThere` holds when a wait ends needs the history
of the entry: a waiter's entry bears its own key (`OwnEntry`), and a completed entry was
completed by a thread that has been to the origin for that key (`CompletedVisited`).  A result of -1
is never a reason: the error is sent (line 704).  A result of 0 is one, when nothing was received
or nothing could be sent.  So a client that waited for another thread's fetch depends on the cache, and
where lookups never find anything (`NothingCached`) it is sent nothing
(`OnlyFetchersAnswered`, in this direction only: a thread that fetched may have sent nothing either):
the disagreement of `ProxyUnanswered`, for any number of clients and every key.

### OriginPool

| theorem | statement |
|---|---|
| `Inductive`, `TypeCorrect` | `Spec => []IInv`, `Spec => []TypeOK` |
| `EveryFdOwnedOnce` | `Spec => []FdOwnedOnce` |
| `CountsExact` | `Spec => []CountExact` |
| `TalksToOwnServer` | `Spec => []OwnServer` |
| `PassesOnItsResponse` | `Spec => []ResponseIsPrefix` |

`FdOwnedOnce` counts owners; the invariant says the same without counting: no two
places (a request or a position of a pool list) hold one descriptor
(`NoneShared`), a held descriptor is open (`NoneStale`), an open one is held
(`NoneLeaked`).  `CountExact` and `OwnServer` complete `Owned`.
`ResponseIsPrefix` has the proviso that no request has given up before its
response ended (`abandoned`); it needs `Pieces`: a pooled connection has
nothing left to deliver, and the connection of a request that is receiving
holds just the pieces that follow those it has.  Giving up
puts a connection into the pool with pieces of the old response behind it,
which is why the proviso is there.

### Acceptor

For any number of connections, descriptors and threads and any `MAX_CLIENTS` of
at least one:

| theorem | statement |
|---|---|
| `Inductive` | `Spec => []IInv` |
| `TypeCorrect` | `Spec => []TypeOK` |
| `SemaphoreCorrect` | `Spec => []SemaphoreConserved` |
| `ServesOwnClientCorrect` | `Spec => []ServesOwnClient` |
| `ConnectionsClosedCorrect` | `Spec => []ConnectionsClosed` |
| `FirstClientsServed` | `Connections <= MAX_CLIENTS => (Spec => []AlwaysServesOwnClient)` |

`ServesOwnClient` and `ConnectionsClosed` carry the proviso that
no overrun has happened.  They rest on `SlotStillOwn`: a thread that has not read
its slot, and whose client is the k-th last accepted, was given the slot k
places behind `i` (`Behind`), k is from 1 to `MAX_CLIENTS`, and its client's
descriptor is still in that slot.  `Accept` overwrites the slot `MAX_CLIENTS`
places behind, and `overrun` stays FALSE only if that one has been read.
`OneDescriptor` and `ServesADescriptor` say that `Close` takes away the thread's
own connection and no other; `NotYetAccepted`, that the client of an `Accept` is
new.  `SemaphoreConserved` is counted with the library's theorems about
cardinality.  `ThreadKeeps` states once what the steps of a thread have in common.
`FirstClientsServed` discharges the proviso: an overrun needs more than `MAX_CLIENTS`
connections, so the first ones are always served by their own threads, which is
where the property that `AcceptorOverrun` refutes does hold.

### Server without cache

| theorem | statement |
|---|---|
| `Inductive` | `Spec => []IInv` |
| `SemaphoreConserved` | `Spec => []TypeOK`, which has the count of the semaphore in it |
| `DescriptorsNotMixedUp` | `Spec => []DescriptorsOwned` |

The invariant follows a descriptor on its way: the slots behind `i` are used, the others
not (`SlotsUsedOnce`); a slot holds its client's descriptor until that is closed
(`SlotHoldsOwn`); the thread has read it before it serves (`SlotRead`), and has a
descriptor to an origin from its call to `socket` on (`OriginSocket`); and between look-up and
connection the static result is the thread's own unless look-ups have
overlapped (`LookedUp`).

### Request parser

| theorem | statement |
|---|---|
| `TableCorrect` | `TableSpec => []TableOK` |
| `TableImplementsMap` | `TableSpec => ImplementsHeaderMap` |
| `Inductive`, `TypeCorrect` | `Spec => []IInv`, `Spec => []TypeOK` |
| `NothingLeaked` | `Spec => []MemoryOwned` |
| `PrintingFillsBuffer` | `Spec => []PrintedWhole` |
| `RequestImplementsMap` | `Spec => ImplementsHeaderMap` |
| `PrintedIsReparsed` | `CleanStrings => (Spec => []PrintedReparses)` |

The first two are about the table under any sequence of calls, for any initial
size; the others about the life of a whole object.  `TableOK` is inductive: no key
is live twice, since a set removes
the key before it appends; and the array doubles before it is full, for which it
must have a slot to begin with.  That no key is live twice makes the slot
`ParsedHeader_get` finds the only one with the key (`MapOfLive`), so clearing it
takes the key from the map (`MapAfterClear`) and appending one gives it the new
value (`MapAfterSet`), whatever holes there are.  Each call then maps to its action of
`HeaderMap`; a set whose `realloc` fails maps to one that loses the old value.

`IInv` of `ParsedRequest` needs that what is left to parse holds an end of the headers or begins with it
(`TextLeft`), so that there is a line end behind the line being read (`FirstLineEnd`), and the key and
the value copied are the text up to the colon and up to a line end (`ColonSplits`, `HeaderStrings`).
Nothing is assumed of what follows the headers, and a set
whose `realloc` fails is a step like any other; the invariant then says only that the array is
out of reach (`lost`), up to the walk that ends the process.  `PrintedWhole` says that the text printed fills the buffer
exactly: its length is that of `ParsedRequest_totalLen` and it ends with the
end of the headers.  Text and length are folds over the slots; induction over
data being out of the prover's reach, the lemmas go by least counterexample: the
shortest sequence of slots whose folds differ, and the one before it.

`PrintedIsReparsed` needs two more arguments.  First, what a parsed object holds is
good enough to be read again (`HeldGood`): the fields of an accepted line
(`GoodRequest`, from `GoodFields`, which follows the calls of `strtok_r`, including the
address it has cut) have none of the symbols that end them, a key has no colon, and
a value ends no line; then parsing a printed line gives back its fields
(`LineReparses`) and parsing a printed header its key and value (`HeaderReread`).  Second, an object that
is being parsed from a text printed earlier is at a place in it (`ReadingAgain`):
what is left to read (`LeftOf`) is the print-out of the headers not yet read, and those read are
in the table, in order.  The text is never taken apart by induction: `PrintedTails`
says that printing a sequence of headers is printing its head before its tail.  A printed text ends with the end of its headers whatever followed those of the text first
parsed, so every colon in it has a value (`EndsHasValue`) and parsing it does not crash; it is refused only for
being longer than `MAX_REQ_LEN`, and then always.  A line without a colon puts a line end into the next header's key; the printed
text is then still read to its end and accepted, but into other headers, the
exception of section 3.  `CleanStrings` asks of the strings that
callers set (no colon in a key, no line end in a value), and of what lies behind a request line
(`BeyondBuffer`), what parsed strings fulfil by themselves.  The code does not check them: a
value with a line end in it is printed as two headers.  It is a hypothesis of the theorem, and so is, in `PrintedReparses` itself, that `realloc` has not failed
since.  The callers in both servers set
`Connection` to a constant and `Host` to the host that was parsed
(`proxy_server_with_cache.c:462-468`), which are clean.

### What only TLC checks

- Liveness: `EveryWaiterReleased`, `CallsReturn`, `EveryClientClosed`, `RequestsReturn` and
  `EveryThreadEnds` need fairness, hence ENABLED, which this prover does not handle.
- The refutations of the violation runs, each on its instance: `ProxyUnanswered`,
  `AcceptorOverrun` and `PendingTruncated` find one execution, which a proof of the form
  `Spec => []Inv` cannot; what holds on the other side of them is proved
  (`NothingServed`, `WaitersUnanswered`, `FirstClientsServed`).

Every invariant and every action property of a passing run is a theorem.

## 6. Not modelled

- `find()` and `remove_cache_element()`, which nothing calls; `cleanup_connection_pool`, likewise.
- `malloc` failing in `create_pending_entry`, which the code does not test: the
  next line would write through NULL.
- Origins that never stop sending and clients that never read (section 4).
- SIGPIPE, which nothing ignores: `Proxy` and `OriginPool` take the result -1 of
  `send` and the code's error path.
- Host names cut to 255 characters in pool entries: such names do not resolve.
- Byte counts of requests and responses, hence the 4096-byte request limit and
  the growth of `temp_buffer`, whose size doubles in an `int` (line 528).
- The order of the three `malloc`s in `add_cache_element` (970-992) and of the eleven error exits
  of `ParsedRequest_parse` (393-513): each group is one action with one effect, so a
  single exit that frees too much or too little would not be seen.  Likewise the closes inside
  `connectRemoteServer` (422, 431).
- The contents of uninitialised memory: `handle_request` of the caching server
  sends `strlen(buf)` bytes (line 489) of a buffer from `malloc` whose text is not
  terminated (`proxy_parse.h:84`).
- The text of error messages (only the 500 is ever sent), logging, and the start-up
  of the listening socket.
- In the parser: calls of `ParsedHeader_set` before parsing, and failures of `malloc`, which it does
  not test.  Its test
  for a bad port (`proxy_parse.c:505`) needs `errno == EINVAL`, which `strtol` does
  not set for a port without digits on this platform, so no port is rejected.
- In the server without cache: `find` on its list, which is always empty,
  `add_cache_element` and `remove_cache_element`, which nothing calls with effect (the only
  call is commented out, line 415), and the memory of `tempReq`, which is freed on
  success only.
- The benchmark scripts.

## 7. Plan

Done: every module of the table in section 2, the runs of section 3, and the
theorems of section 5: every safety property of a passing run is proved.

What could be added, none of it needed by the rest:

1. The conditions under which a waiter *is* answered (`HashInsert`, a response that
   fits and is not evicted before the waiter's lookup), as a property of `Proxy`.
2. The byte counts left out in section 6: the 4096-byte request and the growth
   of `temp_buffer`, as a module of sizes alone.
3. Liveness stays with TLC until the prover handles ENABLED.
