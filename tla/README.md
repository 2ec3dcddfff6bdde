# A verification project for EncKV

EncKV (`src/`) is an encrypted key-value store. A client library encrypts
records, chooses a data node for each, and writes the record and up to four kinds
of encrypted index entries to that node's proxy; the proxy keeps everything in a
Redis server. Queries are sent to every proxy, which walks an index stream and
returns the records it leads to. This directory holds TLA+ modules translated
from that code, TLC configurations, and proofs checked by TLAPS.

## 1. The system

| part | source | state | operations |
|---|---|---|---|
| client library | `Client/ClientCpp.*` | four maps of counters per node, PRF keys, the router | Init, InitKey, Open, Close, Put, Get, GetCol, Search, RangeQuery, and the plaintext variants |
| request router | `Client/SimConHash.h` | ring of nodes with the upper bound of each | InsertNode, Query, GetArray, GetNodeNum |
| proxy | `Proxy/TProxy.cpp` | none of its own but a pool of Redis connections; locals of one handler per thread | ProxyGet, ProxyPut, ProxyGetColumn, EqualSearch1/2, OrderSearch, RunCommand and the plaintext searches |
| cluster proxy | `Proxy/TProxyCluster.cpp` | pool of cluster connections, a map of redirected pools shared by the threads | ProxyGet, ProxyPut, ProxyGetColumn; the searches answer with an empty list |
| Redis access | `Caravel/RedisHelper.*` | connections and pools | PoolGet, PoolPut, PoolRun, ClusterPoolGet, ClusterPoolPut, Get, Put |
| order-revealing encryption | `fastore/` | parameters and key; one ciphertext buffer per helper | CreateLeft, CreateRight, CompareORE over `ore_*` |
| RPC stubs | `Client/`, `Proxy/TProxyService.*`, `Caravel/ThriftAdapt.h` | one connection per client and proxy, opened once; generated by Thrift | send, recv, process for each of ten methods |
| shared-memory tables | `Caravel/BukHash.h`, `ConHash.h`, `ShmCtl.cpp` | levels of slots with prime widths; one block under a version counter | Set, Get, Del, iteration; SafeSet, SafeGet |
| primitives | `Caravel/AES, PRF, Digest, BitConvert, RSABlindSign` | none | wrappers of OpenSSL, conversions |
| drivers | `Client/Test_*`, `Test/` | none | insertion, latency and throughput experiments |

How they interact: the client calls the proxies synchronously, one RPC at a time
(a `ClientCpp` has one thread). A proxy serves every client connection in a
thread of its own (`TThreadedServer`), so the handlers of different clients
interleave at their Redis commands; Redis executes each command atomically.
Nothing is replicated and a record lives with all its index entries on one node.
The counters live *only* in the memory of the client that inserts.

Index kinds (`Kinds` in the model). A **stream** is the sequence of labels one
counter names: one per column for the column index (`"col"`), Strategy I
(`"v1"`) and the order index (`"ore"`); one per column and value for Strategy II
(`"v2"`). A label is a PRF of the stream's key and the counter. A query walks
a stream from counter 0 to the first label that has no entry (GetCol instead
tries a fixed number of labels and skips the missing ones).

Redis can also refuse a command, with an error reply (OOM, MISCONF, LOADING, in a cluster
ASK, TRYAGAIN, CLUSTERDOWN). To redis3m that is a reply like others, only a broken transport throws;
and `RedisHelper` passes it on: it reads no reply to a SET (`RedisHelper.cpp:88`, `:119`),
takes the text of an error for the value of a GET (`:44`, `:108`), and makes an empty list of
it where a list is expected (`:127-166`).

What is hard, and what correctness means, by component:

- *client Put*: several remote calls, any of which may throw or be refused unnoticed, and a
  counter that is advanced before its call. Correct: counters and stored entries agree, no
  entry is overwritten, and data is never visible before its entries.
- *queries*: a walk over entries that other clients are adding, and a second GET for
  the data of each. Correct: complete for what was acknowledged before the query
  began, sound, without duplicates, bounded, and terminating.
- *router*: each word goes to exactly one node, Put and Get go to the same one.
- *order-revealing encryption*: the result of a comparison is that of the plain
  values, for the requested side only and only with the right column and row.
- *RPC stubs*: a call runs its handler at most once and on its own arguments; a call
  that returns has its own answer, though no sequence number is compared; every call ends.
- *plaintext baseline*: a query finds what was stored before and counts nothing else,
  and the sorted set is never behind the keys.
- *cluster access*: a MOVED reply is followed; what is answered is a value of the key.
- *shared-memory tables*: a reader never sees half of an update; a block is written once;
  a stored key is found, and met by a walk.

The hazards, each at its line, with the properties aimed at them, are in
`PROJECT.json`.

## 2. Modules

| module | contents |
|---|---|
| `SimConHash` | the router: `Interval`, `Condition`, `Query` |
| `EncKV` | client, proxies and Redis servers of the encrypted store; composes the router; implements `EncStore` |
| `EncStore` | abstract: the table of records `EncKV` is to its callers |
| `PlainKV` | the plaintext baseline on the same proxies; composes the router |
| `RemoteCall` | abstract: what the code above the stubs may assume of a call |
| `ThriftStructs`, `ThriftCall` | the structs on the wire as both copies of the generated code have them; client stub, connection and processor; implements `RemoteCall` |
| `RedisCluster` | the proxy for a Redis cluster |
| `FeistelPrp` | the small-domain permutation under the order-revealing schemes |
| `OreBlocks` | blocks, prefixes, permutations and slot keys, common to the two schemes |
| `OreBlk` | the scheme the range queries use |
| `OreOld` | the older scheme of `Test/test_ore_blk.cpp` |
| `ConHash`, `BukHash` | the two shared-memory tables |
| `MCEncKV`, `MCPlainKV`, `MCThriftCall`, `MCRedisCluster`, `MCOreBlk`, `MCSharedTables` | instances for TLC |
| `SimConHashProofs` | `Query` picks exactly one node for every word |
| `EncKVProofs` | part I: types, placement of entries, the counter invariant, no overwriting; part II: no data before its entries, complete queries; part III: what is acknowledged stays, answers are bounded, sound and counted once, Get finds the last Put; part IV: `EncKV` implements `EncStore` |
| `PlainKVProofs` | the sorted set is never behind the keys; queries are complete and count exactly |
| `OreBlkProofs` | the permutation and its inverse cancel; both schemes compare correctly, for every size and every round keys |
| `ThriftCallProofs` | calls stay in step, and the stubs implement `RemoteCall` |
| `ConHashProofs` | the semaphore is a mutex; nobody reads half a block; one SafeSet wins |
| `BukHashProofs` | keys are well placed and counted; lookups answer right, walks miss nothing |
| `RedisClusterProofs` | what redirected GETs answer, columns are complete, what is put stays |

### SimConHash

`Query` is the least node whose bound exceeds the word, or the last node; the
bounds are those `ClientCpp::Init` computes. `WordMax` stands for `(uint32_t)-1`.

### EncKV

| model | code |
|---|---|
| `ctr[p][<<n, s>>]` | `m_map{Column,EqualV1,EqualV2,Order}Counter[n][s]` of client `p` |
| `index[<<n, s, i>>]` | the entry in the Redis of node `n` under the PRF label of stream `s` and counter `i` |
| `data[<<n, td>>]` | the ciphertext in the Redis of node `n` under trapdoor `td` |
| `put[p]` | the locals of a running `ClientCpp::Put`, `todo` the indexes not yet written |
| `qry[p]` | a running Search, RangeQuery or GetCol: the client's loop over the nodes (`node`, `all`) and the handler's loop over the labels (`ctr`, `hit`, `ret`) |
| `got[p]` | the answer of a Get, until the call returns |
| `lateIndex`, `lateData` | SETs whose caller already got an exception but which a proxy thread may still execute |
| `refusals` | the number of error replies so far |
| `issued`, `acked`, `refusedIndex`, `refusedData` | history, read by properties only: Puts sent, Puts acknowledged, SETs refused |

Put is `PutBegin`, one `PutIndex` per requested index in the order of the code (column, Strategy I,
Strategy II, order), then `PutData`; each may throw instead, with the SET executed, or delayed and
executed later or never. An exception leaves Put with the counter advanced. Or Redis refuses the SET
(`PutIndexRefused`, `PutDataRefused`): nobody reads the reply, so that the Put goes on, or is
acknowledged, as if it were stored. A query is `Search`, `RangeQuery` or `GetCol`, then one
`SearchLoop` or `ColumnLoop` per turn of the handler's loop, `FetchData` for the data of a matching
entry (a separate Redis command, so other clients run in between), `NodeReply` when a proxy is done,
`QueryReturn`. `QueryThrows` ends it with an exception. A GET that is refused gives the text of the
error: for Get that is the answer (`GetRefused`), as the data of an entry it becomes a row
(`FetchRefused`), and in place of an entry it is a label that matches nothing, even behind the end
of the stream (`ScanRefused`); ProxyGetColumn reads a trapdoor from it, which leads to nothing
unless that GET is refused too, and `CompareORE` asserts on the length of the text, so that the
proxy may die of it. `Restart` replaces a client process by a new one. A step is as large as the
code between two Redis commands: nothing else is shared. That a remote call may be a step, or a step
that throws with its SET executed now, later or never, is what `ThriftCall` shows of the stubs
below.

Abstracted: labels are what they are derived from (PRFs do not collide), entries
are what they hide, ciphertexts are their plaintexts. `ProxyGetColumn` compares before
it xors (`TProxy.cpp:137`: `==` binds tighter than `^`), so its stop flag accepts
every entry that is not a 2^-32 coincidence; the model accepts every entry, and the
handler's `return` on a wrong flag is unreachable in it. `OreMatch` is what module
`OreBlk` establishes of `CompareORE`.

`EncStore` is what is left of this for a caller as long as no call throws and no command is refused:
a set `indexed` of what records are found by, a `table` of the last Put of each record, and for each
reader the query it is in, its answer, and the answer of its Get. A Put indexes and then stores its
record, which happens for everybody at once; a query is one step that asks (`Ask`) and one that
answers (`Answer`), with at least what was due when it began and only with what is indexed under
what it wants. `ImplementsEncStore` maps `indexed` to the kinds, records and tags of the entries in
all stores (`FoundIn`), `table` and `sent` to the histories `acked` and `issued`, and a query to its
question without the state of the walk (`Question`), answered when it has passed the last node.

### PlainKV

`data[<<n, k>>]` is the number under key `k` in node `n`'s Redis, `index` the score of `k` in its
sorted set "index". `PutPlainText` becomes the sequence of commands (`Commands`) its flags ask for,
sent one by one (`Send`, or `SendThrows`, which leaves the command in `late` to be executed or not,
or `SendRefused`, which loses it without a sign). The number is `*(int*)pVal` (`Signed`, with `Bits`
for the width of an int), while a range's bound is sent unsigned and `std::stoi` refuses it above
INT_MAX. A query asks the nodes in any order (`Ask`); the proxy lists keys by SCAN (`Scan`: any
batch, keys perhaps twice, the cursor 0 only when all that were there at the start have come),
ZRANGEBYSCORE or KEYS (`ListAll`) and reads each listed key by itself (`GetKey`), while others
write. An error reply to any of the three lists is an empty list, which ends the listing
(`ListRefused`); to the GET of a listed key it is a text that is no number (`GetKeyRefused`): a
search passes it over, a range query tests, and counts, the number it read last once more (`held`,
`StillHeld`: sscanf leaves `val` as it was), or whatever the uninitialized `val` holds.

### ThriftStructs, ThriftCall, RemoteCall

A message is a record of type, method and fields; `id` in it is history that no action
reads. For each method `M`, `M_pargs` and `M_presult` are the schemas of the client's copy of
the generated code, `M_args` and `M_result` those of the proxy's, and `send_M`, `recv_M`,
`process_M` the functions. `req`, `rep` and `link` are the connection, `srv` the thread of
`TThreadedServer` that serves it; `Break` loses what is on its way or not, `Crash` ends
the proxy. A broken connection is never opened again (`ThriftAdapt` opens once), but calls on
it can be made, and throw. The handlers answer anything or throw: `EncKV` and `PlainKV` model
what they do. `RemoteCall` is the abstract specification; its `todo` is the request
whose handler has still to run, also after its caller gave up.

### RedisCluster

A thread per connection (`th`) serves the methods by `ClusterPoolGet` and
`ClusterPoolPut`, one action per Redis command (`FirstGet`, `SecondGet`) and per access to
the map of pools (`FindPool`, `InsertPool`). The map has no lock: `MapRace` is the
undefined behaviour of an insertion beside another access, as the death of the process, beside
the outcome that it goes well. The cluster is external: each key's slot has one owner, which
`Move` changes. A SET for a slot of another node is dropped, as in the code, which does
not read the answer. Any other error (`Error`: ASK, TRYAGAIN, CLUSTERDOWN, LOADING, OOM) is, to a
GET, the value that is returned (`GetRefused`), and to a SET nothing (`SetRefused`). A call that
throws, or a process that dies, leaves the SET it was sending in `late`, to be executed or not
(`LateSet`). What is stored (`Stored`) never reads like a MOVED reply.

### FeistelPrp, OreBlocks, OreBlk, OreOld

`feistel_round` maps halves (l, r) to (r, l xor f(r)); `prp_eval` makes three of them and
`prp_inv_eval` three with the keys backwards between two exchanges. AES under a round key,
cut to half a block, is any function of halves (`Keys3`), so the way `_prp_key_expand`
derives the three keys does not matter.

A query ciphertext of `OreBlk` (`LeftBlock`) has, per block, the slot `Pi` gives the
block under a permutation that depends on the blocks before it, the key of that slot,
and a comparison code for the side asked for. An index ciphertext (`RightBlock`) has, per
block and slot, a code masked by the key of the slot. `NextBlock`, `Decide` and `AllEqual` are
the turns and ends of the loop of `ore_compare`. Ideal PRFs: a mask is removed by the one key that
made it, any other key gives something that matches nothing.

`OreOld` has both halves in one ciphertext (`ore_blk_encrypt_ui`), a list of codes to
look for (`ore_blk_query`) and `ore_blk_compare`, which returns the number of the first
block that opens one. `Tag` keeps the bits of slot and relation as the code packs them.
Its `block_mask` has 32 bits (`ore_blk.cpp:449`, `:497`; `ore_setup_helper` has 64):
`CutBlock` is what it leaves of a block, all of it if the blocks of a message
together fit `maskEnd`, else the low bits, the same number of every block. A mask
whose last shift is by 32 or more is undefined (`MaskAssumption`). The comparison
returns a block's number or 0: that is what `DecidingBlock` states and the test
relies on, not the 1, -1 or 0 that `ore_blk.h:142-145` says.

`CompareORE` copies the two ciphertexts it is passed into the helper's buffers, those
made by the helper itself or others (`PassedQueries`, `PassedEntries`).

### ConHash, BukHash

`ConHash` goes word by word: `SafeSet` is `Lock`, `Compare` for each word of memcmp,
`CountOdd`, `WriteWord` for each word, `CountEven`, `Unlock`; `SafeGet` is `ReadVersion`,
`Compare`, `CopyWord`, `Recheck`, and the form that leaves copy and check to its caller
(`SafeGetV1`) does as its comment tells the caller to. The data race of the code is thereby a
choice of interleavings, in program order, of accesses to single words. A process may die at any
point (`Crash`) and leaves semaphore and counters as they are.

`BukHash` has one action per probed level (`Find`, `Claim`, `Miss`), one for the copy of the
value, which follows the key, and one per slot a walk looks at (`Look`). One process writes; it
may end anywhere and attach again, with its count at 0. `InitPrime` gives the widths,
with `bPrime` as it is: the squares of primes pass. Widths stay pairwise coprime as long as
they are below 121, which no property needs.

## 3. Runs

| run | question | bounds |
|---|---|---|
| `EncKVSearch` | do queries of all kinds find all that was acknowledged, nothing else, nothing twice, while one client inserts; what do they and Get answer when records are Put again, and is all of that the table of records `EncStore` | 2 nodes, 3 records (2 on one node), 2 values, 3 labels per stream |
| `EncKVFail` | what do failing calls, late SETs and SETs that Redis refuses leave of counters, entries and data | 2 faults of either sort, 2 records on one node, one of them Put again and again, counters up to 2 |
| `EncKVLive` | does every query end, and do all entries lead to records of their own node, when calls throw, GETs are refused and a second insertion process starts its counters at 0 | all kinds of queries, 2 faults: 1 failure and 1 restart, or 2 refused GETs |
| `EncKVGet` | *violated*: Get finds what Put stored | routes of the two word choices differ |
| `EncKVGap` | *violated*: Search stays complete after one failed Put | 1 failure |
| `EncKVRestart` | *violated*: Search stays complete when a second process inserts | 1 restart |
| `PlainKV` | do the plaintext queries find what is stored and count nothing else | 2 writers, 1 reader, 2 nodes, 3 keys, 2 Puts, 1 call that throws or command that is refused, 3-bit ints on both sides of INT_MAX, scans of 2 commands |
| `ThriftCalls` | do requests and replies stay in step, do both copies of the code agree, do the stubs implement `RemoteCall`, do calls end | any method with any of 2 values per parameter, then 2 more calls; the connection breaks, the proxy crashes |
| `RedisCluster` | what does the redirection answer, and what stays stored | 2 threads, 3 nodes, 2 rows, 1 moved slot, 1 failure, refused command or race, 2 ProxyPuts, also of one key |
| `OreBlkCompare` | does `ore_compare` return 1 exactly when the relation asked for holds, and only for the right column and row; does the older scheme name the block that decides | 2 blocks of 2 bits, 2 columns, 2 rows, round keys that differ by round, block and prefix |
| `OreOldAim` | *violated*: the older scheme finds only the relation asked for | as above |
| `SharedTables` | is a block read whole and written once, do operations end; are keys found, counted and met by a walk | `ConHash`: 2 processes, 2 words, 2 operations each, 1 crash; `BukHash`: 1 and 2 levels of widths 11 and 9, 3 keys that collide, 2 operations each |

`MCOreBlk` and `MCSharedTables` each hold two components that share nothing: a variable
`which` chooses at the start whose behaviour it is, so one run explores both.

Bounds and why they suffice. `MaxCtr` bounds every counter and, with the number of records, the
length of a stream: two entries in a stream already give a first, a last, a hole between, and an
append behind a walk. Two nodes give a first and a last node; two records on one node share streams,
the third tests that nodes are collected. `MaxFail`, `MaxRefuse` and `MaxRestart` count events, so
that the state space is finite; two faults allow a late SET to meet an entry written after it, a
hole of a throw one of a refused SET, and a refused GET of a label the refused GET of what it is
taken to lead to. `TwoFaults` bounds their sum. `HasRoom` is a bound of the model, never a guard of
the code, and a Put without index keeps the instance free of deadlock where the counters are
exhausted. Values are numbers, since range queries compare them.

`EncKVSearch` restricts the behaviours to two sorts (`TwoSorts` in `MCEncKV`), as all of them
together are too many: either no record is Put again and every kind of query is made, or two
records, one per node, are Put under Strategy I as often as the counters allow and queried by
Strategy I, for one of the two values, and Get. The properties are the same for both. Nothing throws
and nothing is refused there: what of its properties holds beyond that is proved (section 5). In
`EncKVLive` only GETs are refused (`OnlyGetsRefused`), and not beside throws and restarts
(`OneSortOfFault`); the hole a refused SET leaves is to a walk the same as that of a throw. Its one
value makes the two directions of a range the same, and its second process inserts one record
(`OneDirection`, `SecondPutsOne`). In `EncKVFail` one of the two records is Put only once
(`OnePutOfThree`). A record is Put into the Strategy I index alone, into it with the ORE index, or
into the Strategy II index with the column list; in `EncKVFail` it goes into both strategies' or
none, in `EncKVLive` into all four.

`OreBlkCompare`: blocks of 2 bits are the smallest the Feistel network accepts; two blocks have a
first, deciding or not, and a last. `BukHash`: 9 and 108 share their slot on both levels, 20 shares
the first with them, so with three keys a level is passed over and the table is full for one.
`ConHash`: one datum begins with a zero word (a block that looks empty at first) and one is all
zeros (a block that stays empty though its counter moves). `VersionAssumption` keeps the 8-bit
counter from coming around within one read. `RedisCluster`: three nodes, so that a redirected slot
can move to a third, and two rows, at first one on the proxy's node and one elsewhere; the first row
may be missing on the proxy's node. Of the two ProxyPuts, each may write that row or only give its
trapdoor another value, so that one follows, meets or comes late after another of the same key.
Clients ask ProxyGet for that trapdoor (`Asked`). The slot of `junk`, where nothing is, does not
move, a column is served beside any other call but a column, and a search, which has no steps,
beside an idle thread (`MCStep`). `PlainKV`: two writers can meet on one key, and a late command
comes after either; two keys of digits lie on one node, so that a range query has a number when the
GET of the next is refused, and the third only begins with a digit; what differs only by which of
two alike keys or values it is about is there once (`SearchOne`, `PutOne`); of the stored values 2
and -2 one is on either side of the bound 1, and with the bound 6, which is no int of three bits,
the call fails.

Completeness is claimed for the records whose Put had returned when the query began (`must`), in a
world where no call throws and no command is refused (`EncKVSearch`): with failures it does not
hold, as `EncKVGap` shows, and a refused SET leaves the same hole. For GetCol it is claimed for the
streams that are no longer than the number of labels each proxy was asked to try. After a record is
Put again, the entries of its old values still lead to it: `SearchSound` then claims the query's
relation only for records indexed under one value, `HitsAreIndexed` says what holds for the others,
and `NoDoubleCount` allows a hit per entry.

Fairness. `FairSpec` of `EncKV` asks weak fairness of `ScanStep` for each reader: a client
inside a call keeps running and the proxy thread of its connection is scheduled by the
operating system. No fairness is asked of writers, failures or late SETs. That queries
terminate although streams grow rests on counters being finite (a walk ends at the first
missing label), which the bound `MaxCtr` stands for, and on every turn advancing the counter.
`ThriftCall` asks weak fairness of receiving, dispatching and processing for each connection:
the threads run, handlers end (that is `QueryTerminates`), and the end of a
connection is noticed; a peer that is silent behind an open connection is outside of it, and there the
code, which sets no timeout, waits. `ConHash` asks weak fairness of a process inside an operation and
strong fairness of `Lock`: the semaphore is given to one that waits for it. `OperationsEnd` claims
nothing after a crash, since a process that dies with the semaphore stops the others.

Deadlock is checked in the runs of `EncKV`, `PlainKV` and the two schemes. The other
instances stop when their bounds on operations are used up.

The refinements. `EncKV!ImplementsEncStore` is `EncStore!Spec` under the mapping of section 2; what
it takes to hold is that no call throws, no command is refused, one writer that never restarts, and
routes that agree: the instance of `EncKVSearch`. `NodeCall`, a step of the abstract specification
that changes nothing, stands for the calls to nodes nobody else can see; it adds no behaviour, and
TLC finds it first. `ThriftCall!ImplementsRemoteCall` is `RemoteCall!Spec` under a mapping: the
handler that has still to run is the one of the message under way or in the processor (`Pending`),
the answer is that of the last handler that ran if it ran for the current call. What it takes to
hold is that the connection carries at most one call at a time (`InStep`).

## 4. Findings

1. `EncKVGet`: Get routes by the first word of the trapdoor (`ClientCpp.cpp:79`), Put by
   the xor of seven words (`:115`). With more than one node Get asks the wrong node for
   most records.
2. `EncKVGap`: a counter that was advanced for a call that failed is never used again, and the
   proxies stop at the hole it leaves: all later records of the stream become invisible to
   Search and RangeQuery.
3. `EncKVRestart`: the counters are not persisted and start at 0 in each process; the
   README's own experiment (five insertion processes in a row) overwrites the entries of
   the first processes.
4. `OreOldAim`: the older scheme packs slot and relation as `i << 1 | v` with v up to 3
   (`ore_blk.cpp:400`, `:523`), so SMALL and LARGE are one in odd slots, and EQUAL opens the
   first equal block of different messages; `test_ore_blk.cpp:152-160` expects that a
   wrong aim finds nothing. The scheme the store uses shifts by 8.

Seen while modelling, with no document that says otherwise: a SET that Redis refuses is acknowledged
to the client, encrypted (`RedisHelper.cpp:119-125`, `TProxy.cpp:88`), plain and in the cluster, and
if it was that of an index entry it hides what comes behind it as in finding 2; the text of an error
reply is returned as a value (`RedisHelper.cpp:48`, `:112`); `ClusterPoolPut` drops the SET for a
slot of another node (`RedisHelper.cpp:88`); an error reply ends a SCAN as if all keys had been
listed (`TProxy.cpp:386`), and a plaintext range query counts the last number again for a key it
could not read (`TProxy.cpp:466`); the encrypted range query returns the records below the bound for
`iCmp > 0`, the plaintext one those above for `iCmp = 1`; `BukHash::Del` cannot be instantiated, and
the test at the head of `NextVal` has no effect. Against its comment (`ore_blk.h:142-145`: 1, -1 or
0 for greater, less, equal) `ore_blk_compare` returns the number of the block that opens, or 0
(`ore_blk.cpp:587-598`); its only caller uses it like that. The older scheme is documented for
messages of up to 64 bits (`ore_blk.h:116`); beyond 32 its mask loses bits, or its shift is
undefined.

## 5. Proofs

`SimConHashProofs!QueryUnique`: for every word and number of nodes exactly one node
satisfies `IsRoute`. From `RouterAssumption` and the existence of a least element of
a set of naturals.

`EncKVProofs` has four parts. All of it holds for every value of the constants that satisfies
the module's assumptions. The first part:

- `TypeCorrect`: `Spec => []TypeOK`. One lemma per group of actions; the queries are
  done field by field (`QueryCtr`, `QueryHit`, ...).
- `CountersMatch`: `Spec => []CountersMatchIndex` if there is one writer that never
  restarts. The property alone is not inductive; the invariant is
  `TypeOK /\ OnlyWritersPut /\ CountersMatchIndex`. `OnlyWritersPut` is needed because
  the step of a client that is executing a Put must be known to be the writer's. The
  heart is `FreshLabel`: the label a Put is about to use has its counter's value as
  index, so it is unused, by an entry or by a SET under way or refused, before the counter moves on.
- `NeverOverwrites`: the action property `AppendOnly`, from the same invariant: a
  `PutIndex` writes a fresh label, and a late SET writes a label nobody else has used. A
  refused SET writes nothing, and its label is never used again.
- `AlwaysWellPlaced`: `Spec => []EntriesWellPlaced` for any number of writers, restarts and
  failures; the property is inductive together with `TypeOK`, because each call derives
  label and entry from the same counter value.
- The theorems below and the two about counters assume a single writer that never restarts
  explicitly (`Writers = {w}`, `MaxRestart = 0`), since the drivers insert with one process
  at a time; the run `EncKVRestart` shows the assumption is needed.

The second part goes on from there:

- `NeverVisibleEarly`: `Spec => []VisibleIsIndexed`, through all failures and late SETs; an entry
  Redis refused may be missing, and is the only one that may. The
  invariant `VisibleInv` adds `PutIndexed` (the indexes a running Put is done with are stored, or
  were refused): the data is sent when nothing is left to do, so everything is stored or refused
  then, and since no entry is overwritten it stays stored.
- `SearchesComplete`: `Spec => []SearchComplete`, if in addition no call throws
  and none is refused (`MaxFail = 0`, `MaxRefuse = 0`; the run `EncKVGap` shows one throw is enough
  to break it). The invariant
  `SearchInv` is the loop invariant of the walk, `GoodQuery`: each record a query has to find
  is collected, or in the list of its node's proxy, or *ahead*, that is, an entry that matches
  and leads to it lies in a later node or not before the counter; and its data is stored.
  One lemma per step of a query: `BeginGood` (what is acknowledged is indexed, so ahead),
  `TurnGood` (a turn leaves no matching entry behind), `FetchGood` (the data is there) and
  `ReplyGood`, which is where the counters matter: by `NoHole` a proxy that meets a label
  without an entry has passed every entry of the stream. `GoodStays` says the other clients'
  steps take nothing back, since entries are never overwritten and data never removed.

The third part of `EncKVProofs` proves what the calls return.

- `AckedStays`: `Spec => []AckedStaysStored`, for any number of writers, restarts, failures, late
  and refused SETs: an acknowledged record is stored, or the data of its last Put was refused, about
  which the code says nothing to the client. The invariant `DataSent` adds that the data on its way
  in a late SET was sent by a Put as well: it may replace an acknowledged value, but only by another
  one that was Put.
- `NeverTooManyRows`: `Spec => []ColumnBounded`, again without a hypothesis. The invariant counts: a
  proxy's list is no longer than the labels it has tried, and the client's no longer than the share
  of the nodes it is done with (`ColumnCounted`).
- `GetsLastPut`: `Spec => []GetFindsAcked` if no call throws, no command is refused and `GetNode`
  and `PutNode` agree on every trapdoor; the run `EncKVGet` shows that without the second it fails.
  The invariant `LastPutStored` is that the data is always the last acknowledged value, or absent if
  there is none.
- `ReturnsIndexed`, `ReturnsSatisfying`, `ReturnsOnce`: `HitsAreIndexed`, `SearchSound` and
  `NoDoubleCount`, for one writer that never restarts but through all failures and refused commands:
  besides records there are only rows with an error text. The invariant `HitInv` is the mirror image
  of `GoodQuery`: each collected record has an entry *behind* the counter that satisfies the query,
  and it is collected at most as often as there are such entries (`Exact`). A turn of the walk moves
  one entry from ahead to behind and collects at most one hit. `EntriesStamped` says that an entry
  found under a label is one that a Put made for the label; that entries are never overwritten keeps
  what was justified justified.

The fourth part is the refinement, `StoreImplemented`: `Spec => ImplementsEncStore` under the
hypotheses of `SearchesComplete` and `GetsLastPut` together. It rests on the properties proved
before it, which become the guards of the abstract steps, one lemma per step that can be seen:

- `PutIndexRefines`: the label is fresh (`FreshLabel`), so that one more thing is found and nothing forgotten;
- `PutDataRefines`: what is sent is in all of its indexes by then (`PutIndexed`);
- `GetRefines`: the node asked holds the last acknowledged value (`LastPutStored`);
- `BeginRefines`: what the query must find is what is due in the table;
- `ReplyRefines`: the answer the last node completes holds all that was due and only what may be
  returned, which is `SearchComplete`, `SearchSound` and `HitsAreIndexed` in the state reached;
- `WalkHidden`: every other step of a walk asks the same question (`WalkSame`) and is a stutter.

`OreBlkProofs!PrpInverse`: for every half width and every three round functions,
`prp_inv_eval` undoes `prp_eval` on the whole domain and the other way round. A round between
two exchanges undoes the round before it (`RoundUndone`), so the three rounds fall in pairs from
the inside (`NetworkUndone`); cutting and joining halves is `JoinedExtracts` and
`ExtractsJoined`, from lemmas on division. Assumed is that the xor of halves cancels.

The module goes on to prove, for every number and width of blocks and every family of round keys:

- `ComparesCorrectly`: `Spec => []CompareCorrect`, and `StopsAtDifference`:
  `Spec => []PassedBlocksEqual`, from the invariant `OreInv`, which adds that every buffer
  holds nothing or a ciphertext (`Buffers`). While the loop runs, the prefixes of the two
  messages before block `i` are equal; so both sides derived the same keys and the same
  permutation, and by `PrpInverse` the slot the query points to holds the code of the two blocks
  (`CellOfSlot`, `SeenBlock`). The first block that differs decides the order of the messages
  (`FirstDifference`); if none differs they are equal (`NoDifference`). The arithmetic this
  needs of shifts and masks is in `DivMod` to `DivMono`.
- `NamesDecidingBlock`: `OldSpec => []DecidingBlock` for `OreOld`. The relation is that of the blocks
  as the 32-bit mask cuts them (`CutRelation`), and for messages that fit the mask it is proved to be
  that of the numbers (`FittingRelation`, from `PrefixAgrees` and `DecidesAt`); for longer ones it
  is not, and the theorem does not say so. The invariant `OldInv` adds
  what the buffers hold (`OldBuffers`): the ciphertexts of `plain`, the codes of `goal`. With a
  relation that holds, the first block that differs (`SomeCutDecides`) opens: before it the
  cut blocks agree (`CutSame`), so both used the same permutation and the same key, and the
  code there is that of the relation (`OpensBlock`). No block before it opens for SMALL or
  LARGE, whose codes are told from EQUAL's by their low bit (`TagTells`); the same lemma fails
  for SMALL against LARGE, which is the finding of `OreOldAim`. Assumed is that `Nil` is
  neither a plaintext nor a ciphertext (`OldAssumption`), and that the mask's shifts are defined.

`PlainKVProofs` assumes `PlainAssumption` (among others that there are finitely many keys) and that
`Nil` is no record (`NilAssumption`). `TypeCorrect` needs that a query no proxy serves has no key to
read (`Serving`). `AlwaysIndexedFirst` is for all failures, refused and late commands: `AloneInv`
says that an undisturbed Put has no other Put and no late command on its key, and `WrittenInv` that
it has written what it no longer has to send, if none of it was refused; and that at a place only
ever written with strategy II, and where no ZADD was refused (`bare`), a SET, in time or late, comes
after a ZADD. `QueriesComplete` is the loop invariant `OwedInv`: each key that must be found still
holds the number asked for, and it is collected, or on the list of the node now read, or the SCAN
has still to give it, or its node is still to be asked, unless one of the query's own commands was
refused (`cut`). `CountsExactly` is for queries that no Put runs beside and none of whose commands
was refused: the number collected is that of the places passed that hold a wanted number, node by
node (`CountInv`).

`ThriftCallProofs`: the inductive invariant `CallInv` is `TypeOK` and, for each connection,
`Conn`: at most one message or handler is under way, exactly one during a call on a
working connection (`OneMessage`); a call that returned has left nothing (`Settled`), so only
one that threw does, and its connection is gone; each request, handler and reply belongs
to a call that was made, and on a call under way to that one (`Requested`, `Served`,
`Replied`). `InStep` is not inductive without it: that a reply is the right one
rests on what was on the connection before. From `CallInv` follow `AlwaysInStep`,
`OwnAnswerReturned`, `AtMostOnce`, `ThrowsOnlyForAReason` and `RemoteCallImplemented`,
`Spec => ImplementsRemoteCall`: dispatching runs the handler of `RemoteCall`, the end of a
connection or process loses what was still to run, and all else on the wire is a stutter.
That both copies of the generated code agree, field by field, is the group of lemmas about
`Write` and `Read` of the ten methods.

`ConHashProofs` assumes `~LateInit` (no process calls Init once another has begun an
operation; if one does, there may be two in SafeSet). Three invariants, each resting on the one
before: `LockInv`, one process at a time between `Lock` and `Unlock`, also when it dies
there; `CountInv`, a counter is odd exactly while its block is written, and what the
operations may still add to it does not carry it around (from `VersionAssumption`, by counting
the increments left); `DataInv`, a writer has written the words before its place, a
reader whose count is even and unchanged has copied the words before its place, and a block
under an even count is one that was stored. `NeverTorn`, `EmptyOnlyIfEmpty` and
`OneWins` are its consequences. The proofs count processes, so `Procs` is finite.

`RedisClusterProofs` has four layers. `ShapeInv`: what each step of a call requires of its locals,
with `TypeCorrect`. `AnswerInv`: while the slot of the key of a ClusterPoolGet has not moved, the
address it was sent to, and the pool it takes, lead to the owner, unless two nodes share an IP; so
`AnswersAreValues`: an answer is a text the key had, a MOVED for one of these two reasons, or
another error's text. `ColumnInv`: each row that is due is collected, or its label is still ahead,
or the GET under way is for one of its two keys and has seen only what was stored (`Owed`); so
`ColumnsComplete`, where every node is assumed to have its own IP (`~Shared`) and a row is no longer
due once a GET of it was refused: the map of pools is keyed by IP alone, and with two nodes under
one IP a GET may be sent to the wrong one. `PutInv` and `KeptInv`: while no other call puts its
keys, what a ProxyPut has sent to keys at home and was not refused is there, unless a late SET came
over it, and it is kept when it returns, until the next ProxyPut or late SET of the key; so
`PutsStay`. Assumed of the constants is that the texts stored are ciphertexts, none of which begins
with "MOVED", and that trapdoor and label of a ProxyPut differ, as outputs of PRFs under different
keys do.

`BukHashProofs` proves the table for any number of processes and levels, any widths of at least 1
and any positive keys and values (`BukAssumption`), in five layers, each an invariant that rests on
those before it. `Types`; slots are pairs of level and place, in the order in which a walk meets
them (`Before`). `Placed` and `Probes`: a key lies on its way, no slot before it there is free or
holds it too, and an operation has passed no such slot either; only the writer claims slots, so what
it passed stays passed. `Valued` and `Answered`: a slot holds a value of its key or cleared memory,
which is what a reader finds between `Claim` and `CopyValue`; so `LookupsAgree`. `Counted`:
`m_uiNum`, once right, stays the number of keys; so `AlwaysWellPlaced`. `Walked`: the keys a walk
has met lie before its cursor and are as many as it has counted, and those it owes lie at or behind
the cursor; so `WalksComplete`.

Every safety invariant and action property that a passing run checks is a theorem, and so are both
refinements. Only model-checked are the liveness properties `QueryTerminates`, `CallsEnd` and
`OperationsEnd`: liveness under fairness is out of the prover's reach. So are the induction theorems
of the library, which take an operator; where a proof needs an induction on numbers (`PrefixAgrees`, the
order of slots) it takes a least counterexample instead (`LeastElement`, from the
well-foundedness of the naturals).

## 6. Not modelled

Not modelled because there is nothing to check: the OpenSSL wrappers, hex conversion,
stopwatch, vendored AES tables, the drivers (read for how they use the library), Open and
Close of the transports, InitKey (fixed keys), the generated classes nobody instantiates, the
`*_ui` functions of `ore_blk.cpp` (they allocate and copy), `BukHash::PrintState`.

Not modelled because it does not compile or is not called: `BukHash::Del` and the form of
`Create` that calls `ShmCtl` (a class template's members that cannot be instantiated), and
`RedisHelper::Open`, `Get` and `Put` on a single connection.

Not modelled because the program has no meaning there: more nodes than the counter maps
(`DEMO_SERVER_NUM`) or `serverID[16]` have entries; a block length the PRP refuses, after
which `OREHelper` goes on with unwritten buffers; proxies and clients started with
different block lengths. The modules state the limits as assumptions where they meet them.

Taken of redis3m, whose source is not here: an error is a reply, as `reply::str()` and
`reply::type()` are used in `RedisHelper.cpp`; a command that `run_with_connection` repeats after a
transport failure (`DEF_REP_TIMES`, up to ten times) is executed once; if it throws in the end, at
once, late or never. Numbers of the plaintext baseline are read as ints by the properties too, as
the code does throughout: that one of 2^31 and more counts as negative is not called an error, since
no document gives their range.

