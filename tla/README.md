# TLA+ models of the utreexo bridge node

This directory holds TLA+ models of the Go code under `src/`, together with the
TLC configurations that check them. `src/` contains three files:

| File | What it holds |
|---|---|
| `src/accumulator/forestdata.go` | The forest storage backends: RAM, disk, and a disk backend with a per-tree cache. |
| `src/bridgenode/server.go` lines 1-451 | The archive server and `GetUDataBytesFromFile`, the reader of the proof flat file. |
| `src/bridgenode/server.go` lines 452-1175 | The accumulator's `forest.go`: `Forest`, `Modify`, `removev5`, `addv2`, `reMap`, `RestoreForest`. |
| `src/unnamed/part_000` | `flatfile.go`: the two goroutines that write the proof file and the offset file. |

## The system and how its parts interact

The bridge node keeps a utreexo forest of every unspent output. Each block
deletes leaves by position and adds new leaves on the right (`Forest.Modify`).

For every block it also produces a proof. `flatFileBlockWorker` appends that
proof to `proof.dat` and records where it starts in `proofoffset.dat`. It then
passes the offset over `offsetChan` to `flatFileTTLWorker`.

The TTL worker receives, per block, the outputs that block spends (their
creation height and index). It writes each output's lifespan into the 4-byte
slot reserved in the proof of the creating block. The archive server reads
proofs back with `GetUDataBytesFromFile`.

The forest's hashes live in a `ForestData` backend. The position helpers
(`parent`, `getRootsForwards`, `inForest`, ...) and the hash helpers are called
by this code but are not in `src/`.

### Inventory of components

| Component | State | Operations | Hard behaviour |
|---|---|---|---|
| Positional arithmetic | none | pure functions | bit arithmetic at row boundaries |
| Forest engine | `numLeaves`, `rows`, `data`, `positionMap` | `Modify` (remap, `removev5`, `addv2`), `Add`, `sanity`, `PosMapSanity` | long sequences of blocks; remap at powers of two; deletions |
| Forest persistence | misc file, forest file | `WriteMiscData`, `WriteForestToDisk`, `RestoreForest` | a torn misc file; the resize and read-back of the dump; the position-map rebuild |
| RAM / disk backends | byte array or file | `read`, `write`, `swapHash*`, `resize`, `close` | none beyond the array; they are the contract the cache must meet |
| Cached disk backend | per-tree ranges with `valid` flags, `hashCount` | `read`, `write`, `readRange`, `writeRange`, `flush`, `resize`, `close` | stale `hashCount`; flush of invalid ranges |
| Flat-file writers | `proof.dat`, `proofoffset.dat`, three channels, in-RAM offsets | startup replay, proof write, offset hand-off, TTL patch | two goroutines writing one file; TTL before offset; restart |
| Proof reader | reads both files | `GetUDataBytesFromFile` | agreement with the writer's format |
| Archive server | listener, `cons`, `haltRequest`, `haltAccept`, force-quit timer | accept, serve, stop | four goroutines; close of a channel another goroutine may be sending on |
| Copy-on-write backend, `BuildClairvoy`, `Start` | — | — | code not in `src/`, or sequential and outside TLC's reach |

## Modules

* **`UtreexoPositions`** holds the positional helpers as pure operators:
  `parent`, `sibling`, `detectRow`, `getRootsForwards`, `inForest` and
  `condenseDeletions`. Their Go code is not in the repository, so they are
  written from spec section 4.1 and marked spec_modelled in `PROJECT.json`.

* **`Forest`** models the forest over the RAM backend.
  - State: the variables `numLeaves`, `rows`, `data` (position to hash) and
    `positionMap`. Two history variables, `live` and `added`, record the leaves
    a correct accumulator would hold.
  - Hashes are terms: `Leaf(v)` and `parentHash(l, r) = <<l, r>>`. A root
    therefore shows exactly which leaves it commits to.
  - Actions:

    | Action | Models |
    |---|---|
    | `ModifyBlock` | One call of `Modify`: the remap loop (`grow`/`reMap`), then `removev5` (`promote`, `lonely`, the rise loop), then `addv2`. Deleted positions come from the position map, as a verified proof gives them. |
    | `Restart` | `WriteMiscData` and `WriteForestToDisk`, then `RestoreForest` in RAM mode on the two files they leave. |

  - Persistence is modelled by the files. `WriteMiscData` is the sequence of
    values written (`numLeaves`, then `rows`). `WriteForestToDisk` is the hash
    array as dumped. `RestoreForest(misc, dump)` reads them back:
    - an empty misc file is an error;
    - a missing `rows` leaves it 0, because line 968's error is ignored;
    - the array is resized to `(2 << rows) - 1`;
    - a short dump is the chunked read's EOF error;
    - a `numLeaves` past the array end panics in the rebuild.
  - The forest's own queries are operators: `getRoots`, `FindLeaf`, and the
    checks `sanity` and `PosMapSanity`. The invariant `PositionMapConsistent`
    is `PosMapSanity`, so it says "the code's own check never fails".
    `sanity` is not checked: its `numLeaves <= 1 << rows` is `grow`'s loop
    guard, and its other two checks follow from the properties below.
  - `reHash(d, dirt, n, rs)` is the code's `Forest.reHash`. Its result is a
    record `[status, data]`. The status is `"err"` for a returned error and
    `"panic"` for an index out of range. It is built from several operators:
    - `dirtStatus` and `dirtRow` model the validation loop;
    - `dirty2d` models the row buckets;
    - `hashRow` models one row, with its sibling and root skips;
    - an inner `rowLoop` models the row loop, which pops finished roots.

    Nothing in `src/` calls `reHash`, so it is not an action. The invariant
    `ReHashRepairsLeafEdits` evaluates it in every reachable forest, for every
    non-empty set of overwritten leaves.

* **`MCForest`** instantiates `Forest` with six leaf values.

* **`FlatFile`** models `flatFileBlockWorker`, `flatFileTTLWorker` and their
  inputs, plus `GetUDataBytesFromFile`.
  - Files are sequences of 4-byte words. A record is a size word followed by
    one zero TTL slot per output of the block. This matches the code's
    arithmetic `inRamOffsets[c] + 4 + 4*idx`.
  - Each worker's write, seek and channel operation is its own step.
    `O_APPEND` is modelled by what it does: every write goes to the end of the
    file.
  - The block source is outside the repository. It sends proofs and TTL
    results for heights `FirstHeight ..` in order, on channels of capacity
    `ChanCap`. Which block spends which output is chosen in `Init`.
  - `Crash` kills the process.
  - `Restart` restarts both goroutines on the files left behind. The source
    resumes at the height the offset file records.

* **`MCFlatFile`** instantiates `FlatFile` with three blocks creating 2, 1 and
  0 outputs.

* **`RamForestData`** is `ramForestData` of `forestdata.go`: the hashes as one
  array `m`, with `Read`, `Write`, `SwapHash`, `SwapHashRange`, `Resize`,
  `Close` and `Restore`. It is what every `ForestData` backend promises, and
  serves as the abstract specification of the cached backend.

* **`CacheForestData`** is `cacheForestData` with its `diskForestCache`.
  - State: the forest file `disk`, `hashCount`, the set of `valid` slots and
    the slot data `cdata` (data survives `flush`; only non-zero slots are
    kept, as the Go slice starts zeroed). `out` and `op` are history: the last
    read's result and the last call with its arguments.
  - The cache is the real one (`newDiskForestCache(20)`). `CacheRows` is the
    row-window loop shared by `includes`, `rangeOverlap` and `flush`; `Rows`
    tabulates it per `hashCount`.
  - One action per interface call, each the whole method: `Read` (hit,
    miss with fill), `Write`, `SwapHash` (read, read, write, write),
    `SwapHashRange` (`readRange` twice, `writeRange` twice), `Resize` (flush
    with the old `hashCount`, truncate, write the ranges back), `Close`
    (flush and write back) and `Restore` (`RestoreForest` with `cached`: a new
    cache, reads with `hashCount` 0, then `size()`).
  - Refinement: `View` maps the state onto the RAM array (a position reads
    from its cache slot when the slot is valid, otherwise from the file), and
    `Ram == INSTANCE RamForestData WITH m <- View`.

* **`MCCacheForestData`** instantiates it with the hashes `{zero, h1}` and up
  to 7 hashes, and defines the state constraint `MCBound`.

* **`ArchiveServer`** models `ArchiveServer`, `stopServer`, `blockServer`,
  `acceptConnections` and `serveBlocksWorker`.
  - State: each goroutine's program counter (`ss`, `bs`, `acc`, `w[i].pc`),
    the two capacity-1 halt channels as counters, the listener, whether `cons`
    is closed, the timer, and how the process ended (`exit`).
  - `cons` is unbuffered, so `BSRecvCon` is the rendezvous of the acceptor's
    send with `blockServer`'s select. `AccSendClosed` is the panic of a send
    on the closed channel.
  - A worker reads a request (`WStart`: direction, clamp, refusal), then
    serves one height per `WServe`. Whether a height's file reads and socket
    write succeed is a free choice, except that `GetUDataBytesFromFile` fails
    for heights `<= 0`.

* **`MCArchiveServer`** instantiates it with two connections, an archive of
  heights 1..2, and request heights -1..3.

## Runs

| Run | Expect | What it shows |
|---|---|---|
| `forest_add` | pass | Blocks that only add, with remaps up to `rows = 3` and restarts, keep the forest consistent. The roots are the hashes of their leaves (`RootsMatchLeaves`), and they commit to exactly the live leaves (`CommitsToLiveSet`). The position map matches the leaf row (`PositionMapConsistent`). A write-out can always be restored (`RestoreSucceeds`), and a restart gives back the same `numLeaves`, `rows`, hashes and position map (`RestartRoundTrip`, spec 8.6). In every reached forest, `reHash` accepts any set of edited leaves and leaves each root equal to the hash recomputed from the new leaves (`ReHashRepairsLeafEdits`). |
| `forest_delete_posmap` | violation | `PosMapSanity` fails after a deletion. Survivors are not moved below the new `numLeaves`. This layout error (line 651) is also what breaks `CommitsToLiveSet` and `RootsMatchLeaves` first under deletions, so the missing re-hash of `removev5`'s dirt is not shown by a run of its own. |
| `cache_ops` | pass | `read`, `write` and `swapHash` of the cached backend act as the RAM array does under `View` (`OpsRefineRam`). This holds through resizes to 7 hashes, closes and restores, with stale slots left by `flush`. `TypeOK` includes that the file always has `hashCount` hashes. |
| `cache_refines_ram` | violation | The cached backend does not implement the RAM backend (`RefinesRam`). A hash written while the forest has one hash is zeroed two resizes later, because `flush` hands back ranges whose slots were never set. |
| `archive_shutdown` | pass | Workers send only requested heights the archive holds (`ServedWithinRequest`). Once `stopServer` waits on `haltAccept`, the handshake ends the process without the timer unless setup failed (`HandshakeEndsProcess`). |
| `archive_send_on_closed` | violation | A connection accepted just before shutdown is sent on `cons` after `blockServer` closed it, and the process panics (`NoSendOnClosedCons`). |
| `flatfile_progress` | pass | The block worker, the TTL worker and the source never stall each other: the work finishes or the process stops. This answers the code's "Will this lock up?" comment. `TypeOK` includes that the proof file holds only size words, zero slots and TTL values between 1 and `NumBlocks - 1`. |
| `flatfile_offsets` | violation | TTL values appended between records shift later records away from their offset entries. The same `O_APPEND` also means no TTL value ever reaches its slot. |
| `flatfile_index_panic` | violation | A TTL result for `H` spending an output of `H-1` arrives when only `H-1` offsets are in RAM. `inRamOffsets[H-1]` is then out of range. |
| `flatfile_restart` | violation | The startup replay never advances `offsetPos`, so it panics at EOF on every restart with offsets. |
| `flatfile_reader` | violation | The block worker numbers offset entries from 0, so entry `h` holds block `h+1`'s offset. `GetUDataBytesFromFile(h)` seeks entry `h` and reads the next block's record; for the latest block that record is not written yet, so the read hits EOF (`ReaderReturnsProofs`). |
| `flatfile_magic` | violation | The record an offset entry points at starts with its size word, not with the magic `aaffaaff` that the reader checks first (`RecordsStartWithMagic`). |

Every property of a passing run has a mutant in `PROJECT.json`: a variant of
one mapped definition, each a plausible coding slip, under which TLC finds the
property violated.

| Variant | Slip it models |
|---|---|
| `addOneSwapped` | hashes in the wrong order |
| `addOneMapOff` | maps a leaf one position off |
| `reMapNoTop` | forgets the top row |
| `growLate` | remaps one leaf late |
| `restoredMapShort` | rebuilds one position short |
| `RestoreForestHalf` | resizes the restored array to `(1 << rows) - 1` |
| `hashRowSwapped` | `reHash` hashes a pair as right, then left |
| `TTLValueSwapped` | writes `createHeight - Height` as the TTL |
| `TWTakeOffsetNoCount` | forgets `maxOffsetHeight++` |
| `RestoreNoSize` | `RestoreForest` without the final `size()` call |
| `readNoValid` | reads a cached slot without checking `valid` |
| `WServeUp` | `curHeight++` whatever the direction |
| `WStartNoClamp` | does not clamp `toHeight` to `endHeight` |
| `BSSendAcceptSkip` | leaves the halt case without sending on `haltAccept` |

## Bounds

### Forest

Six leaf values, at most 3 adds per block, and no deletions in the passing run.
Six leaves reach `rows = 3`, which exercises:
- three remaps;
- every carry pattern of `addv2` up to a 4-leaf tree;
- restarts between any two blocks.

The deletion run allows up to 2 deletions per block. Its violation appears
within four blocks.

### FlatFile

Three blocks starting at height 1, channels of capacity 1, and at most one
restart. Three blocks are the fewest for which:
- a TTL result must wait in the catch-up loop;
- a TTL value can fall between two records.

The six spend functions cover the cases:
- outputs never spent;
- outputs spent one block later (the index race);
- outputs spent two blocks later.

### Cached backend

The forest grows `1 → 3 → 7` hashes (`MaxSize = 7`). At 7 hashes, row 0's window
covers positions 0..2 and row 1's covers position 3. This is the first size
with two windows, stale slots from an earlier size, and positions outside
every window.

The hashes are `{zero, h1}`. The passing run bounds the non-zero hashes stored
in file and cache together to four (`MCBound`); that is enough to have a stale
slot and a different file value at once. `out` and `op` are left out of the
state's identity (`VIEW codeVars`), since no step reads them.

The violation run has no constraint, and finds the loss after three calls.

### Archive server

There are two connections, so one can be served while a second is being
handed over at shutdown. The archive holds heights 1..2, and requests use
heights -1..3. That covers:
- forward and backward requests;
- a `toHeight` to clamp;
- a `fromHeight` past the archive;
- heights at and below block 0.

## Fairness

`Progress` assumes weak fairness on each goroutine. A runnable goroutine is
eventually scheduled. Go's `select` picks uniformly among ready cases, so each
case of the TTL worker's `select` gets weak fairness of its own.

`Crash` and `Restart` are outside events and get no fairness. The forest
properties are all safety properties.

`HandshakeEndsProcess` assumes weak fairness on every step of `stopServer`,
`blockServer`, `acceptConnections` and each worker. Go's `select` in
`blockServer` picks among ready cases at random, so each case has its own
fairness.

The user's signal and the clients' connections are outside events and get
no fairness. The 2-second force-quit timer gets none either. The property
asks whether the handshake alone ends the process; with a fair timer it would
hold trivially.

`archive_*` runs do not check deadlock, because `os.Exit` and a panic end
every goroutine.

## Not modelled, and why

* **`reHash` as an action, and `Forest.Add`.** Nothing in `src/` calls
  them. `reHash` is checked as an operator, as described above; its problems
  are listed as hazards.
  - `reHash` rejects every internal position except `numLeaves`, so it cannot
    take the parents that `removev5` dirties.
  - Its `r > f.rows` check lets row `rows` through, and `dirty2d[rows]` then
    panics. For example, dirt `[2]` in a 2-leaf forest gives status `"panic"`.
  - `Add` skips `Modify`'s remap and overruns the rows past `1<<rows` leaves.
* **`swapHashRange`'s range bug in the cache.** `rangeOverlap` lets a range
  that starts in a window run past it, so `swapHashRange(1,3,2)` at 7 hashes
  loses position 4's hash.
  - `RefinesRam` covers it, but its first counterexample is the shorter flush
    loss.
  - No code in `src/` calls `swapHashRange`.
* **`diskForestData`.** Each of its methods is one `ReadAt`, `WriteAt` or
  `Truncate` with `ramForestData`'s array semantics. A module for it would
  refine `RamForestData` by construction. Its one difference is that
  `swapHashRange` reads both ranges before writing either, and that method has
  no caller. Its read and write errors are printed and ignored.
* **`RestoreForest`'s ignored read of `rows`.** Line 968 re-tests the stale
  `err`. A misc file cut short between `WriteMiscData`'s two writes therefore
  restores `rows = 0`. `RestoreForest` in the model does the same: on such a
  file it gives `"panic"` once `numLeaves > 1`. When a crash can fall between
  the two writes depends on a caller outside `src/`, so `Restart` writes both.
* **The partial branch of `rangeOverlap`.** With a `2^20`-tree cache, windows
  start at the first position of each row until the forest holds more than
  `2^21` hashes. That is out of TLC's reach.
* **`BuildUndoData`, `Undo`, `Prove`, `Verify`, the copy-on-write backend and
  the hash function.** Their code is not in the repository.
* **Write errors in the flat-file workers.** After a failed write the block
  worker returns and the other goroutines block. Spec section 7 says the
  writer's loss is fatal to the pipeline, and the code behaves that way. A run
  showing the hang would only restate the spec, and the project's twelve runs
  are spent on real disagreements.
* **`BuildClairvoy` and `Start`.** `BuildClairvoy` is sequential and depends on
  data produced elsewhere. `Start` only dispatches on configuration.

## Plan for the next steps

1. **Composition of the archive worker with the proof reader.** Instead of a
   free choice, use `GetUDataBytesFromFile` over the files `FlatFile` writes
   (which today makes every read fail).
2. **Larger instances** of the cache (15 hashes) once its check can be made
   cheaper.
