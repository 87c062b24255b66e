# A TLA+ model of verify-firedancer

The repository holds SeaHorn verification jobs for Firedancer, together with
the headers they verify: modified copies of Firedancer's `tango`, `util` and
`ballet` headers in `src/seahorn/include/stubs/`, stand-ins for other code in
`src/seahorn/stubs/` and `src/seahorn/lib/`, and the driver `src/verify.py.in`.
The jobs check memory safety of single calls in one thread.  What the headers
are for — a producer and several consumers in different threads or processes,
sharing memory without locks, and data structures that must stay right over
long sequences of calls — is what the modules here describe, check and prove.

File names without a directory are below `src/seahorn/include/stubs/`; `lib/`,
`stubs/` and `jobs/` are below `src/seahorn/`.

## Inventory

| Component | State | Operations | Works with | What makes it correct |
|---|---|---|---|---|
| **mcache** `fd_mcache.h` | ring of cache lines (seq + metadata), `seq[0]` | publish (plain, SSE, AVX), wait (plain, REG, SSE, AVX), query, seq query/update, line index | one producer, any number of consumers, shared memory only | no torn or stale metadata is accepted; query results are right at any instant; consumers catch up; restart from `seq[0]` reuses no sequence number |
| **fctl** `fd_fctl.h`, `stubs/tango/fctl_override.c` | thresholds, `in_refill`, one `seq_laddr`, `cr_max` and slow counter per receiver | `new`, `cr_query`, `tx_cr_update`, `rx_cr_return`, accessors | reads the words the receivers write; its user is the transmitter's run loop | reliable receivers are never overrun; the transmitter does not stall for good; stalls are charged to who caused them |
| **fseq** `fd_fseq.h`, `fd_fseq_private.h`, `stubs/tango/fseq_override.c` | one shared sequence number, its seq0 | query, update, join/leave | carries a receiver's position to an fctl | what was returned is what is read; joins are independent |
| **dcache** `fd_dcache_private.h`, `stubs/tango/dcache_override.c` | payload ring | compaction (outside the repository), join/leave | payloads of the frags in an mcache | a payload survives as long as its frag |
| **mcache/dcache/tcache life cycle** `fd_mcache_private.h`, overrides | global pointers to the header joined last | join, leave, delete, accessors | harnesses | two objects do not mix |
| **tcache** `fd_tcache.h` | ring of the last `depth` tags, probed map of them | query, insert, remove, reset | a consumer's deduplication | map and ring agree; probe chains are whole; a FIFO of unique tags |
| **pod** `fd_pod.h` | serialised key/value list | init, iterate, insert, accessors | svw codec | iteration visits exactly the entries; nothing is written past max |
| **bits, layouts, svw codec** `fd_bits.h` | none; a stream of encoded integers | masks, shifts, alignment, powers of two, zig-zag; `FD_LAYOUT`/`FD_SCRATCH_ALLOC`; encode/decode from both ends | pod, fctl, everything | what the comments promise, at the limits of the word too |
| **ChaCha20 rng** `fd_chacha20rng.h` | output ring, offsets | `avail`, `ulong`, `ulong_roll` | block refill (outside) | no byte is used twice or skipped; rolls are unbiased |
| **utility base** `fd_util_base.h` | a word per `FD_ONCE` block or turnstile | `FD_ONCE`, `FD_THREAD_ONCE`, `FD_TURNSTILE`, `FD_ATOMIC_XCHG` | any number of threads | once, exclusive, nobody waits for ever |
| **allocators, byte functions** `lib/` | heap | malloc family, bcmp, memcmp, strncmp, memchr, memmove | all harnesses | agree with libc where a harness relies on it |
| **TLS stubs** `stubs/waltz/` | the record and reply buffers of a handshake | parsers, writers, callbacks | the two TLS harnesses | views lie in the record, replies fit |
| **harnesses** `jobs/` | a program each | new, join, operations, leave, delete | the stubs above | assertions hold for every legal program, not only the one written |
| **verify.py** `src/verify.py.in` | flags set while reading the tool's output | exit code | CI, CTest | an error is never reported as success |
| log, libc, crypto stubs, CMake, scripts | none of interest | return arbitrary values; build, report | — | nothing to state |

Hard behaviour.  In mcache, fctl, the utility base and the link between them
everything is: accesses of several actors to shared memory in any order, values
used after they may have changed, wrap of 64-bit sequence numbers, crash and
restart, polls that time out, and waits that must end.  The rest is sequential;
its difficulty is in long sequences of calls, in two structures that must
agree, and in boundaries.  `PROJECT.json` lists each hazard at its line.

## Modules

| Module | Models | Kind |
|---|---|---|
| `SeqNum` | sequence-number comparison (`fd_seq_diff`, `fd_seq_ne`) | operators |
| `FragStream` | what an mcache promises | abstract specification |
| `Mcache` | `fd_mcache.h` with its documented run loops | implements `FragStream` |
| `Fctl` | `fd_fctl.h` with its documented run loops | specification |
| `ReliableStream` | what mcache, fctl and fseqs promise together | abstract specification |
| `Link` | producer and consumers with mcache, fctl, fseqs, payload buffer | composes `Mcache` and `Fctl`; implements `ReliableStream` |
| `Turnstile`, `Once`, `Xchg` | the concurrent part of `fd_util_base.h` | specifications |
| `UtilBase` | what these three promise together | composes `Turnstile`, `Once`, `Xchg` |
| `DedupCache` | what a tcache does for its user | abstract specification |
| `Tcache` | `fd_tcache.h`, one step per look at the map | implements `DedupCache` |
| `Svw`, `SvwStream` | the svw codec; a stream of its integers | operators; specification |
| `Pod` | `fd_pod.h` over `Svw` | specification |
| `Bits`, `Scratch` | the rest of `fd_bits.h` | specifications |
| `Codecs` | what `fd_bits.h` and `fd_pod.h` compute | composes `SvwStream`, `Pod`, `Bits`, `Scratch` |
| `ChachaRng` | `fd_chacha20rng.h` | specification |
| `ByteFns`, `MemMove`, `Alloc` | `lib/` | specifications |
| `CacheJobs`, `FseqJobs`, `FctlCfg` | the tango harnesses over the life cycle stubs | specifications |
| `TlsStubs` | the TLS stubs and harnesses | specification |
| `Verify` | `verify.py` | specification |
| `Programs` | what one thread does by itself | composes `ChachaRng`, `ByteFns`, `MemMove`, `Alloc`, `CacheJobs`, `FseqJobs`, `FctlCfg`, `TlsStubs`, `Verify` |
| `MCMcache`, `MCFctl`, `MCLink`, `MCThreads`, `MCStructures`, `MCPrograms` | constants for TLC | model checking |
| `ModularLemmas` | quotient, remainder, powers of two | lemmas |
| `Mcache_proofs`, `Fctl_proofs`, `Link_proofs`, `UtilBase_proofs`, `Tcache_proofs`, `Codecs_proofs`, `Programs_proofs` | theorems | proofs |

Definitions whose comment says *Mutant* are broken variants of the definition
below them.  No specification uses them; each shows that a property notices a
particular mistake (`mutants` in `PROJECT.json`).  A property that speaks of several
modules has a mutant in more than one of them.

### Sequence numbers

The models keep unbounded integers; what the code compares are residues modulo
`2 * SeqHalf` (2^64), so `SeqEq`, `SeqDiff` and `LineIdx` only look at residues.
The properties are stated with the integers: that a comparison of residues gave
the right answer is something to be checked, not assumed.  In the TLC runs
`SeqHalf` is 16 and the first sequence number is 30, so every run wraps.

### Mcache

State and code: `line` is the array of `fd_frag_meta_t`, `seqCell` is `seq[0]`.
The producer's `tx`, `pubKind`, `pubTodo`, `ppc` are its sequence number and how
far the publish has got; a consumer's `rx`, `poll`, `found`, `copy`, `todo` are
`rx_seq`, `poll_max`, `seq_found`, `meta`, and the fields not copied yet.  `got`
is the last metadata a consumer accepted.

A publish is `PublishMark` (or `PublishSse`), a `PublishBody` per store, and
`PublishSeq`; `PublishAvx` is one store.  A poll of a wait is `WaitSeq` (`WaitSse`,
`WaitAvx`), a `WaitCopy` per load, and then — with the load of `seq_test` and the
decrement of `poll_max` — one of `WaitTimeout`, `WaitRetry`, `WaitOverrun`,
`WaitMeta`.  The run loop of `fd_mcache.h:449-531` goes on with `Accept` or
`RecheckOverrun`.  Between two compiler fences the stores of a body (loads of a
copy) may come in any order.  x86's ordering of loads and of stores is assumed,
as the header says it does; single accesses are atomic up to 8 bytes, 16-byte
SSE and — for `publish_avx`/`WAIT_AVX` — 32-byte AVX ones.  `WAIT_AVX` is only
combined with an AVX producer (`McacheAssumption`), as its comment requires.

Overrun handling is the application's; the two ways the comments name are
both there: go on from what was found, or from a fresh `seq[0]`.  A producer may
stop at any step; a clean `Shutdown` and `Restart` go through `seq[0]`.

The content of a frag's metadata is the number of the frag.  The chunk, sizes
and timestamps, and their narrowing to 16 and 32 bits, are left out: no
property is about them.

### Fctl

`cfg` holds the thresholds and the receivers' `cr_max`; `Configs` is any set of
those that `struct fd_fctl_private`'s comments allow.  `tx_cr_update` is
`StartQuery`, a `QueryRx` or `SkipInactive` per receiver, and one of `Resume`,
`EnterRefill`, `StayInRefill`; `Send` is the run loop's burst.  A receiver
`Receive`s, returns credits (`CrReturn`, `fd_fctl_rx_cr_return`), may get its
`seq_laddr` late (`Activate`) and may crash and start over from what it returned
(`Crash`).  Receivers may start behind the transmitter, too far behind, or ahead.

`covered` is a history variable: the receivers that `cr_avail` was computed
from.  Nothing in the model depends on it.  It states precisely what a late
receiver gets: protection from the first query that both sees it and resumes —
until then credits that were computed without it may still be spent, which is
what the code does.

The slow counters are one per receiver and incremented atomically; the code
allows them to be shared with other statistics and then says they are
inexact.

### Link

`Link` instantiates `Mcache` and `Fctl` over shared variables (`tx` is both
modules' sequence number, `rx` the mcache consumer's and the fctl receiver's
position, `rx_cell` a receiver's fseq) and adds what each leaves open: the order
payload, line, credit of the run loops in the comments of `fd_mcache.h` and
`fd_fctl.h`, and the payload buffer (`data`, a slot per frag, written in two
steps and read in place by the consumer before it looks at the line again).
A consumer's `Crash` may come anywhere, in the middle of a copy too; it goes on
from its fseq.  `Watchers` are consumers that the producer does not wait for.
`LinkAssumption` has what the comments ask of the application: no receiver's
`cr_max` above the depth, and room in the buffer for more frags than the
mcache has lines (the frag being written).

### Turnstile, Once, Xchg

The threads-and-atomics build.  `Turnstile` and `Once` separate the read of the
word from the compare and swap, as the macros do; a thread spins, and in `Once`
has a stack of the blocks it is in, so that blocks may nest and share nested
ones (assumed acyclic, as a block that waits for itself is the user's mistake).
A turnstile's body is a plain load and store with breaks.  `Xchg` has both the
instruction (style 1) and the emulation (style 0), alone and on one word.

### Tcache

`ring`, `map`, `oldestCell` are the memory, `oldest` the user's local copy; `op`,
`tag`, `slot`, `hole`, `pc` are where a call is.  `Probe` steps look at one slot, `shift`
steps move one entry back (`fd_tcache_remove`).  A clean restart (`Leave`,
`Rejoin`) takes `oldest` from `oldest_laddr`.  `DedupCache` is what a user sees: the
`Depth` most recent unique tags less the removed ones.  An insert takes effect
when its tag goes in the map.

### Codecs and arithmetic

A word is the set of positions of its one bits, so masks, shifts and stores
are set operations and arithmetic goes through the number the word stands for.
`Svw` has the seven formats, all of `enc_fixed`, `enc`, `dec_sz`, `dec_tail_sz` and
`dec_fixed` as the code has them; `SvwStream` appends integers, updates them in
place and reads them back from the end, in memory of zeros or ones.  `Pod` keeps
bytes (a set of bits again), what has been put in (`pairs`), and an iterator; all
`fd_pod_insert_*` go through `fd_pod_alloc`, modelled from its comments; a reset
drops the subpods inside the pod with its pairs.  `Bits`
compares each bit operation with the table at `fd_bits.h:15-71`, for words of 8 to
128 bits (TLC takes all those of 8).  `Scratch` lays regions out, gets a block of
just the footprint and alignment anywhere, and allocates the regions from it;
the caller keeps the promise at `fd_bits.h:976-978`, that sizes and alignments do
not add up to an overflow.  `ChachaRng` knows a word
of the buffer by its key and place in that key's stream; refills produce one
block or more, as the comments leave it, and a roll rejects as the code does.

### Functions, stubs, jobs, driver

`ByteFns` takes the loops of `bcmp.c` turn by turn, with pointers that may be NULL
or the same and a `memchr` that reads through a pointer nobody set; `MemMove` the
backwards copy in words, of four bytes as its bounds are made for or of the
eight that a 64-bit build has, and bytes; `Alloc` every allocator of three builds
with a `size_t` that wraps.  `CacheJobs` runs harnesses, each a sequence of
operations with any sizes the footprint functions let pass, 0 included, in any
interleaving over one set of global pointers: two caches of a kind may be joined
at once, which a program may do although no harness does.  `FseqJobs` has any
legal sequence of fseq calls on several regions and the one word they share;
`FctlCfg` formats a havocked region, adds receivers and completes the
configuration, again and again.  `TlsStubs` has the two handshake harnesses with
stubs that return any result their `assume`s allow.  `Verify` reads lines in every
order; the command may then end with any code of a constant set, those of the
script itself and the negative ones of signals among them.

`Programs` puts the nine modules of `lib/`, the rng, the jobs, the stubs and the
driver side by side: `part` names the one that runs, the variables of the others
stay 0, and each property speaks of its own.  They share nothing; one module
keeps their constants, and the theorems about them, in one place.  `UtilBase`
does the same for `Turnstile`, `Once` and `Xchg` (`MCThreads` runs them), `Codecs` for
`SvwStream`, `Pod`, `Bits` and `Scratch` (`MCStructures` runs them, and `Tcache`).
`MCThreads` also runs `Mcache`, for what has to happen in the end.

## What is checked

| Run | Question | Bounds |
|---|---|---|
| `mcache` | torn or stale frags, queries, seq_found, restarts, refinement of `FragStream` | 2 lines, 3 body fields, 4 frags, 1 consumer, plain and SSE |
| `mcache_avx` | the same for AVX, interleaved line index | 4 lines, interleave 2, 9 frags |
| `mcache_poll_one` | poll_max 1 (fails, see below) | 2 lines, 3 frags |
| `fctl` | overrun, real credits, lower bounds, attribution; the credits flow again | all valid thresholds up to 4 credits, 2 receivers that start ahead, level or too far behind, 3 credits spent |
| `fctl_low_refill`, `fctl_high_resume` | thresholds that do not keep the credits flowing (fail, see below) | as `fctl`, nobody late or crashing |
| `link` | frag and payload kept until returned; reliable stream; delivery | 2 lines, 3 payload slots, 4 frags; one reliable consumer that may crash |
| `link_watch` | payload right when the second look succeeds | the same with a consumer the producer does not wait for, plain and SSE, both recoveries |
| `threads` | exclusive, once, waited for, no lost update, no value lost, nobody stuck; a consumer catches up with a producer that may stop anywhere, going on from what it found or from `seq[0]` | 3 threads; a block with two nested ones that are also reached directly; a counter modulo 2; 2 lines, 3 frags |
| `structures`, `programs` | see below | as in `MCStructures` and `MCPrograms` |
| `svw_forward` | the first byte of an integer tells its size (fails, see below) | as `structures` |

What `structures` and `programs` show, by property:

| Property | Of | Bounds |
|---|---|---|
| `ProbeIsRight`, `RoomLeft`, `CallsReturn`, `ImplementsDedupCache` | tcache: no chain is cut, the map has room, calls end, FIFO of unique tags | depth 2, map of 4, four tags, two of which start at its end, so that chains collide and wrap |
| `ReadsBack` | svw: every integer from the end and in its place, forwards just those whose first byte tells the size, all loads agree | two integers at and next to each size limit, told by the first byte or not, memory of zeros or ones |
| `HoldsItsPairs` | pods and subpods: content, tightness of `used`, iteration | three pairs, every kind of encoding, one integer and one size that the first byte does not tell |
| `ArithmeticIsRight` | bits: each operation computes what the comment says, wraps included | all 8-bit words |
| `RegionsFit` | layouts: the footprint is enough for the aligned regions | three regions, a block anywhere in 64 bytes |
| `StreamInOrder` | rng: the stream of the key, across refills and keys | ring of two blocks, 7 words, 2 keys |
| `RollIsFair` | rng: every residue has as many words, and half of the words at least are accepted | seven bounds of 5 bits |
| `LibKeepsItsWord` | byte functions, memmove, allocators | n below, at and above two unrolled turns; 26 bytes, words of eight; 6-bit sizes from none to the largest, 3 blocks |
| `JobsUseTheirOwn` | mcache, dcache, tcache, fseq and fctl jobs | two harnesses in any interleaving, sizes 0 to 3; two fseqs, six calls; seven fctl calls |
| `ExitCodeTells` | verify.py | three lines of every kind, two places; the command ends with 0, 1, 2 or a signal |
| `HandshakeInBounds` | TLS stubs | records and replies of three units |

Why the bounds suffice.  Two lines are enough for a line to be overwritten once
and twice within four frags, and for a frag to be rewritten while its neighbour
is read; three fields allow a copy with a new, an old and a missing field.
Consumers do not write shared memory and so do not see each other: one is as
good as many (the proofs are for any number).  Four lines with interleave 2
are the smallest on which the rotation of the index is not the identity, and
nine frags fill them twice.  `PollMax` 2 has a last poll and one before it.  For
fctl, two receivers with different `cr_max` and different speed make the minimum
and its order matter; three credits are more than the smaller `cr_max`, so the
transmitter must refill in between.  In the link four frags go twice around
the mcache and once around the payload slots, so lines and slots are reused at
different times.  Three threads are one that is inside, one between its read
and its swap, and one that arrives.  In each of the sequential programs the
bound is the smallest at which the case in its comment happens: a probe that
wraps, a subpod next to another pair, a refill that meets the reader, an
overlap with both single bytes and words.  `MaxPub`, `MaxSend` and the constants
marked BOUND are the only bounds; they appear in guards.

The abstract arithmetic keeps the ratios that matter: an rng word is 5 bits with
bounds next to 2^4 and 2^5, `size_t` is 6 bits, and the largest size is one that
wraps when it is rounded up.  A pod's memory ends with its blocks: where the code
reads on behind them because a size was read wrong, it finds zeros; no property
speaks of what it finds there.

Fairness.  `ConsumerFairness`: a run loop that spins does not stop; nothing else
is needed for a consumer that goes on from what it found, and the producer may
stop for ever, even in a publish.  One that keeps recovering from `seq[0]` needs
`ProducerFairness` as well - the producer finishes a publish and does its
housekeeping, as `fd_mcache_seq_update`'s comment asks - so `CatchUp` has that as
the condition for such consumers.  For fctl, `Fairness`: the
transmitter does its housekeeping and every receiver keeps receiving and
returning credits, which `fd_fctl_tx_cr_update`'s comment states as its
assumption.  A receiver that crashes again and again before it returns credits
does hold everybody up, and so do thresholds that do not keep the credits
flowing: `ResumesIfFlowing` says so, and `AllDelivered` says it of the link
(delivered, or crashes for ever).  In the link, `Return` is strongly fair: a
consumer does its housekeeping every so many polls, between two of them, so it
is not always there but comes back there.  `Turnstile` and `Once` have weak
fairness for each thread's steps: the comments ask that what is inside ends.
That is not enough for a blocked thread to get in a turnstile (another may
always be faster), so `SomebodyGetsIn` only promises that somebody does.
`Tcache` has weak fairness for the steps of a call under way.

Deadlock is checked in every run: where a program may end there is an action
for it (`Done`, or a stutter at the bound).

## Where the code and its comments disagree

With a run:

- `mcache_poll_one`.  `FD_MCACHE_WAIT` decrements `poll_max` on every poll, a
  successful one included (`fd_mcache.h:601`), and 0 means time out.  With
  `poll_max` 1, "positive on input" (414-417), no frag is ever received.  In
  general a wait makes `poll_max - 1` polls that can succeed.
- `fctl_low_refill`.  The struct's comment (`fd_fctl.h:60`) and the configuration
  harness allow `cr_refill < cr_burst`; the transmitter then stops for good with
  credits in between.  The comment of `fd_fctl_cfg_done` (218-221) has the range
  that works.
- `fctl_high_resume`.  `cr_max` and `cr_resume` may be above a receiver's own `cr_max`
  (203-215); then no query ever resumes.
- `svw_forward`.  `fd_ulong_svw_dec_sz` (`fd_bits.h:863`) looks the size up by the upper
  half of the first byte, with the table that `dec_tail_sz` has for the last one;
  the table in its comment goes by the lower half, where the encoders put the
  suffix.  What it finds are bits of the number, right for all numbers below 64
  and else by chance (`Legible` says for which).  `util_fd_bits_svw_harness.c:25` of
  `jobs/util/` asserts that the size is right for every `ulong`; 64 is one for which
  it is not.  Everything that reads forwards - `fd_ulong_svw_dec`, and with it every
  pod - depends on it.  `ReadsBack` has the numbers that are read right and
  `HoldsItsPairs` says what of a pod holds anyway, and what holds while the sizes in
  it are told.

Met while modelling.  The models follow the code; the inputs of a run avoid
the case where a property would otherwise fail for it, or the property says
what the code does:

- `fd_tcache.h:432`.  A removed tag keeps its ring slot.  Inserted again when that
  slot is the oldest, it is put in the map and evicted by the same call, which
  still says "not a duplicate, inserted" (379-382).  `DedupCache` states this, so
  `ImplementsDedupCache` does not rule this eviction out, only every other.
- `fd_pod.h:346-347`.  Under `__SEAHORN__` the iterator constructor goes on after it
  has found a NULL pod, which the comment (341) allows, and reads it.
- `jobs/util/util_fd_pod_iter`, line 51 asserts that an iteration shows at least
  one pair: not so for an empty pod.
- `fd_mcache_private.h:85`.  The way back from a join to its header is the header
  joined last; with two joined, `leave` and the accessors answer for the other
  one.  `JobsUseTheirOwn` promises a cache its own answers until another of its
  kind is joined, and its deletion if none is joined at once with it.
- `stubs/tango/fseq_override.c`.  All fseqs are one word, and a leave always returns
  the region allocated first; `JobsUseTheirOwn` promises a region its number until
  another one stores.  `fd_fseq_seq0` (`fd_fseq.h:92`) reads the word before it, which
  in this build lies outside the block.
- `fd_fctl.h:27`.  `FD_FCTL_FOOTPRINT(rx_max)` does not use `rx_max`; in the SeaHorn
  build the array is a block of its own (`fctl_override.c:30`), elsewhere it has
  no room.
- `stubs/tango/tcache_override.c:16`.  The footprint is computed from the given
  `map_cnt`: 0, the default, is not replaced first, and no combination is refused.
  A harness may draw 0; the tcache then says that it has the default number of
  slots, its block has none, and the harness' assertion that it has those asked
  for fails.  `JobsUseTheirOwn` excepts such a tcache (`NoMap`).
- `lib/bcmp.c:28`.  `bcmp` of a null pointer and another says different even for no
  bytes; the comment (13-15) says "in particular if n is zero, bcmp() returns 0".
  `:193`: `memchr` reads through a pointer that is never set, and answers for the
  string only if it happens to point there.  `:115`: `memmove` moves `unsigned long`s
  four bytes apart; where a long has eight, as in the 64-bit build that the
  headers need, it writes four bytes behind the destination, and moving upwards
  by less than four bytes it reads what it has written.  `LibKeepsItsWord` says
  all this.
- `lib/sea_allocators.c:20` and `:30`.  Rounding up wraps at the top of `size_t`: the
  block is empty, and havocked past its end but in the klee build (`Wraps`).  `:37`:
  the bytes of a failed allocation are havocked.
- `lib/sea_allocators.c:77`.  `realloc` frees before it allocates and does not keep
  the content.  `lib/proof_allocators.c:20`: `bounded_malloc_havoc(0)` is NULL, where
  the header promises a pointer.
- `verify.py.in:217`.  The patterns for no task and for a passed place also set
  `found_expected`: a command that never prints what `--expect` names is reported
  as ok.  `:225`: errors and vacuity only count with `--vac`; else a failed assertion
  is not told, although the docstring (3-7) has 2 for "error reported to stderr".
  `:232`: a command that fails has its code passed on, 1 and 2 included, which
  then do not mean what the docstring says.  `:186`: without `--expect` the exit
  code is 0 whatever the command did.  `ExitCodeTells` states what is left: 0
  can be relied on, and with `--vac` 2 is never missing.  `:157` names a file that
  no rule in the repository makes.
- `stubs/waltz/fd_tls_helper.c:48`.  `sz` is read uninitialised (a free value under
  SeaHorn, and that is how it is modelled).
- `stubs/waltz/fd_tls_proto_override.c:155`.  The certificate stub never finds a
  key, so what the harnesses assert about later states is never reached
  (`NeverPastCert`).

## What is proved

With TLAPS, for all values of the constants that `McacheAssumption`,
`FctlAssumption`, `LinkAssumption`, `UtilBaseAssumption`, `TcacheAssumption`,
`CodecsAssumption` and `ProgramsAssumption` allow.  The real constants satisfy them,
except where it says so below: any power-of-two
depth that is a multiple of the block, any interleaving, 64-bit words, any
number of consumers, receivers, threads, blocks, lines and calls.  What they
exclude, and why:

- A behaviour publishes (sends) fewer than about 2^63 frags: differences of
  sequence numbers beyond that mean nothing to the code.
- In the link the application keeps to the comments: a receiver's `cr_max` is at
  most the depth of the mcache, and the payload buffer has more slots than the
  mcache has lines.
- Blocks that run once are nested without a cycle: a block that waits for itself
  is its user's mistake.
- A tcache has a depth of a `ulong` (of any width, `UlongBits`) and a map of a power
  of two slots, two more than the depth at least (or the default size, if there
  is one), as the comments of `fd_tcache.h` ask.
- A `size_t` has four bits at least, an `unsigned long` of `memmove` four or eight
  bytes, and there is memory behind its two blocks for what the longer ones
  reach over.  A command ends with one of the codes that an exit status or a
  signal gives, -64 to 255.  `BitAnd`, which `CacheJobs` takes as a constant,
  gives no more than its second argument.
- Integers of a stream have 64 bits, words one of the five widths of `fd_bits.h`,
  alignments are powers of two in the address space, as the code has them.
- The max of a pod is a size that the first byte tells (see `svw_forward`): with
  another one the code does not find any field of the header.  This is the one
  assumption that code which uses pods may well not meet.  The sizes and
  integers inside a pod are any; the properties say which of them are needed for
  what.  A pod is no smaller than its header, and a key is one byte.
- `PowersOfTwo` (of `ChachaRng` and `Scratch`) and `Powers` (of `Bits`) are arithmetic and
  no restriction: that 2^(k+1) is twice 2^k, which the provers do not know, and
  TLC evaluates.

Each theorem is proved from an inductive invariant, as the properties say
little about what makes them true.

**Mcache** (`Mcache_proofs`): `TypeOK`, `ReceivedIntact`, `NeverAhead`,
`FoundIsLowerBound`, `SeqNeverMovesBack`, `QueryTellsWhere`, `AvxMetaIsFound` and, for
consumers that go on from what they found, `ImplementsFragStream`.  None but the
first is inductive.  `IInv` adds: where everybody is (`Bounds`); that a line which
claims a frag of its own holds it in every field and that a line under way
carries its mark (`LinesIntact`); and that the fields copied so far are those of
the frag found, *unless the line's seq has changed since* (`CopiesIntact`).  The
last is the heart of the protocol: seq words of a line only grow, so if
`seq_test` equals `seq_found` nothing was rewritten in between.  That a mark
`seq - 1` is no frag of its line needs neighbouring sequence numbers to be on
different lines, which is proved for every interleaving (`LineIdxInjective`, from
the uniqueness of quotient and remainder in `ModularLemmas`).  For the last three
`IInv` is not enough: it does not say which frag is *in* a line, only that what is
there is whole.  `RInv` adds `LinesInTurn` (each line holds the last frag published
to it, or is being rewritten), from which a query tells what is held, to come
and gone; `FoundLater` (what an overrun found is later than what was expected), so
that going on from it is a skip forwards; and `Variants` (who uses AVX).

**Fctl** (`Fctl_proofs`): `TypeOK`, `CreditsAreReal`, `QueryIsLowerBound`,
`ReliableNotOverrun`, `RefillAttributed`, and `RxCreditsNoOverflow`, which is the
overflow argument of the comment at `fd_fctl.h:334-371`, for any two sequence
numbers.  `IInv` adds `Positions` (a receiver returns no more than it has
processed; differences are in the range where they mean something) and
`QueryCovers` (no credits without a query that covered every receiver there from
the start).  The step that matters is that credits computed from a receiver are
monotone in its position (`RxCreditsMonotone`), so a minimum over positions read
at different times is still a lower bound.

**Link** (`Link_proofs`): `KeptForReceivers`, `PayloadIntact` and
`ImplementsReliableStream`.  Every step of the link is a step of `Mcache` or leaves it
alone, and the same of `Fctl`, so the invariants `RInv` and `IInv` come from the
proofs about them (`MP`, `FP`: the proof modules instantiated as the link
instantiates the models, whose assumptions follow from `LinkAssumption`).  What ties
them together is new: a receiver starts over where it has been (`ReturnsPassed`);
a frag is taken on with credits and published after its payload (`CreditsFirst`);
the buffer holds the payloads of the last frags, one fewer than it has slots
(`PayloadsKept`); and what a consumer has read is the payload of its frag *or the
line has been taken for another one* (`PayloadsRead`), which is why the second
look at the line covers the payload too.  A reliable consumer is never late
(`NeverLate`): credits put the producer less than the depth ahead of what was
returned, so what it looks for is still in its line after any number of crashes.

**Utility base** (`UtilBase_proofs`).  *Turnstile*: `OneInside` (the word is 1 exactly
while a thread is inside) and `NoLostUpdate`, which is about shared memory and
not inductive: what the thread inside has loaded is still what is there.  *Once*:
`AtMostOnce` and `NobodyPassesEarly`, for any blocks nested in any way.  The
invariant relates the words, the history of what began and ended, and the
threads' stacks: a block is in the running state exactly while one thread has it
on its stack (`OnceWords`, `ThreadWords`), a stack is a path of nested blocks
(`Sound`), and its levels fall (`Deepens`), so no block is twice on a stack and a
thread never waits for itself.  *Xchg*: `TokensConserved`, for the instruction, the
emulation and a mix of the two: that the word may have changed and come back
between load and swap does no harm, as the swap takes the token that is there.

**Tcache** (`Tcache_proofs`): `TypeOK`, `ProbeIsRight`, `RoomLeft` and
`ImplementsDedupCache`.  The invariant says that from where a tag's probe starts
there is no empty slot before the tag (`Unbroken`); while a hole is being closed
the hole may be in the way, but only of tags that the loop has not come to yet
(`StillToClose`); a probe under way has passed neither an empty slot nor its tag
(`Probing`); no tag is twice in the map (`Distinct`); what the map has is in the
ring, but for the tag being evicted (`InStep`); the empty places of the ring are
the oldest (`FilledInOrder`); and a clean shutdown saves `oldest` (`Saved`).  Distances
go around the map, so each comparison of `fd_tcache_remove` is matched with the
order of three slots on a circle.  A slot that is free follows by counting
(`RoomLeft`).  `DefaultLeavesRoom`: for every depth of a `ulong`,
`fd_tcache_map_cnt_default` is 0 just for 0 and for the depths whose map would not
fit (from 2^62 - 1 on, with 64 bits), and else a power of two that leaves two slots
free and keeps the bounds of its comment, 2(depth+1) < map_cnt <= 4(depth+1).

**Codecs** (`Codecs_proofs`).  *Streams*: `ReadsBack`.  The invariant says that integers
lie one behind the other (`StreamLaidOut`), that their bytes hold their code, tag
and value, bit by bit (`StreamHolds`), and that the reader stands at the end of the
last integer that it has not read (`ReaderInPlace`).  From that: a write of one code
touches no other, the last byte's tag tells the size (`TailTells`), and the bits of
what is decoded are those that were encoded (`DecReads`), for each of the seven
sizes.  Forwards, the bits that the size is looked up by are those of the number,
and comparing them with the table gives `Legible` (`FirstTells`).
*Layouts*: `RegionsFit`.  The invariant keeps the offsets that the layout gave
(`LaidOut`), within what the caller promised (`WithinPromise`); a region handed out
is at its offset, moved by the block's base (`HandedOut`), since rounding up to an
alignment commutes with moving by a multiple of a larger one (`NextMultShift`,
`AlignmentsDivide`).  *Bits*: `ArithmeticIsRight`, for every word of each width.  A word
and its number are two views of the same thing (`BitOfNum`, `WordIs`): the number
is determined by its bits, so what a shift, a mask or a complement does to the
set is a quotient, a remainder or a difference of the number (`NumShr`, `NumLow`,
`NumNot`), and the sign bits of a signed number go on above the word
(`BitOfSigned`).  `x - 1` borrows from the lowest bit (`PopLsbIs`), smearing doubles its
reach each time (`SpreadOn`), a rotation is a turn of the positions (`RotIs`).
*Pods*: `HoldsItsPairs`.  A pod is found by walking over sizes that are themselves
decoded from memory, so the invariant says where things are first, whether the code would
find them or not: pairs lie
one behind the other (`Places`), each with its head and val in its bytes
(`PairAt`), behind a header that has max, used and count (`HeaderAt`).  From that,
where the first bytes tell all sizes (`AllTell`), the walk ends up where the pairs are
(`CursorsAre`), and a query finds the pair or none (`FindIs`).  An insert writes the header and what is behind the last pair
(`AllocWritten`, `PodGrown`); nothing fits a subpod into a subpod (`NoSubSubpod`), so the
pods but the outermost are vals of it (`Nested`), no two share a byte
(`SubpodsApart`), and what is written in one is no part of any other (`RootKept`,
`LocalKeeps`).  An iterator has shown the pairs in front of its cursor (`IterOk`).

**Programs** (`Programs_proofs`), an invariant for each:

- `StreamInOrder`.  The words between the read and the fill offset are in the ring
  at their places (`RngInv`), and no two words of a refill are put in the same one.
- `RollIsFair`.  The words that a roll accepts are those below `Zone + 1`, a multiple
  of the bound that is half of all words at least; a residue's words are counted
  as intervals of accepted words, the same number for each.
- `LibKeepsItsWord`.  No byte before the index decides a comparison (`BytesInv`);
  what `memmove` still has to read has not been written, whichever way it
  copies and whatever the rest of the length, if it goes far enough for its
  words (`MoveInv`); the pointers held are those of the live blocks, and each is
  as large as was asked for or wrapped (`AllocInv`).
- `JobsUseTheirOwn`.  A joined cache that no other of its kind was joined after is
  the one its global pointer names (`Finds`), what was formatted stays as it was
  while its harness is alone (`Whole`), and an assertion only ever failed for a
  cache overtaken or without a map (`FailuresExcused`), all in `CachesInv`; the
  word that fseqs share is the number of the region that stored last (`FseqInv`);
  the receivers of a fctl are those added, in order (`CfgInv`).
- `ExitCodeTells`.  The flags are the summary of the lines read so far (`VerifyInv`),
  whatever the command ends with.
- `HandshakeInBounds`.  Views handed out lie in the record (`TlsInv`).

Only model-checked:

- All liveness (`CatchUp`, `ResumesIfFlowing`, `AllDelivered`, `CallsReturn`,
  `EveryoneGetsThrough`, `NonBlockingReturns`, `SomebodyGetsIn`): the provers have no
  rules for fairness and `ENABLED`.
- The behaviours of `Mcache` that recover from `seq[0]` are not proved to implement
  `FragStream`: going backwards is not a step of it.  Their safety is proved.

## Not modelled

- The crash of a producer in the middle of a publish followed by a restart: the
  comments promise a restart after a clean shutdown only, so there is nothing
  to hold it to (the hazard is listed, without a property).
- `fd_bits.h`: the float variants, `fd_swap`, the integer hashes, byte swaps and find
  functions that are compiler built-ins, and spellings of the same mask for
  compile time.
- `fd_pod.h`: remove, resize, compact and list (declared, not in the repository),
  paths of more than one key, and the NULL pod, on which the code is undefined.
- `fd_tcache.h`: the variants of `map_start` and `map_next` that return any slot, for
  one of the analysers.
- `fd_util_base.h`: the single-threaded variants of `FD_ONCE` and `FD_TURNSTILE`; the
  rest is types and compiler macros.
- `lib/`: the content of a block that realloc moves, and wrappers of built-ins.
- External, modelled from their comments and use: the TLS handshake,
  `fd_fctl_cfg_rx_add` and `_done`, `fd_fseq_new` and `_delete`, `new` and `delete` of
  the caches, `fd_pod_alloc` and `_query`, the rng's refill.
- The log, errno, ucontext, SHA, AES, ed25519 and strtoul stubs, which return
  arbitrary values to code that is not in the repository; CMake and reporting
  scripts; and what harnesses include from Firedancer itself (txn, QUIC, fibre,
  hash).
