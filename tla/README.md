# TLA+ models of the memory simulator

The repository is CasHMC v1.3 (`src/sources/HMC`), a cycle-accurate simulator of
a Hybrid Memory Cube (HMC), with a small cache front end (`src/sources/cache`)
that uses it as main memory.  Everything runs in one thread: `Update()` of the
top object calls `Update()` of the objects below it in a fixed order, once per
clock cycle.  What is concurrent is the modelled hardware: every object keeps
buffers, counters and states that other objects change between two of its own
steps, and a packet, its acknowledgement, its tokens and its DRAM commands are
spread over many of them at a time.

## 1. Inventory

### Link layer: `LinkMaster`, `Link`, `LinkSlave`, `SingleVectorObject.h`
- *State.* Master: `Buffers` (one entry per FLIT; a packet of LNG FLITs is a
  pointer and LNG-1 NULL "virtual tails"), `linkRxTx`, the retry ring
  `retryBuffers` with its read and write pointer, `backupBuffers`,
  `tokenCount`, CRC counter, `currentState`, retry timer and attempts,
  `lastestRRP`. Slave: `Buffers`, `linkRxTx`, `slaveSEQ`, `countIRTRY`. Link: the
  packet in flight and its countdown.
- *Operations.* Submit by the upper layer (`Receive`), `LinkMaster::Update`
  (send, UpdateField, retry timer, LinkRetry end), `Link::Update`,
  `LinkSlave::Update` (check, accept, abort, hand out), and the member functions
  the slave calls on the master beside it: UpdateRetryPointer,
  ReturnRetryPointer, UpdateToken, ReturnTocken, StartRetry, LinkRetry,
  FinishRetry.
- *Interaction.* RRP, FRP, SEQ and RTC ride on the packets of the opposite
  direction; TRET, PRET and IRTRY packets are made when there is no carrier.
- *Hard.* Retry sequences of both directions at once, a ring whose two
  pointers are moved by different parties, index arithmetic on buffers with
  virtual tails, flow control that must not lose a token over a retry.
- *Correct if* packets come out once, and in order on a good link; a packet is
  kept until it is accepted; no token is lost or invented; the ring and the
  buffers are never cut inside a packet; no ERROR branch (each ends in
  `exit(0)`) is reached; nothing waits for ever.

### Clocks: `CasHMCWrapper::Update`, `HMC::Update`
- *State.* For the links of each direction and for the cube two counters, the CPU
  cycles and the updates since that clock last met the CPU clock.
- *Operations.* In each CPU cycle the calls of the objects in a fixed order, the
  links and the cube as often as their periods fit.
- *Hard.* Three ratios of periods, tests that come before or after the update,
  counters that start anew. *Correct if* no clock ever lags or runs ahead.

### Power management of links: the managers of `HMCController`, QUIET and NULL packets of `LinkMaster` and `LinkSlave`
- *State.* `currentState` of masters and slaves (ACTIVE, WAIT, CONFIRM, SLEEP, DOWN,
  RETRAIN1, RETRAIN2 and the transitions between them), per-link timers and
  epochs, `sleepLink`, `returnTransCnt`. *Operations.* LinkPowerStateManager (how
  many links an epoch may spare), LinkPowerEntryManager (sends links to sleep by
  the QUIET handshake), LinkPowerExitManager (wakes them, retraining with NULL
  packets). *Hard.* The two ends fall asleep with packets, tokens and
  acknowledgements under way; QUIET overtakes NULL; links are woken while others
  fall asleep. *Correct if* both ends agree, every handshake ends, no request
  waits for a link that sleeps, and a request is always answered.

### `HMCController`
- *State.* Transaction buffer `downBuffers`, link priority `inServiceLink`, response
  buffer `upBuffers`, `returnTransCnt`. *Operations.* `ReceiveTran`, and `Update`:
  dependency check against packets waiting in the masters, packetizing
  (ConvTranIntoPacket), link choice, return of responses, the three managers.
  *Hard.* A dependent request goes to the link of its predecessor whatever that
  link's state is; the count of expected responses leaves those requests out.
  *Correct if* every transaction is answered once, and accesses to one block stay
  behind each other.

### `CrossbarSwitch`
- *State.* Input buffers, segment buffers. *Operations.* Routing down by vault
  address, up by link; cutting packets longer than ADDRESS_MAPPING into segments
  and merging the segments' responses. *Correct if* one response per request, no
  segment lost or duplicated, no deadlock on full buffers.

### Vault: `VaultController`, `CommandQueue`, `DRAM`, `BankState`, `DRAMCommand`
- *State.* Packet buffers, reservation counter `pendingDataSize`,
  `pendingReadData`, atomic in operation, command and data bus; command queues,
  atomic locks, row access counters, tFAW window; bank states and their timing.
- *Operations.* `VaultController::Update` (which runs the countdowns, converts
  packets, sends a response, pops a command, executes an atomic, decides on
  power-down) and `DRAM::Update`.
- *Hard.* A command is checked in one object and takes effect cycles later in
  another; refresh, atomics, row hits and power-down interfere; two page
  policies and two queue structures.
- *Correct if* each request is answered once and in the end; conflicting accesses
  keep their order; responses fit; buses never collide; banks are only given
  commands they can take; refresh happens and is not cut short.

### Cache front end: `cache.cpp`, `CacheBank.h`, `block_requests.h`, `TagArray.h`, ...
- *State.* Per bank: a table with an entry for each block that has requests
  outstanding (eight states), tag and data array with ages, queues of blocks for
  tag check, data access and eviction, two delays. *Operations.* read, write, wait
  and update; per bank process_request, do_tag_check, do_data_access,
  check_hmc_resp. *Hard.* One block can wait in two queues and in the memory at
  once; a way changes hands before its line is written back; the memory's buffer
  may refuse; an entry is written to after it was erased. *Correct if* each request
  is reported once and in the end, dirty lines reach memory under their own
  address, and no state meets an event it has no case for (`while (1)`).

### No control of their own
Transactions and traces (value records), configuration (globals read once, the
CONSTANTS of the models), `RunSim` (driver), logs and statistics,
`cache/Cache.cpp` and `cache/CacheBank.cpp` (superseded, not built).

## 2. Modules

| module | models | extends |
|---|---|---|
| `PacketChannel` | abstract: a lossless two-way channel | |
| `LinkLayer` | one link, both directions, free interleaving of the Update calls | |
| `LinkCycle` | the same actions in the order and with the clocks of `CasHMCWrapper::Update` | `LinkLayer` |
| `LinkProofs` | theorems on `LinkLayer` and `LinkCycle` | `LinkCycle` |
| `LinkPower` | the two ends of one link as they fall asleep and wake up | |
| `HostController` | `HMCController::Update` with its power managers and both link priority schemes, between abstract links and an abstract cube | |
| `MemoryService` | abstract: every request is answered once, and in the end | |
| `Crossbar` | `CrossbarSwitch` between buffers of vaults and link masters | `Loops` |
| `DramBanks` | `DRAM`, `BankState` | |
| `CommandQueue` | `CommandQueue` | `DramBanks` |
| `Vault` | `VaultController` and one vault's `Update` cycle | `CommandQueue` |
| `Cache` | cache, banks, block table, tag array and delays, over an abstract memory | |
| `Loops`, `LoopProofs` | a `for` loop as an operator, and the rule by which loops are proved | |
| `QueueProofs` | theorems on sequences, sums and counts used by the four below | `Loops` |
| `CrossbarProofs`, `HostProofs`, `CacheProofs`, `VaultProofs` | theorems | `Crossbar`, `HostController`, `Cache`, `Vault` |
| `VaultResponseProofs` | theorems on the vault's response buffer | `VaultProofs` |
| `MC...` | workloads and timings for TLC | the module of that name |

How they fit together.  What a module takes for granted of its neighbours is what
the neighbours' own modules show: `LinkLayer` implements `PacketChannel`; `Crossbar`,
`Vault` and `HostController` implement `MemoryService` (HostController its safety,
its liveness being RequestsLeave and AnswersReturn); `HostController` takes the
handshake of a link as one step, which `LinkPower` details; `Cache` assumes that
the memory answers.

A C++ object is a record with the names of its fields; a member function is an
operator from the record before the call to the record after it; an `Update()`
is one action that applies these operators in the order of the code.  In the
link layer `lm[e]` and `ls[e]` are the master and the slave at end `e` ("host" or
"cube") and `wire[e]` is the link that leaves it.  In the vault one record `s`
holds the fields of the three objects that read and write each other's fields.
An `exit(0)` sets `fault`, after which no action is possible.

Abstractions.  Data, addresses beyond bank and row, latency records and printing
are left out.  A packet is the number of its submission; its CRC is the fact
that it is good or bad.  A DRAM timing field (`nextRead` ...) is an absolute
clock that is only compared with the present one: it is modelled as the cycles
left.  The crossbar at the vault, and the upper layers at the link, may submit
anything that fits at any time, and accept or refuse anything.

In `Crossbar` the fields of CrossbarSwitch are the variables of the same names; the
two `for` loops of its `Update()` are `DownLoop` and `UpLoop`, whose `at` is the
loop index; `Loop` repeats their body a number of times that is always enough, and
once `at` is past the end of the buffer nothing more changes; `vault[v]` and `link[l]` are the buffers of the objects it calls.  An
address is a block number and a size is counted in FLITs of data.  A link that
is not in `AlwaysAwake` may be found asleep at any call, which stands for all the
power management may do to it.  With BUFFER_AWARE the code also counts the FLITs in
`linkRxTx` (`LinkMaster.cpp:590-595`): any number is tried for each link (`Standby`).

In `LinkCycle` the variable `turn` is the position in the order of calls and `tuner`
holds the pairs of counters (`downLinkTuner` and `downLinkClock`, and so on).
Periods are integers, multiples of a unit of time; the code has doubles, whose
rounding is left out.

In `HostController` the record `h` holds the fields of the controller and, of each
link master, `Buffers` and `currentState`; the operators `Downstream`, `Upstream`,
`LinkPowerStateManager`, `LinkPowerEntryManager` and `LinkPowerExitManager` are the parts
of `Update()` in its order.  A timer may be found run out at any Update, except
the one in which it is set.  The traffic measured in an epoch is any.  A response
that comes in gives its tokens back: in the first waiting packet, or in TRETs that
ReturnTocken puts into `Buffers` (in front, or behind a packet that lacks tokens or is
under CRC) without a look at its limit (`Trets`).

In `LinkPower` the variables are the masters `lm[e]` and slaves `ls[e]`, of which only
what the condition for sleep reads is kept: buffers, packets not acknowledged,
tokens out.  `turn` makes the slaves of the two ends take turns, as the order of the
code does; a slave sees `link.flits` packets between two of its updates.

In `Cache` the record `c` is the object cache with its banks; `BankUpdate` is
CacheBank::update, whole.  A line's data is the address of the block it belongs to.
An uninitialized state of an entry is any member of `Garbage`.

## 3. Runs

Each passing run exhausts its state space.

| run | question | bounds |
|---|---|---|
| `link_shipped` | framing, ring discipline, token conservation; an error-free link is a FIFO channel (`PacketChannel`) | the shipped clocks (units of 0.04 ns: CPU 25, link 2, cube 20), FLIT time 32 and CRC delay 1; two packets (2 and 1 FLITs) one way and one the other, ring of 4 slots that wraps, one refusal |
| `link_error` | one damaged packet, either direction, any moment: nothing lost, everything delivered and acknowledged, in the order of the code | ring of 6, tokens for one packet only, one refusal by the upper layer; periods CPU 3, link 2, cube 2 |
| `link_two_errors` | what holds when two retry sequences overlap; the clocks stay in step | ring of 8; periods CPU 3, link 2, cube 4 |
| `link_power` | both ends agree on sleep and wake; every QUIET is answered, every retraining ends | the shipped link: 1 FLIT at most between two updates (a FLIT takes 2.56 ns), 32 NULL packets; one request under way at a time but any number of sleeps, two interruptions by another link's transition to down mode |
| `host` | requests of one block stay together, none waits for a sleeping link, the counter of responses drifts by exactly the dependent requests, `MemoryService` safety, requests leave and answers return | 2 links, 2 transactions out of reads of two blocks and a posted write, buffers of 2, counter modulo 4, policies none, quiesce-sleep and epochs, both link priority schemes with any number of FLITs in `linkRxTx`, every timer at any time |
| `crossbar` | segments are conserved, buffers framed, responses whole, implements `MemoryService` | 2 vaults, 2 links of which one may sleep at any time, both link priority schemes, 3 requests of 1, 1.5 and 2 blocks, buffers for one long packet each |
| `vault_open` | the shipped policies: open page, a queue per bank, power-down: commands suit banks, responses fit, atomics exclusive, no exit; implements `MemoryService`, refreshes happen | 2 banks, 2 requests of 7 kinds (row conflicts, all atomics) at any cycle of a refresh period, one refusal |
| `vault_close` | close page, power-down: implements `MemoryService`, refreshes happen | 2 requests of 6 kinds, without EQ |
| `cache` | one fill per block, write-backs hold the victim, no request reported twice, no `while (1)`; a request that has joined an entry when its line comes, by a fill that was not refused, is reported | 2 banks of 2 rows and 1 way; 3 requests to 4 blocks, three of which want one line; a request buffer of 2 that refuses; delays 1 and 2; `unsigned` numbers to 15, so that the lookup by address (`block_requests.h:206`) finds the transaction of another request |

Three runs expect a violation, each of what a comment says of the code.

| run | property violated | constants |
|---|---|---|
| `link_stale_rrp` | NothingLost | one damaged packet, packets of 1, 2 and 4 FLITs |
| `link_power_wide` | SleepIsShared | full width at 30 Gb/s: 4 FLITs between two updates; 12 NULL packets, which find it sooner than the 32 of the code, with which it is violated too |
| `cache_entry` | EntryRemoved | as `cache` |

Further configurations, to be run by hand (`tlc -config link_wide.cfg MCLinkCycle`). TLC
finds the property of each violated within seconds, except in the last, which
passes; they belong to none of the runs above.

| configuration | property | constants |
|---|---|---|
| `link_backup.cfg` | BackupReturns | as `link_two_errors` |
| `link_half_ring.cfg` | AcksReturn | no error; packets of half a ring, periods 2, 1, 2 |
| `link_wide.cfg` | RetryOnlyAfterNoise | no error; as `link_shipped` at full width (FLIT time 8), packets of 5 and 1 FLITs |
| `host_response_path.cfg` | ResponsePath | as `host` |
| `vault_close_eq.cfg` | RefreshHappens | close page, one EQ request |
| `vault_row_limit.cfg` | ServiceLive | open page, MAX_ROW_ACCESSES 3, four reads of two accesses each of one row |
| `vault_long_burst.cfg` | NoExit | the shipped timings (`MCShipped`) with 256-byte blocks, a read and a write of one row |
| `vault_refresh_cut.cfg` | RefreshCompletes | as `vault_open` |
| `vault_single.cfg` | ServiceLive | open page, one queue for all banks, 3 requests of two banks and one row number, no atomics |

Why the bounds are enough: a ring of 4 slots wraps after two packets and a
buffer of 2 or 4 FLITs is full with one or two; every pointer, counter and timer
reaches its limit in these runs.  The periods make a clock meet the CPU clock
after 2 and after 4 CPU cycles, in the middle of retry sequences, and take all
three branches of the scheduling (faster link, faster and slower cube).  A refresh
period of 14 to 30 cycles with tRFC of 8 lets requests arrive before, during and
after a refresh; the vault's responses (3 and 5 FLITs) fill an upstream buffer of
6.  `MCShort` keeps the proportions of the shipped timings.  The refresh countdown
starts at REFRESH_PERIOD, as that of the last vault does (`HMC.cpp:39`).  `MaxPending`
only bounds a count that leaks (see below); it is above every value that a check
of the code compares.  In `host` two transactions are what a dependency needs, and
either may be answered, or its link asleep, before the other comes.  In `cache` three
blocks that compete for a line make two evictions of it, and a fourth in another
bank competes for the request buffer.

The link runs go through `LinkCycle`, the order of the code; the free interleavings of
`LinkLayer` are the subject of the proofs, and TokensConserved, which is not proved, is
checked in the code's order only.  `TokensConserved` and the order of packets are claimed
without noise.

A run checks what its module is for.  `TypeOK` of `Vault`, `Crossbar`, `HostController`,
`LinkPower` and `Cache` holds in their runs too, and is not repeated there.

Fairness.  `CFairSpec` and the `FairSpec` of `Vault` and `Crossbar` say only that the
simulator goes on to its next call: weak fairness of that call, which is what the
loop around `CasHMCWrapper::Update` does.  No fairness is asked of arrivals.
Refusals by a destination and noise are bounded, not fair.
`HostController`: the updates go on, timers run out again and again (each is set by
a change of state or by traffic only), a link that is awake sends, settles and
ends its handshakes (ChannelLive and the properties of `LinkPower`), and the cube
answers while a link takes the answer (ServiceLive of `Crossbar`).  A `linkRxTx` that
is full in every call would keep BUFFER_AWARE from ever choosing a link; again and
again all of them are empty, since while no transaction leaves, the links run dry.
The same is assumed of `Crossbar`, with an update that finds every link awake and empty.
`LinkPower`: the slaves update in turns, the masters send, and the transition timer
of a link that wakes runs out.  A transition to sleep takes longer than the NULL
packets of the shipped link need to arrive (400 ns against 32 packets of 2.6 ns): action `FallAsleep`
and others wait for `Flushed`.
`Cache`: `wait()` calls update, and the memory sends what it accepted and answers
what it was sent.

### Where the code disagrees

Each of the first eleven is shown by the run or configuration of that name:

- `link_stale_rrp`: IRTRY packets with the newest RRP overtake older RRPs; the older one
  drives the read pointer round the ring and deletes an unaccepted packet
  (`LinkMaster.cpp:185`, against the comment at line 66).
- `link_backup`: FinishRetry, called for an IRTRY of the other direction, leaves
  LINK_RETRY while packets are set aside (`LinkMaster.cpp:270`, against line 326); they
  stay in `backupBuffers`.
- `link_half_ring`: without any error both ends keep the RRP the other waits for in a
  packet they cannot send (`LinkMaster.cpp:90`, against line 84).
- `link_wide`: the slave's loop does not stop at a packet whose CRC is being
  calculated (`LinkSlave.cpp:178`).  When a fast link delivers two packets between two
  updates, the second is checked first, has the wrong SEQ, and an error-free link is
  asked for a retry (against `LinkMaster.cpp:166`); once SEQ stays the same (below) it
  is accepted out of order.
- `link_power_wide`: the slave's loop passes over the packet behind an erased NULL
  (`LinkSlave.cpp:115`), so QUIET overtakes NULL packets, and these make the cube's end
  ACTIVE in its sleep (against line 235); a later wake-up does not end (`RetrainingEnds` is
  violated too).  A full-width link at 30 Gb/s brings 3.75 FLITs in a CPU cycle, and 4
  between two updates suffice with 11 NULL packets or more; with 3, one
  interruption by another link does.  The model lets a master send QUIET as soon as
  it is ACTIVE, which the shipped times allow: tOP, counted from RETRAIN1, is not longer
  than the retraining (`HMCController.cpp:667`, `ConfigSim.ini:83-89`).
- `host_response_path`: under quiesce-sleep two links that are quiet in one cycle both go
  to WAIT with a response outstanding, since the last active link is looked for once
  for all of them (`HMCController.cpp:342-364`, against the comment at 363); a
  dependent request, which is not counted (184-190), lets a single link go too.
- `vault_close_eq`: nothing closes the row an EQ request leaves open under close page, and
  refresh waits for ever (`CommandQueue.cpp:120-176`).
- `vault_row_limit`: the row is closed between the two accesses of a request whose
  ACTIVATE was removed, and there is no answer (`CommandQueue.cpp:367`).
- `vault_long_burst`: the vault exits with 256-byte blocks and the shipped timings: write
  data meets read data on the bus, because the turnaround delay leaves the burst
  length out (`ConfigValue.h:164`).
- `vault_refresh_cut`: power-down while REFRESH is on the command bus; waking then cuts the
  refresh short (`VaultController.cpp:521`, `DRAM.cpp:162`).
- `cache_entry`: the entry erased from the table is made again, with an uninitialized
  state (`CacheBank.h:378`, against the comment at 345).  Such a block is not looked up
  in the tags again.

Further disagreements met while modelling:

- A slow link (FLIT_TIME 4 and equal clocks, ring 4, MAX_LINK_BUF 2, one error): the
  retry timer ignores the link speed (`LinkMaster.cpp:357-358`), and the early
  time-out makes tokens be returned twice, until an ERROR branch is reached.
- After the last attempt of a retry the master gives up: FinishRetry makes it ACTIVE
  with nothing sent again (`LinkMaster.cpp:360-362`).  Sequence numbers stop changing
  after seven packets (`LinkMaster.cpp:418`), so SEQ detects no loss then.
- With equal periods of CPU and link the two counters of the link never start anew
  (`CasHMCWrapper.cpp:335`): the clocks stay in step, the counters grow without bound.
- An error during the QUIET handshake: START_RETRY while a master is in WAIT
  overwrites that state at one end only (`LinkSlave.cpp:235`).
- When one link's transition to down mode is over, every link is set DOWN
  (`HMCController.cpp:430`).
- Under the epoch policies a link in CONFIRM or TRANSITION_TO_SLEEP stays there when
  `sleepLink` drops below it (`HMCController.cpp:677`), until it rises again.
- The loop over the links to send to sleep starts at index 3, for four links
  (`HMCController.cpp:443`): with fewer it reads outside the vector, with more the last
  ones are never chosen.  The model starts at the last link.
- A TRET has address 0: the dependency check (`HMCController.cpp:135`) takes it for a
  packet of block 0, and a request of that block may follow it to the wrong link.
- The conversion loop passes over a packet (`VaultController.cpp:173-182`), so
  conflicting accesses may change order; the crossbar passes over a packet whose
  vault is full (`CrossbarSwitch.cpp:93`), and a shorter one for the same vault may
  overtake it.
- With QUE_PER_BANK FALSE and atomics: the atomic lock is set for `issuedBank`, not for the bank of
  the command (`CommandQueue.cpp:361`), and a refresh and the atomic both wait for ever.
- `pendingReadData` grows with every read (`VaultController.cpp:394`, `463`).
- The cache ignores a refused line fill (`CacheBank.h:254`): its requests wait for ever.
  So does a request that joins an entry after its line came, or one that finds an
  entry made again: it is dropped with the entry, and its `wait()` never returns.
- A tag is cut to 32 bits (`utils.cpp:6`): blocks at and above 2^45 have the tag of a
  lower one.  `TagsFit` says that there are none; HMC addresses have 34 bits.

The passing runs leave these cases out, by their constants or by the property: the
links of `link_shipped` and `link_power` are the shipped one, the ring of `link_error` has
room for three packets and its slave for one, `link_two_errors` does not claim BackupReturns;
`vault_open` and `vault_close` claim that a refresh is issued, not that it completes, `vault_close`
has no EQ, no run has a single queue, and MAX_ROW_ACCESSES is above what their requests
reach; `AnswersReturn` is not claimed for quiesce-sleep, `BlockOnOneLink` and
`NoRequestAsleep` not for block 0, `Served` not for a block whose fill was refused, nor for
a request that joined after the fill.  In `crossbar` there are as many TAGs as requests.
Packets are claimed to stay in order only without noise: one submitted in
LINK_RETRY is sent before those in `backupBuffers`.

## 4. Proofs

`LinkLayer` is proved for all sizes of buffers and ring, all workloads, any
number of damaged packets and every interleaving, from the assumptions
`LinkConstants` and `NullIsNoPacket` (sizes are positive, NULL is no packet).
The invariant is

    IInv == TypeOK /\ \A e \in End : MasterOK(lm[e]) /\ SlaveOK(ls[e])

`MasterOK` says: each buffer is *framed* (a head, its tails, the next head), the
retry ring between its pointers is framed too and empty elsewhere (`RingOK`), a
CRC under way has a packet, and no framing ERROR has happened.  BuffersFramed
alone is not inductive: LinkRetry refills Buffers from the ring, hence RingOK is
needed, and UpdateField writes the ring from Buffers, hence Framed is needed.
- `LinkProofs`, first part: what the operators on framed sequences and on the
  ring do (drop the first packet, join, acknowledge up to a pointer, append), then
  that each member function of LinkMaster preserves MasterOK.
- Second part, from `PairOK` on: the same for LinkSlave, then one lemma per action,
  then `InvariantHolds`, and from it `TypeCorrect`, `BuffersStayFramed`,
  `RingStaysContiguous`, `NoFramingErrorEver`, `CRCAlwaysHasPacket`.
- Third part: `CycleImplementsLayer` (the fixed order is one of the free
  interleavings), so all of this holds in the order of the code; and
  `ClocksStayInStep`, for all periods that `CycleConstants` allows (positive, the link
  not slower than the CPU, which the constructor checks).

The clock theorem needs to know what the counters are in the middle of a CPU
cycle.  Its invariant `CInv` tells three phases of a clock apart by `turn`: while it
waits its counts are right for the cycles before this one, after its updates for
this one too; in between a fast clock is not ahead (`NotAhead`: one more update still
fits), and a slow cube has passed its test.  The step is one lemma per kind of
update (`FastUpdate`, `SlowSkip`, `SlowUpdate`), where the counts that start anew are the
case in which both sides of the comparison become zero.

RingStaysContiguous holds even in the behaviours of `link_stale_rrp`: the ring
loses a packet there, but whole.

### The crossbar

`CrossbarProofs` proves for all capacities of the buffers, all block sizes, numbers of
vaults, links and TAGs, all requests and both link priorities (`CrossbarConstants`,
`NullIsNoPacket`: sizes are positive, NULL is no packet) that

    IInv == Shaped /\ Balanced

is inductive, and from it `CrossbarTypes`, `CrossbarSegments` (SegmentsConserved),
`CrossbarBuffers` (BuffersWhole, the first part of ResponsesWhole), `CrossbarNoFault`
(the ERROR exit at `CrossbarSwitch.cpp:130` is dead code) and `CrossbarService`: each step is a step of
`MemoryService` or stutters, so no request is answered twice or unasked.  It does
not assume that TAGs are distinct: the code collects segments by TAG, and when two
requests under way have the same one their responses may be mixed up, but
still none of these can fail.

`Shaped` says that every buffer consists of whole packets.  Its lemmas are laws of
framed sequences: whole packets joined are whole packets (`JoinBuffers`), cut
anywhere but between a packet and its tails they are too (`CutBuffer`), and a packet
in a buffer stands between two such parts (`TakeOut`), so the offsets with which the
loops erase and insert keep it.

`Balanced` says that the packets are accounted for.  An account is a number for
each set of packets: how many of them are under way (down, in a vault, and up), set
aside in `pendingSegPacket`, or at the links; a step of the code is one packet more
or less in an account, for all sets at once, and what `Books` demands of a few sets
is arithmetic from there:
- a TAG is noted as often as segments with it are under way: SegmentsConserved;
- one response at most is set aside for a TAG, and while a TAG is noted or set aside
  one of its segments still has the trace.  Without this the last segment to come
  back could make a response without a trace: the refinement needs it;
- a packet that is no segment has a trace, and so has every response at a link;
- of each request that was made there is one packet at most with its trace or one
  answer, not both; of a request that was not made there is none.

The two loops of `Update` go through their buffer while they change it; `DownBooks` and
`UpBooks` are the sets of loop states in which the accounts balance, each branch of
the body has a lemma that it stays there (`DivideKeeps`, `SendDownKeeps`, `CollectKeeps`,
`SendUpKeeps`), and the rule of `LoopProofs` does the rest.

### The host controller

`HostProofs` proves, for every number of links, all buffer sizes, every set of power
policies, all workloads and every width of the counter (`HostConstants`), that

    IInv == Now \in Good /\ Around

is inductive, and from it `HostTypes`, `HostBlocks` (BlockOnOneLink), `HostRequests`
(NoRequestAsleep), `HostCount` (CountDrift) and `HostService`: each step of the
controller is a step of `MemoryService` or stutters, so no transaction is
answered twice or unasked.  HostTypes bounds `downBuffers`, `upBuffers` and the FLITs of
requests in a link master; TRETs are inserted without a look at the limit and come
on top.  `Good` is a set of controllers, since the parts of an
`Update()` are operators from a controller to the next one; each part has a lemma
that it stays in the set, with the transactions answered named.  Beyond the
properties it says:
- `OnePlace`: a transaction is in one place, and there once.  CountDrift needs it,
  because the code counts events and the property counts transactions, and so
  does the refinement.
- `LastGoesDown`: while a link goes down as the last one no other is active;
  without it `SleepLink`, which sets all links DOWN at once, could put a link to
  sleep that has just been given a request.

### The cache

`CacheProofs` proves for every geometry, every pair of delays and any number of
requests (`CacheConstants`: sizes are positive, HIT_TIME > MISS_TIME as the two delays
of a bank are set up, and a bank is a whole number of blocks, which are powers
of two in `cache_config.h:5-8`) that the code's own `IInv` is inductive, and from it
`CacheTypes`, `CacheFills` (OneFillPerBlock), `CacheWritesBack` (WriteBackHoldsVictim),
`CacheReports` (ReportedOnce) and `CacheNeverHangs` (NoHang).  Besides `CacheConstants` the
proofs rest on `TagsFit`: no tag is cut.
WriteBackHoldsVictim is far from inductive: the tags are replaced when the way is
taken, the line is read when its turn in `data_access_q` comes and written one turn
later, and other evictions of the same line may be queued in between.  The
invariant therefore speaks of the future.  `Holds` says what a line will hold when
the i-th data access begins; `LinesGood` that after all of them each valid line
holds the block its tag names; `EvictsGood` that the victims in `evict_q` are, in
their order, what the accesses that read will find.  `FillsGood` counts the reads of
a block in the request buffer, in the memory, refused or just handed out: one if
the block waits for its line, else none.

### The vault

`VaultProofs` proves for both page policies, both queue structures, any timing
parameters, sizes and workloads (`DramConstants`, `QueueConstants`, `VaultConstants`:
sizes are positive, an atomic request has 16 bytes, and so one access) that

    VaultInv == Known /\ Sound(s)

is inductive.  A request is cut into an ACTIVATE and a number of accesses, of which
the last one (`last`) makes the response or, for an atomic request, the write-back.
`Sound` says that there is an assignment `at` from requests to places such that:
- `Contents`: what each queue, each bus and the DRAM hold are accesses of requests
  that arrived, of the bank and row of their request, and of a kind it calls for;
- `Labelled`: the last access of request n is at `at[n]` if it is anywhere, and `Once`:
  it is there once.  The places are the packet buffer, the queue, the command bus, on
  its way out of the DRAM (`readReturn`, `readData`), the atomic unit, the queue again
  with its result, and the write data;
- `Locks`: with a queue for each bank, an atomic request that left the queue and is
  not written back yet holds the `atomicLock` of its bank;
- `Excludes`: and while it was read and not written back, an access of its bank on
  the command bus is its own;
- each position of `upBuffers` holds the head of a whole response or a tail of one.

Each function that `Update` of the vault and of the DRAM is composed of has a lemma
that it keeps this, with the place an access moves to; what a cycle only counts
down is shown to leave it alone (`Same`).  The theorem `AtomicExclusion`
(AtomicExclusive) follows.  Locks alone is not inductive: the lock is given back by
*any* write of the bank that leaves the queue while it is locked, so one must know
that this can only be the write-back of the request that holds it, hence that its
last access is nowhere else.  The hypothesis QUE_PER_BANK is needed: with one queue
the lock is set for `issuedBank`, not for the bank of the command
(`CommandQueue.cpp:361`), and protects nothing.

### The vault's response buffer

A response is pushed into `upBuffers` where the access that makes it ends, and a full
buffer there is an exit.  The only guard against it is a counter: `pendingDataSize` is
added to when the last command of a request is popped and is subtracted from when
its response is made.  `VaultResponseProofs` proves `ResponsesFit` (ResponsesReserved:
while the simulator runs the counter is the size of exactly the responses to come,
and they all fit) and `BufferNeverFull` (so the ERROR of `VaultController.cpp:75` is dead
code), again for all policies, structures, sizes and workloads.

`VaultInvariant` alone is not enough, since it says where an access may be and not
that it stays there.  The DRAM has one place for the data it is returning
(`readData`) and the atomic unit one for its command (`atomicCMD`); a command put
there too early would replace the one before, and the reservation of that one would
stay for ever.  The invariant `BooksInv` adds to it:
- `Fits`: pendingDataSize is the debt to the requests that are `Owed` a response:
  whose last command is a read on the bus, on its way through the DRAM, a write on
  its way out, or in the atomic unit; and the buffer has room for it;
- `Paced`: between any two reads, in the DRAM, on the bus or still to come in a bank
  that waits for its `nextRead`, there are `Apart` cycles, which is a burst and at least
  two cycles for the atomic unit; and that unit is free again before the next data
  come.
DRAMUpdate and the two halves of the vault's update shift the counters at different
times: `Books(v, late, lead)` is the same statement at the three points of a cycle.

The hypothesis `ReadsApart` says when `nextRead` keeps that distance: tCCD or BL is at
least 2, and a bank that precharges by itself is not ready for its next read before
the burst is over (READ_AUTOPRE_DELAY and WRITE_AUTOPRE_DELAY are at least max(2, BL)).
The shipped timings are far from violating it: tCCD is 4 cycles, the two delays are
17 and more, and BL is at most 8 (`ConfigDRAM.ini:33-49`, `ConfigValue.h:160-166`); those
of the runs satisfy it too.  Its first part is more than the code needs: a command
spends a cycle on the bus before `nextRead` is set, which the invariant does not
count on.

### Loops, and what stays model-checked

A `for` loop of the code is `Repeat` of `Loops`, a recursive function.  The induction
theorems of the library take an operator for what is to be shown, which the
provers cannot instantiate; `LoopProofs` therefore states the rule with a *set* of
states (a body that stays in the set, started in it, ends in it) and is
instantiated with the body of each loop.  `QueueProofs` has what a push, a pop and
the removal of one place do to the elements, the order and the number of
occurrences of a queue.

Only model-checked: TokensConserved (bags of tokens over four queues),
NothingLost and BackupReturns (which fail in some behaviours), AllAcknowledged, the
refinement to PacketChannel (which needs a link that is not too fast for its slave), all of the sleep handshake; of the crossbar
the rest of ResponsesWhole, what a whole response contains; of the vault NoExit and BusCommandLegal, which do not hold for every
timing (NoExit fails with the shipped one and blocks of 256 bytes, section 3), and the
refinement to MemoryService.  `LinkPower` folds over sets.  Liveness is out of the proof system's reach.

## 5. Not modelled, and the plan

Not modelled: errors while a link falls asleep or wakes up; the values of the power
managers' timers and of the traffic they measure; posted plain writes at the vault
(the controller makes none); the rounding of clock periods; the data in packets
and lines; statistics, logs and result files; configuration files, whose values
are the CONSTANTS; the trace and random drivers of `RunSim`, which only call
`ReceiveTran` and `Update`; `cache/Cache.cpp` and `cache/CacheBank.cpp`, which are not built.

In order:
1. Theorems: the timings for which BusCommandLegal holds, and the part of NoExit that
   is about the data bus; MemoryService safety from its own specification; the address
   mapping of the vault (`VaultController.cpp:477-513`) and of the cache (`MakeAddr`) and
   their inverses; ResponsesWhole of the crossbar when TAGs are distinct.
2. Two links composed with the controller's choice of a link.
3. The QUIET handshake with errors.
