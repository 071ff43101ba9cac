# SafeCast: a TLA+ development

SafeCast protects multicast SRTP streams with keys that change inside an MLS
epoch (per frame, per packet or every n packets) and adds TESLA source
authentication. The specifications here are translated from the code; paths
below are relative to the directory that holds `src/` and `tla/`, and `src/src/`
is the library.

## The system

| part | state | operations | what must hold |
|---|---|---|---|
| receiver key manager (`src/src/receiver.rs`) | ratchet, ring of the last K keys, frontier, installed generation, index recovery, libsrtp session, counters | `unprotect` | the ring always has the window's keys; old keys are gone; a rejected packet changes nothing durable; no genuine packet within reach is lost |
| index recovery, generation scheme (`receiver/`) | highest index | `recover`, `update`, `frame_generation` | exact within half of the sequence space; the same answer as libsrtp |
| ratchet (`keying/ratchet.rs`) | chain secret, generation | `advance`, `next_key_salt` | forward only, key g from secret g |
| rekeying stream (`keying/granularity.rs`), simulated sender (`simulation/sender.rs`) | ratchet, installed generation, last timestamp, packet count | `protect`, `next_protected` | each packet is sealed under its generation and at its position |
| libsrtp replay database (`rdbx.c`, `srtp.c`) | index, bitmask | estimate, check, add | nothing is accepted twice |
| simulated network (`simulation/network.rs`), benchmark loop (`benches/realistic_receiver.rs`) | loss state, schedule, ledger | `disturb`, `measure_displacement` | ledgers balance; what the receiver loses is what the network measured |
| TESLA schedule, chain, sender, receiver (`tesla/`) | prepared MAC, trusted key, drawers | `authenticate`, `process_arrival`, `settle` | verified means written by the sender; every delivered packet waits or has one verdict |
| MLS keying (`keying/mls.rs`) | group state, pending commits | `create_rekey_commit`, `process_commit`, key export | every member has the commits it lacks under way in order; everyone follows a rekey |
| demo client, authentication and delivery service (`demo/`, `third_party/openmls/delivery-service`) | registered clients, KeyPackages, queues, each client's progress | registration, `create_group`, `join_group`, `send_srtp`, `recv_srtp` | peers join one group; each packet is played once; every process ends |

The demo client sets up an MLS group through the two services and exports
SRTP keys from it. Inside an epoch the sender seals packets in order; the network
delivers them in any order; the receiver maps each header to a generation,
fetches or derives the key, lets libsrtp decide, and commits derived state only
on success. The TESLA receiver wraps it: accept test, SRTP, disclosed key,
drawers. What is hard to test is in the "hazards" of `PROJECT.json`, line by line.

## Modules

- `IndexRecovery`, `GenerationScheme`, `StreamRatchet`, `Rdbx`: operators for the
  code of the same name. A chain secret is its distance from the seed, a key the
  secret it comes from, a replay bitmask the set of distances whose bit is set.
- `ReceiverKeyManager`: the receiver's state and `unprotect`, one action per
  path. The clone of the ratchet is not a variable: the keys it would derive are
  `derived(g)` and `key_salt_of`, and `Adopt` is the commit. The cipher's key is
  kept beside `installed`, because skipping a rekey trusts that tag. `RecvStats`
  adds the counters.
- `Receiver`, `MCReceiver`, `CountedReceiver`: the receiver fed any packets,
  without and with counters. `KeyWindow`: what the key store promises of each
  call: it opens a packet under a live key, slides the window by at most
  `seek_cap`, or refuses and changes nothing. `ImplementsKeyWindow` is the
  refinement; the generation opened is the last call's.
- `RekeyingStream`, `SimulatedStream`: the sender, and its composition with a
  network that loses, delays, reorders, duplicates and damages without limit.
- `SimNetwork`, `Percentile`, `RealisticRun`, `MCRealisticRun`: `disturb` packet
  by packet with its two paths and loss models, the stable sort by arrival, the
  walk of `measure_displacement` one arrival per step, and the benchmark's loop
  over sender and receiver. Random draws are choices.
- `TeslaSchedule`, `TeslaReceiver`, `TeslaStream`: TESLA. Chain key K_i is i, the
  chain step subtracts one, values off the chain are negative. A MAC is its key,
  position and covered bytes. The other group member holds the SRTP keys of all
  generations and whatever chain keys are public: it sends packets of its own, at
  any index and timestamp, and the sender's packets with another extension.
- `MlsKeying`: group states, commits and exports. A group state is the commits
  that led to it, so two states export the same secret exactly when they went
  through the same commits. `MlsRekey`, `MCMlsRekey`: members that rekey.
- `AuthService`, `DeliveryService`: the handlers, one step each (they hold their
  locks throughout); `HashMap`: the maps they keep. `GroupSetup`, `MCGroupSetup`: the demo client up to the key
  export, one step per HTTP request. `DemoMedia`, `MCDemoMedia`: the media part
  on top of it. `ReceiveForeign` is a datagram with a sender's SSRC that does not
  authenticate: as in the code it stops the receiver unless it looks like a replay
  (`main.rs:735-740`). Datagrams that are too short or of an unknown SSRC
  (`main.rs:713-725`) change nothing and are no step.
- `RdbxProofs`, `KeyManagerProofs`, `ReceiverProofs`, `RunProofs`, `TeslaProofs`,
  `RekeyProofs`, `SetupLemmas`, `DemoProofs`: lemmas and theorems, see Proofs.

Definitions named `X_Something` before a definition `X` are plausible mistakes in
X. Substituted for X they make a property fail, which shows that the property
depends on X.

Abstractions: HKDF, HMAC, AES-GCM and the MLS exporter are ideal. 16- and 32-bit
counters wrap at `SeqMod` and `TsMod`; 64-bit counters do not wrap. `protect` and
`interval_of` panic in the code where the model's action is disabled (index
reuse, exhausted chain). A libsrtp error other than replay or authentication
failure panics in `unprotect` and is not modelled. An SSRC is a function of the
identity that need not be injective (it is a 32-bit hash); the runs give every
identity its own.

## Runs

| run | bounds | asks |
|---|---|---|
| `receiver_any_packets` | SeqMod 8, K 3, SeekCap 3, indexes to 13, keys to 12 | invariants, rollback and refinement under any packets, with base 1 so that packets before the epoch occur |
| `stream_every_n` | SeqMod 8, 11 packets, a key per 2, K 2, replay window 3 | sender and receiver across a sequence wrap |
| `stream_frame` | SeqMod 10, timestamps wrap at 11, 11 packets, 2 per frame, K 2, replay window 4 | the same across a timestamp wrap, the replay window just as long as the key window |
| `realistic_run` | 7 packets, wrap at 6, K 2, SeekCap 3, a fast path with jitter and a slow one 5 ticks behind | ledgers, displacement, and the benchmark's assertions about the receiver |
| `realistic_derivations` | the same | expected violation, see below |
| `tesla_members` | 3 packets, a key per 2, 4 intervals of one tick, d 2, g_max 2, skew equal to its bound, one packet of another member | source authentication, no genuine packet called forged, nothing waits for a key that is past |
| `tesla_loss` | 8 packets, wrap at 6, 4 intervals, g_max 2 | lost and reordered disclosures; packets after the wrap get their verdict |
| `setup_creators` | 2 creators, a sender, 2 receivers with one identity, one crash | competition for KeyPackages, a refused identity, dead clients |
| `demo_media` | a creator, 2 senders with 2 packets each, a receiver, 2 copies of each packet, foreign datagrams, one crash | from registration to the last packet |
| `demo_late_copy` | 3 packets, replay window 2 | expected violation |
| `rekey` | 3 members, 3 epochs | concurrent rekeys through the queues |
| `rekey_fork` | the same | expected violation |

Why these bounds reach the interesting cases: sequence numbers wrap in the
receiver run, both stream runs, `realistic_run` and `tesla_loss`, timestamps in
`stream_frame`.
Packets fall behind the key and replay windows in the receiver, stream and
realistic runs, jumps reach and exceed `seek_cap`, and in `realistic_run` the slow
path delivers a packet half of the sequence space late, which is where genuine
packets fail to authenticate. A disclosure that recovers a lost key reaches
`g_max` in `tesla_loss` (two steps at once). The two TESLA runs are apart because
another member's packets and a sequence wrap together are beyond TLC; the
theorems cover both at once. `demo_media` stays within the replay
window on purpose; what happens beyond it is `demo_late_copy`. The rekey bounds let
two members fork while a third sees both commits, and let a fork be rekeyed
again.

`DeliveredOnce` asks in every state what libsrtp would answer to each delivered
packet, under the packet's own key; `NoFalseDrop` asks what the arrival of each
packet not yet delivered would do (`ENABLED`).

### Fairness

Liveness is checked where processes run on their own:

- `GroupSetup`, `DemoMedia`: weak fairness on each client's steps. The operating
  system schedules every process and the services answer each request at once,
  so a request that stays possible is made. Nobody has to crash, and packets need
  not arrive: that receivers stop rests on the 30-second timeout of `recv_srtp`,
  a step that is always possible while the receiver waits. Every datagram restarts
  those 30 seconds, skipped ones too, so `ReceiversStop` and `EveryoneFinishes`
  assume that traffic that is not the group's pauses for that long at some point.
- `MlsRekey`: weak fairness on distributing, fetching and processing commits.
  Nobody has to rekey. No code in the repository distributes, fetches and processes
  commits in a loop (the demo client does not rekey yet), so this is a duty of the
  caller of `create_rekey_commit` and `process_commit`, and `EveryoneFollows` says
  what a caller that meets it gets. `NobodyIsStranded`, which needs no fairness, is
  the part the code itself answers for.

`setup_creators`, `demo_media` and `rekey` may stop (all clients done or dead, no
epoch left), so deadlock is not checked there. The stream, TESLA and receiver
specifications assume no fairness.

### Where code and comments disagree

- `realistic_derivations`: `realistic_receiver.rs:574-583` asserts that the
  derivations equal frontier + 1 and says that authentication failures do not
  disturb this, since they involve no derivation. A packet half of the sequence
  space behind is recovered one wrap ahead, its catch-up is derived and counted
  (`receiver.rs:349`), and only then does it fail to authenticate.
  `DerivedOncePerGeneration`, which subtracts the wasted derivations, is what holds.
- `demo_late_copy`: `main.rs:733-734` of the client says replay protection rejects
  a second copy with REPLAY_FAIL. A copy older than the replay window gets
  REPLAY_OLD, which is not skipped.
- `rekey_fork`: `mls.rs:143-144` says members in the same epoch derive identical
  output. Two members that rekey from the same epoch each merge their own commit.

Met while reading the code, with no run of their own:

- the creator counts clients, not roles (client `main.rs:347`), where its
  documentation speaks of senders and receivers (`main.rs:66`, `314-315`);
- the delivery service refuses only a smaller epoch (`main.rs:338`, `>`), its
  comment says "smaller or equal" (`312-314`);
- `chain.rs:5-8` says any disclosed key verifies and lost keys are recovered while
  hashing down. After an outage `check` refuses a key more than `g_max` ahead
  (`chain.rs:163`), and the trusted key then stays behind; `DisclosuresAccepted`
  says that nothing else refuses a genuine one;
- percentiles are read at a rounded position (`network.rs:335`), so that p99 of 52
  packets covers fewer than 99% of them (`network.rs:85`); `DisplacementExact` says
  by how little;
- the comment at `receiver.rs:318` says an unauthenticated packet never moves real
  state. It does change `installed` and the cipher; `CipherMatchesInstalled` and
  `NoFalseDrop` show that this is harmless;
- the assertions of the benchmark's loop (`realistic_receiver.rs:487`, `546`, `591`)
  need premises that its parameters meet and nothing states: after a loss in a row
  of half the sequence space or more, or of more than `seek_cap` generations, later
  packets are recovered a wrap off or refused, whether they are late or not.
  `Followable` and the bounds in `KeyingLossIsLateness` and `CatchupIsGap` say so;
- a TESLA packet labelled interval 0 passes no key's settlement and waits in its
  drawer, so `DrawersAwaitNextKeys` speaks of labels from 1.

## Proofs

All theorems hold for every value of the constants under the named assumptions:
an even sequence space, a replay window from 1 to below half of it, K at least 1,
d at least 2, frames shorter than the timestamp space, a sender clock ahead by at
most D_t. Some theorems have a further hypothesis, in their statement:

- `EpochFits`: at frame-level keying the stream ends before its timestamps return
  to the epoch's first one (13 hours at 90 kHz; nothing in the code bounds it).
  Assumed where a packet has to be opened under its own generation;
- `DistinctSsrcs`: no two clients of the demo share an SSRC;
- `Packets <= ReplayWindow`: a demo stream is no longer than the replay window
  (`demo_late_copy` shows what happens otherwise).

Facts about finite sets and sorting (`Counting`, `SetsCount`, `FiniteFacts`,
`DistinctCounted`, `OneToOneIsOnto`, `LeastNumber`, `SortsStably`, `SortsValues`) are
hypotheses of lemmas. Each is itself proved, from the library's theorems
(`CountingBehaves`, `SetsAreCounted`, `FiniteSetsBehave`, `MatchingBehaves`,
`LeastNumberExists`, `SortIsStable`, `SortedPositionExists`), and no theorem assumes
one.

### The receiver (`RdbxProofs`, `KeyManagerProofs`, `ReceiverProofs`)

- Any packets. The inductive invariant `RxInv` adds to `RingHoldsWindow` and
  `CipherMatchesInstalled` that the ratchet stands just past the frontier
  (`RatchetAtFrontier`: so derived keys carry their own generation), that ring and
  cipher hold nothing older than the window (`RingRecent`, `CipherRecent`), and
  that the two index references are equal (`IndexInSync`: agreement on every
  sequence number does not by itself survive an update). Each path of `unprotect`
  has its lemma. From it follow the checked invariants, `RejectedIsInert`,
  `NoKeyReturns` and the refinement of `KeyWindow`. `RecoverNearest`: `recover` is
  exact within half of the sequence space.
- Counters. `StatsInv`: every call is counted under one outcome, committed
  derivations are the generations up to the frontier, and a packet libsrtp rejects
  wastes at most `seek_cap` of them. `EveryCallCounted` and `WastedWorkBounded` are
  proved only; no run lists them.
- Sender, network and receiver. `TxInv` ties the sender's counters to the number
  of packets sent; that a timestamp changes exactly at a frame's first packet,
  wraps included, is `TimestampSteps`. `DeliveredInv` names the newest delivered
  packet by the replay database's index, since the maximum of a set cannot be
  recomputed in an inductive step. An accepted packet carries the key of the
  generation and the index it was opened at, so both are its own. Results:
  `SealedUnderTrueGeneration`, `StateFromDelivered`, `DeliveredOnce` and its form as
  a property of the steps (`NoSecondDelivery`).
- `ReachablePacketsAreDelivered` is `NoFalseDrop` as a property of the steps: a
  packet within reach that does arrive is delivered under its own generation.
  `ExactArrival` says what a call does with a genuine packet at a known distance
  from the newest one; `GenerationSpan` relates distances in packets and in
  generations.

### A simulated stream (`RunProofs`)

- The network. `LedgerInv` says that the schedule lists packets sent so far, each
  once, and that the ledger balances packet by packet. `sort_arrivals` yields the
  stable sort (`SortIsStable`: the position of an element is the number of elements
  before it, and a one-to-one map between sets of one size is onto). `WalkInv` ties
  the running maximum, the lateness list and the gap counters of the walk to the
  arrivals walked, against definitions that look at all earlier arrivals at once
  (`LatenessOf`, `GapOf`); because the walk is one arrival per step it needs an
  invariant and no induction over the sequence. `PercentileRank` bounds the rounded
  position of p50, p99 and p99_9. Results: `DisplacementExact`, and with the
  receiver's outcomes `LedgersAgree`.
- The receiver behind it. `RunInv` adds the invariants above, one outcome per call
  and that a bit of the replay mask is a packet that arrived. `FollowInv`: while no
  gap reaches half of the sequence space or the cap, the receiver's newest packet
  is the newest arrival. Then the fate of the next arrival is a function of its
  distance to that one (`ArrivalFate`), and one invariant per question counts
  them: `LossInv`, `CatchInv`, `SizedInv`. `FateInv` is their conjunction. Results:
  `KeyingLossIsLateness`, `CatchupIsGap`, `SizedReceiverLosesNothing` and
  `AuthFailsOnlyFarBehind`, all under `EpochFits`.

### TESLA (`TeslaProofs`)

- `TeslaInv`: an accepted packet's key is not public while the clock bound holds
  (`AcceptedIsNotPublic`) and the trusted key is the chain's, so a waiting packet
  that the sender did not send that way has a MAC that is not the one it will be
  checked with (`Harmless`).
  Results: `SourceAuthentic`, `TrustedIsGenuine`, `DrawersAwaitNextKeys`, and
  `TravelBudget`, the delay a packet may have.
- `AccountInv` adds the invariants of sender and receiver, that TESLA's own index
  reference moves with the receiver's (`RecoveryInSync`), and that every packet with
  an entry has been seen by the replay database, so that no second entry can come.
  Results: `EntriesAtSealedIndex`, `GenuineNeverForged`, `EveryPacketAccounted`,
  `DisclosuresAccepted`.

### Groups (`RekeyProofs`, `SetupLemmas`, `DemoProofs`)

- Rekeying. Unless the group forked, there is one line of commits (`OneLine`): every
  member's history is a prefix of it, the messages on their way to a member are the
  rest of the line in order, and at most one member is ahead of what was
  distributed. Results: `PanicMeansFork`, `NobodyIsStranded`.
- Set-up. `SetupInv` gives every client a stage: `Fresh` (its KeyPackages are in the
  service), `Reserved` (one is held by a creator), `Welcomed`, `Joined`; and says of
  each program counter what the client knows. Results: `NoAssertionFails`,
  `KeyPackageOnce`, `MembersShareTheGroup`, `EveryPeerIsWelcomed`, for any number of
  processes and any crashes.
- Media. `MediaInv` adds that packets under way were sent (`PendingSent`) and that a
  listening receiver has a session per sender (`Opened`) that has seen all it played
  (`PlayedSeen`). Results: `PlayedOnce`, `CompleteMeansEverything`, and, under the
  hypotheses above, `OnlyForeignPanics`.

### Only model-checked

Liveness (`AddedPeersJoin`, `CreatorFinishes`, `ReceiversStop`, `EveryoneFinishes`,
`EveryoneFollows`) and `NoFalseDrop`, which uses `ENABLED`: both are out of the
prover's reach. So are the three expected violations, which are counterexamples.
Every other property of a run is a theorem.

## Not modelled

- The receiving end of `RekeyingStream`, which advances in lockstep with the
  sender and has no tolerance for loss or reordering; the key manager replaces it.
- The TESLA commitment's encoding and signature (stateless), and the TESLA
  receiver's drop counters and latency samples.
- Services that fail or do not answer: the client panics on every such error.
- Handlers of the delivery service that the demo client does not call, and auth
  tokens.
- OpenMLS, apart from the epoch and the export of secrets, and the srtp bindings:
  below the interfaces this repository uses.
- RTP byte layout, logging, reports, timing measurements and the other
  benchmarks.
