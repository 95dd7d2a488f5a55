# TLA+ models of xahaud

xahaud is a ledger server (a fork of rippled) whose accounts can install
*hooks*: small WebAssembly programs that run when a transaction touches the
account. Hooks keep state in the ledger, may reject a transaction, and may emit
transactions of their own. The network's governance and its balance rewards are
such hooks, written in C. This directory holds TLA+ models of the parts of that
system where most depends on the order of many steps, TLC configurations for
them, and proofs checked by TLAPS.

Paths below are relative to the repository. `applyHook.cpp` is
`src/ripple/app/hook/impl/applyHook.cpp`, `View.h` and `View.cpp` are the ledger
helpers in `src/ripple/ledger`, and transactors (`Escrow.cpp`, `SetHook.cpp`, ...)
are in `src/ripple/app/tx/impl`.

## The system and its parts

| Part | State | What is hard about it | Modules |
|---|---|---|---|
| Governance table (`hook/genesis/govern.c`) | seats in two directions, member count, votes, counters, reward parameters | tallies that must survive every order of votes, moves, replacements and removals; two layers of tables that vote through emitted transactions | `GovernTable`, `GovernLayers` |
| Hook state (`applyHook.cpp`, `Transactor.cpp`) | state entries, `sfHookStateCount`, owner count, `sfHookNamespaces`; the `HookStateMap` of a transaction | checks made when a value enters the map and relied on when it is committed, with other hooks, fees and failures between | `HookState` |
| Emitted transactions (`applyHook.cpp`, `TxQ.cpp`, `Transactor.cpp`, `Change.cpp`) | emitted directory; each server's open ledger and hash router | no sequence number protects them from being applied twice; local flags decide what may be applied | `EmittedTxn`, `Emission` |
| `SetHook.cpp` | hook definitions with reference counts, hook arrays, namespaces | counts and reserves over long sequences of operations; a three-way merge of parameters | `SetHook` |
| Balance rewards (`Transactor.cpp`, `ClaimReward.cpp`, `reward.c`, `GenesisMint.cpp`) | reward fields of accounts, drops in the header, emitted mints | what a balance earned while it changed, within a ledger or over many | `Rewards` |
| Holdings (`Escrow.cpp`, `PayChan.cpp`, check, ticket, `URIToken.cpp`, `SetTrust.cpp`, `Payment.cpp`, `DeleteAccount.cpp`) | account roots, owner directories, entries, trust lines with locked balances | one balance and one owner count shared by many kinds of entries with deadlines and closes | `LedgerView`, `Escrow`, `PayChan`, `Checks`, `URIToken`, `TrustLine`, `Holdings` |
| Validations (`Validations.h`, `LedgerTrie.h`, `RCLValidations.cpp`) | current validations, the ledger trie, ledgers being acquired | validations that are late, stale or wait for their ledger while trust changes | `LedgerTrie`, `Validations` |

`PROJECT.json` lists every part of the server with its sources and status, and
the hazards of the code with the properties that would catch them.

The parts meet in `Transactor::operator()`. It runs the *strong* hooks of the
originator and the stakeholders (which may reject the transaction), commits
their state, applies the transaction, settles the reward accumulators, runs the
callback if the transaction was emitted with one, removes its entry from the
emitted directory, then runs the *weak* hooks and commits their state. Hooks
put emitted transactions in the directory; `TxQ::accept` moves them from there to
open ledgers. The governance hook uses all of this: its table is hook state, and
its decisions leave as emitted transactions.

## Modules

Each component has a module of its own; its `MC` module gives constants values
for TLC, and its theorems are in a module that ends in `Proofs`. A definition
called "mutant of X" is a variant of X with a plausible mistake; with it in the
place of X, the property that `PROJECT.json` pairs it with is violated.

### GovernTable and GovernLayers

One execution of `hook()` is one action. State entries become functions: `seat`
and `forward` are the two directions in which a seat is stored, `vote` the `V`
keys, `count` the `C` keys (one byte wide), `mc` the member count. `Setup` is
the first execution. A later one is exactly one of `VoteAgain`, `VoteRecorded`,
`ActionReward`, `HookUnchanged`, `ActionHook`, `SeatUnchanged` and `ActionSeat`,
one for each way the code ends with `accept`; executions that end in `rollback`
change nothing and are the negation of the guards. `NewCount` is the logic table
over "exists", "zero" and "moving" in the source. The counter key overwrites the
first four bytes of the data, which are significant for a hook hash: `HashTail`
says which hashes share a counter.

Two places in `govern.c` read memory that was never written. The layer byte of
the keys that the vote collection looks up is zero in the hook as it was built
(`src/ripple/app/hook/xahau.h`), so `CollectedLayer` is 0. The comparison that
finds a seat already empty may go either way, so both `SeatUnchanged` and
`ActionSeat` are possible there. The initial members are assumed to be distinct;
the code does not check the parameters it is installed with for that.

The thresholds are products with 0.8 and 0.51 that are truncated and raised to at
least 2 (`Q80`, `Q51`). The properties therefore ask for at least two votes and
less than one vote short of the percentage (`WithinOneVote`): 3 of 4 members change
a seat, 2 of 4 carry a vote of a layer 2 table. That this is not the 80 percent of
the file's header is a finding below.

`GovernLayers` composes the genesis table with a table of layer 2 (an instance of
`GovernTable`) that is one of its members. What the second carries becomes an
emitted Invoke of the first, which may be late, lost or overtaken: that is what
`Emission` promises of an emitted transaction. Equal Invokes that are pending at
the same time are one element of a set.

### HookState

One transaction goes through the phases `strong`, `strongWrite`, `callback`,
`callbackWrite`, `weak`, `again` and `weakWrite`, and is followed by the next.
`cache` is the `HookStateMap`: per account the reserve positions left, the
namespace count, and the slots with their modified marks. `Accepts` and `Entered`
are `set_state_cache`, `Read` is `state_foreign`, `Set` and `Denied` are
`state_foreign_set`. A commit is a sequence of `SetHookState` steps in the order
of the map's keys, and ends at the first failure (`SetHookStateFails`), which
every caller ignores.

Abstractions: a hook is the account it runs for, so grants relate accounts and
namespaces; values are opaque; the owner count counts hook state only; `apply()`
leaves accounts with arbitrary balances. A transaction that is not applied at
all leaves nothing behind and is no step. Directories never fill up (262144 pages).

### EmittedTxn and Emission

There is one chain of closed ledgers. Each server has an open ledger, a hash
router and a role relative to that chain. `CloseLedger` is a consensus round with
the ledger it builds; how consensus comes to an agreement is left open: the set
contains everything all positions contain, of which nothing is disputed, and any
part of the rest, where a dispute may end either way. `Accept` is
`OpenLedger::accept` followed by `TxQ::accept`, with the injection of directory
entries. `Restart`, `Expire` (flags dropped by the router) and falling behind are
the faults. `Abort` is the second possible outcome of the null dereference
described under Findings. A transaction is its ledger bounds, generation and
parent; fee and burden are left out.

`Emission` is the abstract specification: from the ledger that emitted it on a
transaction is pending, then applied in one ledger of its window or failed in one
after it. `EmittedTxn` implements it (`KeepsPromise`) with the fate of a
transaction read off the directory and the histories (`Status`).

### SetHook

One iteration of the loop in `SetHook::setHook` is one step (`Keep`, `Delete`,
`Update`, `Create`, `Install`) on the view of the transaction, `tx.defs`; `Commit`
and `Refuse` are what follows the loop. Definitions are counted by reference, and
those whose count falls to zero are in `tx.doomed` until the commit. Parameters
are merged with those of the definition (`UpdateHookParameters`), so that only
what differs is stored. Between transactions hooks write and delete state entries.
The first state is the one that `activateXahauGenesis` (`Change.cpp`) leaves: the
genesis account and the layer 2 tables have the governance hook with parameters, and
the definitions have their references. Owner counts are raised there by the number of
hooks without their parameters (`Change.cpp:568`, `:770`; the tests expect it,
`XahauGenesis_test.cpp:250`), so that their removal may take an owner count below zero:
that ends in tefINTERNAL (`Underflow`).
HookOn is merged as HookNamespace is, which stands for both; code is its hash; the
fee and the validation of the WebAssembly are left out.

### Rewards

A ledger takes one tick. `Balances` is the loop at the end of
`Transactor::operator()` that settles the accumulators of all accounts whose
balance changed. `ClaimSetup` and `ClaimPaid` are a ClaimReward that runs through
the reward hook, `ClaimElsewhere` one whose issuer has no such hook, `GenesisMint`
and `MintExpires` the fate of the mint the hook emits. `Width` is the width of
the accumulator. `WeakFee` is the fee of a weak hook execution, which `doTSH` takes
after that loop, so that nothing is settled. The fields `earned`, `forfeited`, `peak`
and `funded` are history. The total that a claim is paid for may be negative, when
`slot()` has refused the accumulator with an error code: the hook's comparison with
zero is one of raw XFL numbers, of which a negative one is a positive integer, and
`float_int` is asked for the absolute value, so the claim is paid (`Magnitude`). The
fee of the transaction and the refund of the claim's fee are left out; XFL numbers are
exact until the hook takes their integer part.

### Holdings

`LedgerView` has the helpers that transactors share: reserves and owner counts,
spendable balances, and the functions in `View.h` that lock a part of a trust
line's balance and pay it out. `Escrow`, `PayChan`, `Checks` (with tickets),
`URIToken` and `TrustLine` have one action per transaction type, and `Holdings`
adds payments of drops, the deletion of accounts, and the close of a ledger. A
trust line is seen from its holder; there is one currency of one issuer. `mode` is
a setup: whether amounts are drops or tokens, which kinds of entries are used, and
what accounts start with. Keys stand for keylets. The field `asked` of a channel is
history: when its end was last set or brought forward. `TimeWidth` is the width of a
time, at which the sum of close time and delay wraps around.

Left out: conditions, transfer fees, deposit authorisation, signatures of claims,
qualities, NoRipple, checks and URI token sales in tokens, a PayChanFund whose
asset is not that of the channel. In a setup with tokens, payments are of tokens and
no drops move between accounts.

### LedgerTrie and Validations

`LedgerTrie` is the compressed trie as a record of nodes, each named by the tip of
its span. `Insert` and `Remove` with `Compressed` are the operations on it, `Walk`
and `GetPreferred` the choice of the preferred ledger. A ledger knows only the last
`MaxAncestors` (256) of its ancestors: an older one has ID 0, and two ledgers that
share nothing that both know differ from sequence 1 on (`Known`, `Ancestor`,
`Mismatch`); a span is looked up in a ledger that may be a descendant of its tip.
`RecentAssumption` leaves out ledgers so far apart that they share nothing known.
Then a chain may be in the code's trie twice, and what the properties say of
supports is not true of it.

`Validations` is the node's bookkeeping. The sequence of a validation is taken to be
that of the ledger it names; the code uses the sequence in the message for the
enforcer (`Validations.h:653`) and does not compare them. Reading the UNL and adding the validation are two steps (`Receive`,
then `Add`, `AddLate` or `AddPrompt`), because the code reads trust before it takes
the lock; ledgers that were asked for arrive later (`Acquire`) and are counted in
any order, that of a hash map.

## Runs

| Run | Instance | Shows | Distinct states |
|---|---|---|---|
| `govern_table` | layer 1, 4 accounts, 4 seats; votes on a seat, a hook and the reward rate | the two seat directions agree, member count and tallies are exact; seat changes and emitted SetHooks have their votes | 66962 |
| `govern_layers` | two accounts and a table of three members at the genesis table | a reward parameter changes only with every member, and the quorum of the second table, behind it; every Invoke has that quorum | 94367 |
| `hook_state` | 2 accounts, one granted the other's namespaces; 2 namespaces of 2 keys, limit of 1 namespace | counters and namespace list match the entries, also after commits of weak hooks that stop half way; the limit holds; the map agrees with the ledger; commits of strong hooks and callbacks are complete and never fail; a callback's rollback discards its writes | 1093330 |
| `emitted_once` | 3 servers, 2 transactions that may emit each other, 1 fault | applied or failed at most once, in the window; servers without faults have the flags they need; chains are bounded; `Emission` is implemented | 1041060 |
| `emitted_live` | 3 servers, 1 transaction, 2 faults | every entry leaves the directory | 166885 |
| `set_hook` | an account, the genesis account and a table, 2 pieces of code, arrays of 2 hooks | reference counts, state counts and namespace lists are exact; owner counts lack at most the parameters of genesis hooks; every hook reads the namespace, parameters and grants asked for (HookCanEmit and flags are not in this property: see the observations) | 730576 |
| `rewards` | 2 accounts with seats, one of which claims and is charged weak fees; accumulator of width 6 | the header counts every drop; no holding is credited twice, and none is lost but to weak fees; rewards are bounded | 1156192 |
| `holdings` | 2 accounts and an issuer, 2 keys, six setups | funds are conserved; directories, owner counts and locks are exact; nothing is orphaned; reserves and settle delays hold | 240510 |
| `validations` | 3 validators, 5 recent ledgers on two chains, three setups | the trie counts exactly the last ledgers, its walk gives the preferred ledger of the definition, which does not waver | 249391 |

`govern_every_member`, `govern_eighty_percent` and `emitted_callback` each check one
statement of a comment in the code that the code does not keep; see Findings.

### Bounds

* Governance: with four seats 80 percent is 3 votes, less than all and more than the
  minimum of 2; the seats can be filled, vacated, moved to and replaced while others
  vote, so every row of the E/Z/M table occurs. `HookMax` is 1. `FewVotes` limits the
  votes: on a seat they name the first occupant of the last seat, that of another seat,
  or nobody; the fourth member votes on seats only; and no state has votes on both the
  hook and the reward rate, whose votes and counters have no key in common. One-byte
  counters cannot wrap in so small a table; the proof of `TallyExact` covers that, and
  the quorum theorems cover tables of every size. In `govern_layers` only the reward
  rate is on the ballot: seats do not change there. The table of layer 2 has three
  members, so its threshold is the minimum of 2.
* Hook state: two slots of one namespace let it outlive one deletion, two namespaces
  with a limit of one make the limit bite. `FourSlots` keeps hooks to one slot of the
  first account and three of the second. Balances pay for no entry or for two, and
  for one after the fee of a weak execution, so that commits of weak hooks fail half way.
  `MaxModifications` stands for 256 and bounds the writes of a map by 3.
* Emitted transactions: `EmitWindow` stands for 5 and `GenerationLimit` for 10.
  `SeqLimit` ends emission early enough for every window to pass, after which one
  more ledger changes no comparison. `Lookback` bounds how far in the past a first
  ledger may be given, `FaultLimit` the number of restarts and expiries. Servers and
  transactions are symmetric in `emitted_once`; `emitted_live` uses no symmetry.
* SetHook: `Menu` is what an account may ask for: it has each operation, defaults,
  overrides, blanks and resets of a parameter, and a namespace that is destroyed in
  part (`MaxNamespaceDelete` is 1). The genesis account deletes its hook and installs
  the other code; the table keeps its hook, and with it a reference to the code that
  others install and delete. `Affordable` are the owner counts that a balance may cover:
  up to 4, so that some commits are refused.
* Rewards: `MaxSeq` ends time; the width of 6 lets the accumulator wrap and lets
  `slot()` meet a number with the top bit set, and is the least for which a negative
  total cannot be paid more than the bound (the assumption asks for 6, the code has
  2^64). The claimant has a seat, so that one mint pays it twice. `MaxLag` is how far the
  validated ledger may be behind.
* Holdings: each of the six setups (`Modes`) is the smallest in which its kinds of
  entries get in each other's way: two entries at most, balances that pay for one or
  two, deadlines that pass. `WithinBounds` ends behaviours in which the issuer issues,
  or a channel is funded, without end. Keys are symmetric. `TimeWidth` is 3: a request
  to close at time 2 wraps around, earlier ones do not.
* Validations: two chains part after the second ledger, and the first ledger is not
  known to the last ones (`MaxAncestors` is 2). Validators divide between the chains, or share ledgers that have to be acquired while one loses and regains trust,
  or send validations late enough to be stale.

Deadlock is not checked in `set_hook`, `holdings` and `validations`: bounded time and
the menu end their behaviours.

### Fairness

Only `emitted_live` assumes any. `CloseLedger` is weakly fair because the
consensus timer keeps closing ledgers as long as a majority is current;
`Accept(n)` is weakly fair because a server that has built or fetched a ledger goes
on to open the next one (`RCLConsensus::Adaptor::doAccept`). Faults, votes and the
emission of transactions are never assumed to happen. The instance has no failure
callbacks, so `Abort` does not occur in it: if the null dereference ended the
servers each time they tried the same ledger, the entry would not be resolved.

## Proofs

The theorems hold for every value of the constants that meets the named
assumptions of the modules (`TableAssumption`, `HookStateAssumption`, ...), which
TLC evaluates for the instances above. Where a theorem needs more, it says so in
its own `ASSUME`: those about emitted transactions hold with the amendment
fixXahauV2. `SettleDelayAlwaysHonoured` needs no assumption on times or delays: the
property itself leaves out the single requests for which the sum wraps at 32 bits.

| Module | Theorems |
|---|---|
| `GovernTableProofs` | `TableTypeCorrect`, `SeatingAlwaysConsistent`, `MemberCountAlwaysExact`, `TallyAlwaysExact`, `SeatingQuorum`, `EmissionQuorum` |
| `HookStateProofs` | `StateTypeCorrect`, `BookkeepingAlwaysExact`, `NamespacesAlwaysBounded`, `CacheAlwaysCoherent`, `CommitAlwaysComplete`, `CommitAlwaysSucceeds`, `CallbackRollbackAlwaysDiscards` |
| `EmittedTxnProofs` | `EmittedTypeCorrect`, `EmittedAtMostOnce`, `DirectoryAlwaysExact`, `RouterAlwaysCovers`, `AppliedOnlyInWindow`, `FailedOnlyAfterWindow`, `EmissionImplemented`, `ChainAlwaysBounded` |
| `SetHookProofs` | `TypeCorrect`, `ReferencesExactTheorem`, `OwnerCountAlwaysBilled`, `StateCountedTheorem`, `MergeAlwaysFaithful` |
| `RewardsProofs` | `Invariant`, `TypeCorrect`, `CreditBoundedAlways`, `HoldingCreditedAlways`, `RewardBoundedAlways`, `SupplyAlwaysExact` |
| `HoldingsLemmas`, `HoldingsProofs` | `HoldingsInvariant`, `HoldingsTypeCorrect`, `DirectoriesAlwaysExact`, `OwnersAlwaysExact`, `PartiesAlwaysExist`, `DropsAlwaysConserved`, `LockedAlwaysExact`, `LockCountAlwaysCovers` |
| `HoldingsReserveProofs` | `SettleDelayAlwaysHonoured`, `ReserveAlwaysMet` |

The inductive invariants, and why each is more than what it shows:

* **Governance.** `IInv` is `TypeOK`, `SeatingConsistent`, `MemberCountExact` and
  `TallyExact` together. None of the last three is inductive alone: that a
  replaced member gives its place to exactly one seat needs the two directions, the
  count needs both. A counter is one byte and may only be less than the number of
  votes it stands for, so the two quorum theorems follow for tables of any size and
  either layer. They state what truncated thresholds give: two votes, and less than
  one vote short of 80 or 51 percent of the filled seats.
* **Hook state.** `IInv` adds `PendingInv`: what remains to be committed is modified
  in the map, and only while a commit runs. `MapInv` says what `set_state_cache`
  has set aside: `nsCount` covers the namespaces the map may add (`NamespaceInv`),
  the modified entries are within the limit (`LimitInv`), and the reserve taken from
  `avail` covers the slots that are still to be created, before the commit and
  during it (`ReserveInv`). `CommitSucceeds` follows from this, `CommitComplete`
  from `DoneInv`, the rollback of a callback from `RevokedInv`.
* **Emitted transactions.** `IInv` ties the open ledgers of current servers to the
  directory (`OpenInv`, `RetryInv`) and the flags of servers without faults to its
  entries (`FlagInv`). `Chained` carries, for each emitted transaction, the
  sequence of those it descends from; its length is the generation.
* **SetHook.** In the middle of the loop counts are those of the new positions so far
  and the old ones to come (`LoopInv`). `MergeInv` says the same of what hooks read:
  each finished position shows what was asked for, in the definitions of the view.
  `Covers` relates the owner count to what hooks and entries are billed for, with
  what the activation left out as the distance that no step can widen.
* **Rewards.** `Sound` relates accumulator, peak and history of one account, with
  the wrap excluded by an upper bound on what was earned, and with `forfeited` for
  what weak fees took before it was settled. The sum of balances is
  a separate induction, `SupplyExact` on top of `Inv`.
* **Holdings.** `HInv` is a predicate `Sound` on roots, directories, entries and
  lines: `Linked` (entries are listed where they should be, their parties exist,
  owner counts are the numbers of entries) and `Funded` (drops in roots and entries
  add up, locked balances are what entries hold). It is stated for values, not for
  variables, because transactors pass through states of their own, such as a
  finished escrow whose line is created first. `DelayInv` adds when a channel's end
  was last set or brought forward, which changes only if the new end leaves the delay. `ReserveMet` is proved per transactor from `HInv`.

The library's induction theorems cannot be instantiated by the provers at hand,
so the lemmas about sums (`HoldingsLemmas` and `RewardsProofs`) take a finite set
of least cardinality at which the statement fails, and remove an element from it.

Most leaves name Zenon: over a long module tlapm's SMT translation becomes slow, and
Zenon needs no arithmetic for them. Leaves that do arithmetic are left to SMT.

### What is only model-checked

* `EventuallyResolved`: liveness under fairness.
* `RewardBackedByBothLayers`: it needs the invariants of the table for the instance
  of layer 2 as well, and a relation between what that table emitted and the votes
  it still stores. With seats on the ballot it would not hold, because votes of
  removed members stay (first finding).
* `TrieExact`, `TrieAnswers`, `CurrentCounted`, `PreferenceStable`: `LedgerTrie` and
  `Validations` use recursive operators, of which the prover can show nothing.

## Findings

1. `govern.c:18` says that at layer 1 everything but seat changes needs the votes of
   all filled seats. The number of *stored* votes is compared with the member count,
   and votes of removed members stay: the loop at `govern.c:635` looks up keys with
   layer 0, accepts only votes of 32 bytes, and skips the reward rate. Run
   `govern_every_member` shows a reward change without the vote of a seated member.
2. `govern.c:17` says that at layer 1 a change of the seats needs 80 percent of the
   filled seats. The product with 0.8 is stored in an integer: 3 of 4 members, or 2 of
   3, are enough. Run `govern_eighty_percent` ends with a seat that changes on the votes
   of three of four members.
3. `applyHook.h:557` says that in a callback for a failed emitted transaction the
   entry is available. `Change::applyEmitFailure` erases it before the callback of
   the same `Transactor::operator()`, so the pointer that `applyHook.cpp:1258`
   dereferences is null. Run `emitted_callback` reaches this state.

Smaller observations that came with reading the code and have no run:

* `govern.c:248` accepts hook position `HOOK_MAX`, one more than its message says,
  and the collection of votes does not look at it. `reward.c:297` reads elements of
  `can_reward` that nothing has written.
* Hooks installed at genesis are never billed for their parameters
  (`Change.cpp:568`).
* A commit of weak hooks can fail in the middle (`applyHook.cpp:1840`), since the
  reserve was checked before the fees of weak executions were taken.
* `applyHook.h:28` says that the map is committed only if the transaction succeeds,
  and the comment on `rollback` (`applyHook.cpp:2187`) that state changes are
  discarded. The map of the weak hooks is committed whatever the result of the
  transaction (`Transactor.cpp:2064`), and one hook's rollback takes nothing out of it.
* Emit rule 6 is "FirstLedgerSeq > current ledger" at `applyHook.cpp:3317`; the code
  (`:3519`) asks that it is at most LastLedgerSequence.
* Installing a hook loses a HookCanEmit equal to that of the old definition
  (`SetHook.cpp:1732`); an update drops sfFlags (`SetHook.cpp:1434`); the result
  tesPARTIAL of one destroyed namespace is overwritten by the next
  (`SetHook.cpp:1866`).
* The fee of a weak hook execution is taken after the accumulators were settled
  (`Transactor.cpp:1614`): the next settlement finds the lower balance and credits it
  for all ledgers since the last one, so the units it took are lost for that time.
* A negative total is paid by its absolute value (`reward.c:217`, `:229`).
* An accumulator over-credits after a balance below one unit; a GenesisMint may
  expire after the counters were reset; `slot()` refuses an accumulator of 2^63 or
  more. RewardTime is read from the server's own validated ledger
  (`ClaimReward.cpp:123`).
* `PayChan.cpp:46` says that any transaction that touches an expired channel closes
  it; it does not when the trust line is frozen or the channel is the issuer's.
  The sum at `PayChan.cpp:824` may wrap at 32 bits, and preflight accepts any delay.
* A comment in `Escrow.cpp` says "strictly greater" where equal times pass.
* A payment can take a trust line above its limit while a part of it is locked;
  a TrustSet of the issuer can raise the holder's owner count without a check of
  the reserve; a line in its default state may be kept after a locked transfer.
* `Validations.h:374`: while a validator's newer ledger is being acquired the older
  one stays counted after it is stale or its validator lost trust, contrary to
  `Validations.h:470` and `:785`. A validator that toggles trust may stay waiting for
  an old ledger and move back to it. `TrieExact` is about what the trie counts
  relative to `lastLedger_`, and holds all the same.

## Not modelled

The WebAssembly virtual machine and the guard checker, the slot, STO and XFL
functions of the hook API, hook chains with `hook_skip`, import, remit, offers and
payment paths, NFTokens, the transaction queue beyond emitted transactions,
consensus itself, amendments and fee votes, the overlay, storage, RPC and
serialisation. `PROJECT.json` gives the reason for each: mostly they are data
processing or I/O; some, such as the queue and the negative UNL, could be modelled
and are not. The models therefore cover a minor part of the server's lines.

Within the modelled parts: fees, but for those of weak executions, and fee escalation, execution metadata (also what
`reset()` keeps of it), the overflow check of chain fees, tecOVERSIZE after the weak
phase, directories that are full, and ledgers that LedgerMaster forgets.
