# A TLA+ model of flutter_libsparkmobile

flutter_libsparkmobile is the Flutter plugin with which a Firo wallet makes
Spark transactions. Dart code (`lib/flutter_libsparkmobile.dart`) calls a C
interface (`src/flutter_libsparkmobile.cpp`) over `dart:ffi`, which calls the
C++ library sparkmobile (`src/deps/sparkmobile/src`). This directory holds TLA+
specifications of the parts of it that carry state and decisions, the TLC runs
that check them on small instances, and TLAPS proofs that hold for every size.

Paths below are relative to the repository root.

## The system

| Component | State | Operations | What makes it correct |
|---|---|---|---|
| Coin selection (`spark.cpp`: `SelectSparkCoins`, `GetCoinsToSpend`) | fee of the round, sorted list of remaining coins, chosen coins | the fee loop, the two ways of taking a coin | ends; least fee; fails only when it must; each coin once |
| Spend creation (`spark.cpp`: `createSparkSpendTransaction`; `SpendTransaction`'s constructor) | amounts after fee, outputs, change, cover sets of the inputs | check, select, deduct the fee, fill outputs, add inputs, build | value conserved; fee borne exactly; each coin spent from a set that contains it |
| Fee estimate (`estimateSparkFee`) | none of its own | one call of coin selection | as coin selection |
| FFI boundary (`flutter_libsparkmobile.cpp`, the Dart wrappers) | native memory, thread-local `lastError` | allocate, unwind, report, read, free | no leak, no bad free, each failure reported to its own call |
| Mint creation (`createSparkMintRecipients`, `MintTransaction`) | none | build coins and proofs, or placeholders | its owner finds the coin |
| Coin identification and recovery (`Coin::identify`, `recover`) | none; the wallet keeps the entries | decrypt, validate, compute serial and tag | found by its owner only, once; seen spent exactly when it is |
| Linking tag hashing (`hashTags`, `hashTag`) | none | read a point in either form, hash it | one tag, one hash, whatever its form |
| V2 wire format and verification (`spend_transaction.h`, `.cpp`) | none | serialise, parse, verify | what is built can be written; one encoding but for the spelling of points |
| Spark names (`sparkname.cpp`) | none | size, commitment, ownership proof | commitment and size, taken before the proof, are those of the published script |
| Keys, addresses, ownership proofs (`keys.cpp`) | native full view key | derive, encode, prove, verify | a proof is accepted for its message and address only |
| Address encoding (`bech32.cpp`, `f4grumble.cpp`) | none | encode, decode | decode accepts exactly what encode writes |
| Proof systems (`grootle.cpp`, `bpplus.cpp`, `chaum.cpp`, `schnorr.cpp`) | none | prove, verify | completeness, soundness |
| Transcript, hashing, encryption (`transcript.cpp`, `hash.cpp`, `kdf.cpp`, `aead.cpp`) | hash state | absorb, derive, encrypt | unambiguous encoding |
| Logging (`lib/src/logging.dart`) | debug flags, callback | log before and after each call | changes what a call does only if a callback throws |
| Models, build hook, bindings, vendored libraries | none of the program's | | |

How they interact: everything is synchronous calls. A Dart isolate calls a
native function, which runs to its end on the isolate's current thread; the
Dart side then reads the result, frees it, and, when the result is null, asks
`native_last_error` on the same thread for the reason. `createSparkSpendTransaction`
calls `SelectSparkCoins` and so does `estimateSparkFee`. The only state the
library shares between calls is the thread-local reason, the C heap and the log
settings. Everything else that lasts is the wallet's: the coins it recovered, with
their contexts and tag hashes, a quoted fee, the draft of a name. Several
promises of the library are about such a wallet, which calls it again later with
what it got, and the log callback runs in the middle of a call.

What is hard: the interplay of fee and coins in a loop without a bound; sums and
limits at their edges; steps whose checks repeat or rely on earlier ones; a dozen
allocations any of which can fail; a reason that is stored by one call and read
by another while isolates move between threads; values taken before they are
final (a fee, a size, a commitment, a tag) that have to agree with what is made
later, by other code or on another device; bytes with more than one reading;
application code that runs in mid-call. `PROJECT.json` lists these hazards, each
with its line.

## Modules

| Module | Models |
|---|---|
| `Amounts` | totals: the accumulating loops of `spark.cpp` as recursive functions |
| `Powers` | powers, and the number a list of digits stands for |
| `CoinSelection` | `SelectSparkCoins`, `GetCoinsToSpend`, `estimateSparkFee` |
| `SparkSpend` | `createSparkSpendTransaction`, composed with `CoinSelection`, and the constructor's checks |
| `AtomicSpend` | abstract: what a wallet is promised, one answer to each request |
| `SpendRefinement` | the refinement mapping from `SparkSpend` to `AtomicSpend` |
| `FeeQuote` | a wallet that asks for a fee and spends later, composed with `SparkSpend` |
| `CoinRecovery` | minting, scanning, spending and tag comparison on several devices |
| `TagHashing` | `hashTags` and `hashTag` over a small curve |
| `SpendWire` | the V2 wire format, written and read |
| `SparkName` | the calls that register a Spark name |
| `AddressEncoding` | `Address::encode` and `decode` with F4Grumble and bech32m |
| `OwnershipProof` | ownership proofs of addresses |
| `FfiBoundary` | the native functions' memory and error reporting, with the Dart wrappers |
| `Logging` | `Log` and the logging around and inside calls |
| `AmountsProofs` | lemmas about totals, folds, quotients, powers and digits |
| `SparkSpendProofs` | theorems about `CoinSelection`, `SparkSpend` and `FeeQuote`; `SparkSpend` implements the safety part of `AtomicSpend` |
| `SparkNameProofs` | theorems about `SparkName` and `OwnershipProof` |
| `EncodingProofs` | theorems about `TagHashing` and `AddressEncoding` |
| `WireProofs` | theorems about `SpendWire` |
| `CoinRecoveryProofs`, `FfiBoundaryProofs`, `LoggingProofs` | theorems about each of these modules |
| `MC...` | the constants TLC tries |

### CoinSelection

A coin of the wallet's list is named by its position in it. `left` and `picked`
are the positions still in `GetCoinsToSpend`'s list and those moved to
`coinsToSpend`; the sorted list is the order `Precedes` on positions, whose last
case is the stability of `list::sort`. `fee`, `spend_val` and `call` are the
code's variables, `at` its control point.

| Action | Code |
|---|---|
| `SelectSparkCoins(c)` | entry: version and range checks |
| `StartRound` | head of the fee loop, entry of `GetCoinsToSpend`, every check before its loop |
| `TakeLargest` | `need >= itr->v`: the front of the list |
| `TakeSufficient` | otherwise: the backward scan, which stops at the first coin of the smallest sufficient amount |
| `FinishRound` | input count, size estimate, fee comparison, raise and the final check |
| `Return` | result or exception handed to the caller |

The sizes 924, 1803, 322, 34, 32 and 98 bytes, `MAX_MONEY`, the 32-bit size limit
and `MAX_CHAUM_V2_INPUTS` are constants, restricted only by
`LimitsAssumption`. Amounts are unbounded integers in the model: that the value
selected stays within the money range, so that the code's 64-bit additions do not overflow,
is part of `SelectTypeOK`. The per-item overflow test of the size is modelled by
the total it guards: items are added up, so one of the tests fails exactly when
the total exceeds the limit.

### SparkSpend

`Request` is what `cCreateSparkSpendTransaction` hands on: recipients and private
recipients with their fee flags, the wallet's coins, the cover sets in the
caller's order (the code's map keeps the last one of a group), the groups with a
block hash. Addresses, keys and memos are left out except that a memo may be too
long for a coin, which fails late, in the constructor.

| Action | Code |
|---|---|
| `CreateSparkSpend(r)` | request checks, call of `SelectSparkCoins` |
| a selection step | `CoinSelection`'s actions |
| `DeductFee` | V1's one input; the share of the fee and the remainder of each bearer |
| `FillOutputs` | transparent total, private outputs, change |
| `AddInput(i)` | one selected coin: its cover set, block hash, hash length and index |
| `BuildTransaction` | the constructor's checks, the new coins, serialisation |
| `ReturnSpend` | return of the native function |

The order of inputs within a group is not fixed by the model; nothing depends on it.

### FfiBoundary

Each native function is a list of steps (`Body`): work that may throw, `calloc`
and `malloc` that throw `bad_alloc` or are tested in place, and assignments of
`nullptr`. `Unwind` says what its `unique_ptr` frees on a throw, `Handler` what
its catch block allocates, `Reads` and `Frees` what the Dart wrapper does with the
result. A pointer is absent (its struct does not exist), unset (in memory from
`malloc`), null, live or freed; freeing or reading it in a state that does not
allow it makes it corrupt, which `FfiTypeOK` excludes. `lastError` records which
isolate's call stored the reason, per thread.

Functions of the same shape share a kind: `buffer` stands for `getAddress`,
`getAddressFromFullViewKey`, `serializeFullViewKey` and `hashTag`; `proof` for
`createSparkAddressOwnershipProof` and `cGetSparkNameCommitment`. A call that needs
a full view key opens it first and deletes it last. Functions that return an
integer or nothing have no memory to model. Catch-all clauses for exceptions that
are not `std::exception` are left out: nothing the functions call throws one. The
copy that `native_last_error` returns is freed in the step that reads it.

### AtomicSpend and SpendRefinement

`AtomicSpend` has three variables: whether a request is asked or answered, the
request, and the answer. `Settle` answers with any transaction that spends a
cheapest choice of coins, accounts for all their value, takes the fee from its
bearers and pays everybody else in full. `Refuse` needs a reason: the request
is malformed, no choice of coins pays, or some cheapest choice leaves a bearer
with nothing or cannot be bound to cover sets. `SpendRefinement` maps
`SparkSpend` to it: a request is answered by the step that builds the transaction or
throws, and everything before it stutters. Termination is part of the abstract
specification (`Answered`), so the fee loop's progress is shown with it.

### FeeQuote

The wallet's coins come (at either end of its list), leave when another device
spends them, and leave when they come back as `usedCoins`. `EstimateFee` and `TakeQuote` are
`estimateSparkFee`, `Pay`, the steps of `SparkSpend` and `EndPayment` are the
spend; both are synchronous, so the coins change only between calls. The quote
passes the counts a caller can know, the spend counts for itself.

### CoinRecovery

Group elements, hashes and ciphertexts are records of what they are computed
from, which makes hashing collision-free and encryption perfect: `validate` and
`recover` are then comparisons of terms, line by line those of `coin.cpp`. A
ledger holds transactions with their serial context, tags and coins. A device
`Scan`s a coin with the context of some transaction, usually the right one;
`Spend` identifies the whole list again, computes the tags of the inputs and
makes the outputs and the change with the tags as their context;
`HashTags` learns the tags of the ledger. `PostMalformed` is other software that
got a value, a serial commitment or a recovery key wrong. Fees and cover sets are in
`SparkSpend` and left out here.

### TagHashing

The curve y^2 = x^3 + 7 over a prime field of 31 elements, coordinates of two digits in
radix 6, of which the last is a letter. 31 is below 6^2, so there are coordinates that are not
reduced, as with secp256k1's prime below 2^256. `Deserialize`, `Serialized`, `FieldElement`
and `isMember` are the four functions of `GroupElement.cpp` the two calls use.

### SpendWire

The wire is a sequence of words, one for each fixed-width field. `Write` builds a transaction (`ConstructorError`,
`Constructed`) and writes it (`Writable`, `Written`); the read actions take a word at
a time, from that wire or from a foreign one whose words are arbitrary, and each has the checks
of the lines it maps. After the header come the proofs, whose words are points and scalars in the
order `Layout` gives; `ReadProofs` takes them in one step. A point has several words.
`GroupElement::deserialize` takes an x at or above the prime as x modulo it, any oddness byte
that is not the root's parity as the other root, and any x at all with an infinity byte that is set;
`serialize` writes x reduced and the parity, and the infinity byte as it was. `Respelt` is the function from the words `deserialize` accepts to the
word `serialize` then writes; `PointAssumption` says that what `serialize` wrote is read as it is, which follows
from those lines. A scalar has one word (`Scalar::deserialize` throws on overflow), so `ScalarWords` is a set.
`Deserialized` is what an object holds after reading, in `serialize`'s form; the provers return words of that form
(`ProversReturn`). `Relay` writes again what was read, from wherever, as `spend_transaction_test.cpp` does with
a wire of its own. The lengths the constructor's provers return (`ProverRounds`, from
`bpplus.cpp`) and those the format expects (`WireRounds`) are computed by different code and
modelled separately. The object read into may hold entries of an earlier read.
What is left in an object by a read that was refused is not modelled beyond that.

### SparkName

Strings are their lengths; the proof is the message it signs, the digest is
the spend and the script it covers. The wallet follows
`doc/H2_INTEGRATION.md` and `doc/SPARK_WALLET_INTEGRATION.md` of sparkmobile, which are not quite consistent about the
digest: the first passes the same `txHash`, "incomplete tx hash before Spark payload", to spend and name script, the
second builds the spend and then computes "ownership digest from the incomplete tx hash". `Digest` follows the second, which implies a spend and a
script without proof to hash. The calls, in order, are `Draft` (a script without proof),
`Commit`, `Spend`, `Prove`, and after a "hash fail" `Retry` with the next fail-safe and the same
spend. `badHashes` are the fail-safes for which the digest is no scalar, chosen in advance.

### AddressEncoding

Bytes and symbols have 3 and 2 bits, an address is three bytes, so as in the code the
symbols hold more bits than the bytes. Some byte strings are no point, one point has a
second spelling, one is the neutral element. F4Grumble's rounds are the code's, over an
arbitrary digest. The checksum code is ideal: a text says whether its checksum is right, for which
variant; error detection is the code's mathematics, not the plugin's logic.

### OwnershipProof

Scalars modulo 3; an element is its vector of coefficients over generators without
a known relation; the challenge is a random oracle that remembers what it was asked. Every
choice of randomness, challenge, and every replacement of one part of a proof is tried. In so small a
group chance matters, so `ProofIsBound` names the coincidences that let a proof pass.
All derived keys share `s2`, as in the code, so nothing may depend on it.

### Logging

An isolate's calls are a stack of frames, because a callback may call the library again.
A frame walks through BEGIN, the native call, reading, freeing block by block, deletion of the
key and END, as the Dart `try`/`finally` blocks order them; each log point whose level is enabled
hands control to the application, which may return, throw, change the levels or call.

## Runs

| Run | Shows |
|---|---|
| `coin_selection` | types, accounting, least fee, failures justified, never short, older coins first, termination |
| `spend` | types, value conservation, fee split, fee covers the outputs made, inputs bound to cover sets that contain them, repeated checks never fire, `AtomicSpend` is implemented |
| `ffi_boundary` | no corrupt pointer, no leak, reasons reported to their own call and never left behind |
| `fee_quote` | a quoted fee is kept as far as the coins have not changed, and the payment is funded |
| `coin_recovery` | only the owner finds a coin, and finds what it carries; spent coins are seen; the list a wallet passes is never refused and holds no coin twice |
| `spend_wire` | what is built or was read is written and read back; writing what was read respells points and changes nothing else |
| `spark_name` | the published name is one a node accepts, paid for exactly, and a spend once made is used |
| `tag_hashing` | both ways accept exactly the points of the curve and agree on the hash |
| `address_encoding` | decode accepts exactly what encode writes and undoes it; one network |
| `ownership_proof` | one proof is accepted for its message and address, and no other but by named chances |
| `logging` | the log is well bracketed; memory and answers are lost only as stated |
| `ffi_not_ours` | violated: a failed recovery can be reported as "not ours" |

Bounds, and why they are enough.

* `coin_selection`: every list of up to 3 coins with 4 amounts (zero included) and
  2 heights, 8 amounts to send on both sides of every threshold (negative, zero,
  at and above `MaxMoney`). The sizes are scaled down to 1 and the coins with
  them, so that raising the fee really changes the number of inputs, which with
  the code's sizes needs large sums; V2 allows 2 inputs, so the limit is hit.
  `MaxSize = 9` is exceeded by the calls with `additional = 4`.
* `spend`: all lists of up to 2 transparent and 2 private recipients over
  4 amounts and both flags, so the fee has up to 4 bearers and a remainder; a
  private output costs more than a transparent one, as in the code. Requests that
  the first checks refuse are added for each check, and one payment with lists of
  up to 2 cover sets over 3 groups, so that sets are
  missing, doubled, lack a coin, are too large or have a bad hash; wallets that
  span groups, group 0 among them, which the wrapper lets through and the
  constructor refuses. Group ids are the non-negative 32-bit integers the wrapper
  accepts, so none is above the constructor's limit.
* `ffi_boundary`: two isolates, two threads and two elements per list: an isolate
  can change its thread between calls, find the thread of the other, and fail
  between the elements of a list.
* `fee_quote`: a pool of four coins, two of them equal, so that the same coins can be
  held in different orders and the fee depends on which are held.
* `coin_recovery`: three transactions (enough to mint, spend, and scan or spend the
  result), two devices with one key and one with another, memos at the limit and above.
* `spend_wire`: up to 2 inputs and 3 outputs, so that outputs need padding; ids and counts
  on both sides of every limit; foreign words include the escape and one above it. Of the words for points and scalars
  one is a second spelling of a point, one is a point only and one a scalar only; `Tails` fills the proofs of every shape with them, all points
  alike and all scalars alike. A mistake of the layout would put a word where it is refused, and each word is read by itself, so mixtures add nothing.
* `spark_name`: lengths on both sides of a longer CompactSize; up to 3 retries, all
  sets of failing fail-safes.
* `tag_hashing`: all batches of two tags, all strings of up to one digit more than a coordinate has,
  in both cases, with a sign.
* `address_encoding`: every text of up to 6 symbols (an address has 5), each prefix wrong in one way.
* `ownership_proof`: two keys with two addresses each, two messages and one whose hash is no scalar.
* `logging`: three nested calls, results of two blocks.

Fairness. `SelectStep` and `SpendStep` are weakly fair: once entered, a native
function runs on the caller's thread until it returns. `SparkName`'s wallet is
weakly fair in its next call: it goes on with the registration it began, and gives up only after
the bounded number of retries. Nothing is assumed about who calls when: callers may never call.
Termination is then a property of the loops themselves, and
`SpendIsUsed` of the retry.

Deadlock is checked in every run: there is always a next call, or the wallet is
done (`Finished`). In `coin_recovery` a full ledger can still be scanned.

### The finding

`native_last_error` clears the reason even if it cannot allocate the copy it
returns, and `_recoverCoin` takes a null result without a reason for a coin that
is not ours. Out of memory, a failed recovery is thus answered with null, although the
documentation of `identifyAndRecoverCoin` says "Throws if recovery fails." All other
wrappers throw a generic "Native call failed" in this case.

### Results worth knowing

* The greedy loop is optimal in the number of inputs, and so in the fee.
* The V2 reader accepts several encodings of one transaction: they differ in how points are spelt, and in nothing
  else (`OnlyPointsRespelt`). The checks of counts, ids and the hash map make the header unique, and scalars are. Unlike `Address::decode`
  and `verifySparkAddressOwnershipProof`, which write a point again and compare, `SerializationOpV2` does not. Nothing in the
  repository says it should: its message "non-canonical Spark V2 cover-set map" is about the map, and the
  test that writes a transaction again starts from a wire of its own. So this is no finding, but a program that
  compares or hashes payloads should not take a payload for the only form of its transaction.
* A V2 call for an amount of zero fails with "Bad Spark V2 input count" even if
  coins could pay for the fee, because the first round runs without a fee and
  selects nothing. `FailureIsReal` excludes exactly this case.
* The guard `changeToMint < 0` and the check `spendInCurrentTx < 0` never fire.
* A V1 spend needs exactly one input, but selection does not know: a V1 request
  that one coin alone cannot pay fails after selection. `estimateSparkFee` therefore
  quotes a fee for V1 payments that the spend then refuses.
* The order of the wallet's list never changes the fee, and another coin never raises it.
* `validateAddress` can lose its answer to a null check: its warning is logged before
  the END, and a callback that turns debug logging on there makes the END dereference a `start`
  that was never set. No other wrapper logs a warning in mid-call. A
  callback that throws while a result is freed leaks the rest of it.
* An address decodes on any network; only `isValidSparkAddress` compares it. Minting and
  spending use `decodeAddress` and rely on the caller to have asked.
* The tag is bound to the serial context a wallet stores with a coin. A coin offered
  with the wrong context is not found, rather than found with a wrong tag.

## Proofs

Every invariant that a passing run checks is also a theorem. Each component's theorems rest on one or two
inductive invariants, which imply the safety
properties of the component's run. The step proof has one lemma per action, and `PROJECT.json` lists the
theorems. They hold for every value of the constants that satisfies the assumptions named in the modules;
TLC evaluates those assumptions in the runs.

| Module | Invariant | Properties proved from it |
|---|---|---|
| `SparkSpendProofs` | `SelectInv` | `SelectTypeOK`, `SelectionAccounted`, `LeastFee`, `FailureIsReal`, `NeverShort`, `OldestFirst` |
| `SparkSpendProofs` | `SpendInv` | `SpendTypeOK`, `ValueConserved`, `FeeBorneExactly`, `FeeCoversOutputs`, `InputsBound`, `RepeatedChecksHold` |
| `SparkSpendProofs` | `RefinementInv` | `Spec => Atomic!AtomicSafety`, the safety part of `ImplementsAtomicSpend` |
| `SparkSpendProofs` | `QuoteInv` | `QuoteHolds` |
| `SparkNameProofs` | `NameInv` | `NameTypeOK`, `PublishedIsAccepted`, `SizePaid` |
| `SparkNameProofs` | `OwnershipInv` | `ProofIsBound`, `OneProofAccepted` |
| `WireProofs` | `WireInv` | `WireTypeOK`, `OnlyPointsRespelt` |
| `WireProofs` | `OwnInv` | `ReadsBack` |
| `EncodingProofs` | `BatchInv`, `CoordinateInv` | `BatchIsExact`, `CoordinatesAreExact` |
| `EncodingProofs` | `Exact` | `DecodesExactly` |
| `CoinRecoveryProofs` | `RecoveryInv` | `RecoveryTypeOK`, `OnlyOwnerFinds`, `SpentIsSeen`, `ListNeverRefused`, `NoCoinTwice` |
| `FfiBoundaryProofs` | `FfiInv` | `FfiTypeOK`, `NothingLeaks`, `ReasonIsOwn`, `NoReasonLeftBehind` |
| `LoggingProofs` | `LogInv` | `LogTypeOK`, `WellBracketed`, `LeaksOnlyByCallback`, `AnswerLostOnlyByWarning` |

### Totals, folds and digits

`AmountsProofs` derives what is needed of `Total` and `Value` (types, monotonicity,
adding one coin) from the definition by an induction over a set of naturals that
contains 0 and successors, itself derived from the well-foundedness of < on the
naturals in the library. `FoldInduction` does the same for recursion over a finite set that
removes one element at a time, which is how the folds of the community modules go: a family of subsets that holds the empty set
and is closed under putting the removed element back holds every subset.

The same induction gives the laws of `Power` and `Horner`: the number of a list of n digits in base b is below
b^n; lists of equal length are ordered as their numbers are, so two lists with the same number are equal; a division by a
power drops the last digits and a remainder keeps them; the digits of a number have that number again.

### Coin selection

None of `LeastFee`, `FailureIsReal` and `NeverShort` is inductive. `SelectInv` adds:

* `ChecksPassed`: what the early returns have established (the amount and the
  balance are in range, the balance covers the amount of this round);
* `FeeIsLowerBound`: no choice of coins that pays has a smaller fee than the one
  the round asks for. It holds for 0, and a raised fee is the estimate for the
  fewest coins that cover a lower bound;
* `PickedDominate`: while coins are still needed, no choice of as few coins is
  worth more than those picked. This is the greedy argument: the coins picked
  before the last were each the biggest left, so every coin left is at most as big
  as each of them (`DominanceGrows`);
* `PickedFewest`: hence no choice that covers the round's amount has fewer coins.
  At the end of a round this makes the input count, and by `SizeMonotone` the
  size, a lower bound for every choice that pays. If the fee covers the size the
  choice is the least; if a limit is exceeded every choice exceeds it.

The lemmas about entering selection and about steps that leave it alone are stated for any caller.

### Spend creation and its refinement

`SpendInv` contains `SelectInv`, which carries over because `SparkSpend` runs selection as its own steps. It
adds what each stage has established: `Control` (what is set at which point), `RequestTaken` and `CountChecked`
(the early returns of the request and of selection), `OutputsFilled`, `InputsMade` and `BuildChecked`.
`ValueConserved` needs `FeeBorneExactly`: the loop that subtracts the fee from its bearers is followed by a
sum over all recipients, and only a bearer's share changes a summand. `FeeCoversOutputs` and `InputsBound` follow
from these parts.

`RefinesAtomicSpend` shows that a spend, which takes as many steps as it has coins and inputs, decides as `AtomicSpend`
does in one: the last step of a spend that succeeds is `AtomicSpend`'s answer, by `LeastFee`; a refusal is allowed by the
abstract specification, by `FailureIsReal`; every other step is a stutter. `RefinementInv` adds two
facts: a V2 request for nothing never gets past its first round, and a V1 transaction has one input. That a request is eventually
answered, the other half of `ImplementsAtomicSpend`, is left to TLC.

### Fee quotes

`QuoteHolds` compares two selections that never meet in one state. `QuoteInv` keeps of the first what does not depend on when it was made:
`QuoteIsLeast` says that the quote is the fee of the fewest coins, among those the quote was asked for, that pay. The second selection has the same property by `LeastFee`.
What is left is about the two lists of coins. The wallet names no coin twice (`WalletKept`), so a choice from the one list whose coins
are in the other is a choice from the other, of as many coins and the same value, in whatever order. Hence more coins
cannot raise the least fee, and fewer cannot lower it; and by `FailureIsReal` a selection over more coins fails only if it
exceeds the money range. The counts the quote passes and those the spend makes for itself
are shown to be the same.

### Spark names

`NameInv` ties the parts of a registration together across its calls: the draft is that of the current fail-safe, the spend is the
one made for the first draft, and the published script is signed over the digest. The commitment of a V2 spend is taken before
the proof exists, so `PublishedIsAccepted` needs `V2NeverRetries`: a retry would change the script after the spend
committed to it. A V1 name may be retried any number of times; the size of its draft does not depend on the fail-safe, hence `SizePaid`.

### Ownership proofs

`OwnershipInv` says that a proof in the wallet's hands was made by `prove_own` with some key, diversifier and three random scalars, and that the oracle has been asked for its
challenge. Elements are compared generator by generator (`HoldsAt`). With the proof's own challenge the verification equation then fixes each of the three responses modulo the
order, and unreduced scalars and other spellings of the commitment are refused: `OneProofAccepted`. For another address the generator of its diversifier is another one, so the
commitment must have no part in the generator of the proof's own, which is the first random scalar. For the same address the equation at that generator fixes the
challenge, because `s1` has an inverse; so another message needs the same answer to another question. `OwnershipAssumption` states what this takes: inverses modulo the order (it is
prime), an order above 2, keys that are not zero and are told apart by `s1`. The group secp256k1 has such an order, and `s1` is a hash of the key's data, so equal `s1` would be a collision.

### Coin recovery

`RecoveryInv` says that everything a device has found, spent or hashed refers to a coin that was properly made (`IsFor`). The terms of the
model are equal only when they are computed alike, so a coin's serial commitment names the coin; `SpentIsSeen` and `NoCoinTwice` follow from it.

### Wire format

`WireInv` describes a reader in the middle of a wire, at every stage: the words read so far are those that writing the fields read so far gives (`ReadSoFar`), and every check made on the way still
holds of the object. When the reader is done, the words are the header of the object and a spelling of its proofs (`Spells`), which gives `OnlyPointsRespelt`. It needs `HashesSorted`, that the map of block hashes is the set of a strictly ascending list of entries: an entry is read
only if its id is above the last, so the list a map is written from is the list it was read from. The escape of a CompactSize that is longer
than necessary (`Escaped`) is part of what has been read until the count it belongs to is refused.

`OwnInv` describes the reader of a wire of our own, written after construction or after reading: how many words it has read (`Place`) and that each field it has is that of the transaction sent (`Agree`). No check of the reader
refuses such a wire, because the constructor has made the same check or because it follows from what it built. The rounds of the range proof are the one place where the two sides compute
differently: the prover pads the outputs and counts how often the padded vector can be halved, the format looks for the least power that is large enough. `AmountsProofs`
and the first section of `WireProofs` show that these are the same for every number of outputs and every bit length.
The proofs of a wire of our own are in `serialize`'s form (`Made`): the provers' by assumption, those that were read because `Respelt` applied twice is `Respelt` (`ReadIsSerialized`).
Of points the proofs use only `PointAssumption`, so they hold for any number of spellings.

### Tag hashing

The answers of both calls are shown to be those of a definition without bytes (`BatchAnswer`, `CoordinateAnswer`), for every prime, radix and width. For a batch: the
comparison of bytes in `isCanonicalTag` is the comparison of numbers, so a tag that passes has a reduced coordinate; the negative of a root is a root of the other
parity, so whichever root `deserialize` finds, the flag is that of the point it returns, and serialising the point gives the tag back. For a pair of strings: leading zeros do not change a
number, a string with more than `Width` significant digits is not below the prime, and one of exactly `Width` is compared with it in lower case, where letters follow digits.
`FieldAssumption` says what is used of the field: the prime has as many digits as a coordinate (it is close to
2^256), it is odd, and no point has y = 0. The last is so for secp256k1, because a point with y = 0 has order two and its group has odd order.

### Address encoding

`Converting` is the invariant of the loop in `convertbits`: the groups written are the number read so far without its last bits, and the accumulator ends in those bits, although it is
cut off at `frombits + tobits - 1` of them. So conversion to symbols and back gives the bytes again, and a list of symbols that is converted without an
error is one that conversion to symbols writes: as many symbols as the bytes need, the padding zero. `vec_xor` undoes itself bit by bit, so each of the four
rounds of F4Grumble undoes itself, in both directions. `Exact` then says of a text that it is decoded exactly if it is one of those `encode` writes,
and to what was encoded. An address is three bytes, a byte and a symbol any number of bits. `DigestAssumption` asks of the digest only its size: as in the code, where SHA-512 covers a half of the address, it is long enough for the
longer half.

### FFI boundary

`ReasonInv` is the argument about the `thread_local` reason: two calls never share a thread, and a recorded reason is that of the call on the
thread, which is about to take it. `MemoryInv` says what every pointer holds before every step of every native function, of its catch block and of
the Dart wrapper's `finally`. Functions whose cleanup frees exactly what they allocate so far (`IsStraight`) share one argument;
`validate`, `proof`, `fee` and `name` have their own. The lists of cleanups are folds; `FreedAllOnce` shows that a list that names each block once frees each once.
The number of isolates, threads and items is arbitrary. `NoneAssumption` says only that the mark for "no reason" is neither an isolate nor a thread.
The proof attempt found two arms of the `CASE` of `Reads` that overlapped and so left its value open; they are disjoint now.

### Logging

`CallsInv` describes the stack. Every frame is in order by itself (`FrameInOrder`: what it holds, where it may be, what it may throw), and so is every caller with
the call it made (`CallInOrder`). Two parts are needed to get through the `finally` blocks: a `_deleteFullViewKey` past the deletion leaves its caller
without a key, and a caller whose deletion is over has no key, or a callback threw. A frame that waits for a callback is in order whatever the
levels are, which is why the application may change them there. `LogInOrder` describes the log: ids count up along the BEGINs and along the
stack, and since the BEGIN of an open call only calls that began later have ended. An END is always that of the innermost open call with an id, and
its BEGIN comes after those of the calls around it, so `WellBracketed` is kept.

### Only model-checked

Liveness: `SelectTerminates`, `SpendIsUsed`, and the answer that `ImplementsAtomicSpend` promises. Fairness and `ENABLED` are out of the prover's reach.
`NullMeansNotOurs` is not a theorem: its run finds it violated.

## Not modelled

* Cryptography as such. The proof systems (`grootle.cpp`, `bpplus.cpp`, `chaum.cpp`, `schnorr.cpp`), the
  transcript, key derivation, encryption and hashing are algebra over 256-bit fields or thin layers over
  OpenSSL; whether they are sound is not a question for a model checker. The modules above
  take them as ideal: terms that are equal only when computed alike, a random oracle, an ideal
  checksum, an arbitrary digest. Of the range proof, the size of its vectors is modelled.
* Verification of spends: the plugin only creates them. The V1 wire layout, which has no checks of its own.
* `generate = false` of mint creation, which fills scripts with placeholders of the right size.
* `forBlockHeight`, a comparison; a wallet that keeps its answer across the activation height gets a spend of the
  old version.
* `transaction.h` and `.cpp`: Bitcoin classes of which the plugin serialises one, `CTxIn`, for
  the context of a mint.
* Value classes, generated bindings, the build hook, the example application with its platform
  runners, and the vendored libraries have no state of the running program. Of the
  vendored code the model uses `MoneyRange`, the CompactSize functions and the point serialisation of
  secp256k1's wrapper.
* Base64, hex and length checks of the Dart wrappers, which are local and unit-tested.

## What would come next

Modelling and proofs are complete as far as described above: every safety property of a passing run is a theorem. A larger project would take up the
things left out: the V1 wire layout, the network of an address that `decodeAddress` ignores when minting or paying, and the
verification of spends.
