# Ferveo: TLA+ models, checks and proofs

Ferveo is a publicly verifiable distributed key generation (DKG) and a
threshold public-key encryption (TPKE) in Rust. A set of validators deals PVSS
transcripts on a chain, aggregates them into one public key, and later a
threshold of them decrypts ciphertexts made for that key.

This directory holds the specifications of those protocols as the code has
them, the TLC configurations that check them on small instances, and TLAPS
proofs, for every instance, of the DKG's safety and of what both variants of
decryption, the aggregation of transcripts, refresh, recovery and the subproduct
domain compute.

## 1. Inventory

| Component | Source | State | Operations |
|---|---|---|---|
| DKG state machine | `ferveo/src/dkg/pv.rs`, `ferveo/src/dkg.rs` | `DkgState` (Sharing with two counters, Dealt, Success with the cached key), the transcript map `vss` | `new`, `share`, `aggregate`, `final_key`, `verify_message`, `apply_message`, `increase_block`, serialization |
| Chain | outside the repository | the agreed sequence of messages | block proposal, delivery |
| PVSS transcripts | `ferveo/src/vss/pvss.rs` | none (values) | `new`, `verify_optimistic`, `verify_full`, `verify_aggregation`, `aggregate`, private key shares, decryption shares, their refresh and recovery |
| Validators, keys | `ferveo-common` | addresses, session keys | comparison, key pairs |
| TPKE setup, contexts | `tpke/src/lib.rs`, `context.rs`, `key_share.rs` | public and private decryption contexts | `setup_fast`, `setup_simple`, `create_share` |
| Ciphertexts | `tpke/src/ciphertext.rs` | none (values) | `encrypt`, validity check, decryption, bytes |
| Decryption shares | `tpke/src/decryption.rs`, `combine.rs` | none (values) | creation, verification, preparation, combination, in a simple and a fast variant |
| Client API | `tpke/src/api.rs`, `tpke-wasm/src/lib.rs` | the setup, the shares a `SharedSecretBuilder` has been given | payloads and shares as bytes, `add_decryption_share`, `build`, `encrypt`, decryption |
| Refresh and recovery | `tpke/src/refresh.rs` | private key shares | polynomials with a given root, updates, recovery by interpolation |
| Subproduct domain | `subproductdomain/src/lib.rs` | a tree of products | fast division, evaluation, Lagrange coefficients, interpolation, Toeplitz product |

How they interact. A validator's application posts what `share` and
`aggregate` return; a proposer runs `verify_message` on the messages of its
block; after consensus every validator runs `apply_message`, which repeats
none of the checks. From the aggregated transcript each validator decrypts a
private key share, makes decryption shares, and a client verifies and combines
them. Participants may refresh private key shares or recover a lost one.

What is hard here: a check at the proposal and its use after consensus are
separated by other messages; a counter is kept beside the map it counts, and
the quorum is computed from the one in `apply_message` and from the other in
`verify_message`; sessions are saved and resumed, possibly at an older height;
shares arrive in any order, damaged, repeated, for another ciphertext or never,
and are matched by position in one place and by index in another; the fast
Lagrange coefficients depend on that order; participants apply refreshes
and updates at different times; sums over transcripts, Lagrange coefficients
and the sign of `N(0)` must fit together, and nothing but a failed decryption
shows when they do not. `PROJECT.json` lists each hazard at its line.

What makes each part correct: replicas and final keys agree, Dealt means a
quorum of different dealers, nothing agreed is refused, the cached key is the
announced one, a session ends (DKG); the aggregate is a transcript of the final
key and its shares decrypt (PVSS); any threshold of shares that verify combine
to the secret, a checked ciphertext gives the text it was sealed with, and a
batch verifies when each share does (TPKE); coherent refreshes and recoveries
keep the secret (refresh); the fast algorithms compute what their definitions
say (subproduct domain).

## 2. Modules

```
PvDkg --- DkgChain --- MCDkgChain
                  \--- DkgRefinement --(implements)--> KeyGeneration
PrimeField --- Tpke --- TpkeSimple --- MCTpkeSimple
         |         \--- Refresh --- ShareUpdates --- MCShareUpdates
         |         |           \--- Pvss --- MCPvss
         |         \--- TpkeFast --- SharedSecretBuilder --- MCSharedSecretBuilder
         \--- SubproductDomain ---/
                              \--- MCSubproductDomain
```

The theorems are in modules that extend the ones they are about:

```
DkgRefinement --- DkgProofs
SubproductDomain --- PolynomialProofs --- InterpolationProofs --- TpkeSimpleProofs
                                     |                         |\--- ShareUpdatesProofs
                                     |                         |\--- PvssProofs
                                     |                         \--- SharedSecretBuilderProofs
                                     \--- MCSubproductDomainProofs
```

**PvDkg** is `PubliclyVerifiableDkg` of one validator as a record (`state`,
`accumulated_shares`, `vss`, `final_key`), with `VerifyMessage`,
`ApplyMessage` and the saved form of the state as operators named after the
functions. Group elements are abstracted to what the state machine compares:
the `F_0` of a transcript is the secret it commits to, a sum of group elements
is a formal sum of secrets, `sigma` is the secret of the proof of knowledge,
and a transcript has two further bits: whether its vectors have the session's
length, and whether its encrypted shares match the commitments (what
`verify_full` tests). `u32` differences keep their width (`U32`).

**DkgChain** is a session: one record per validator, a pool of posted
messages, and a chain. `Share`, `AggregateTranscripts`, `ApplyNext` and
`IncreaseBlock` are `share`, `aggregate`, `apply_message` and
`increase_block`; `SaveSession` and `Restart` serialize the session and resume
from what was saved, with the height it was saved at. `Propose` stands for the
chain (not part of the repository): an up-to-date proposer adds a block of at
most `MaxBlockMsgs` different messages, each verified against the state
*before* the block, which is how the comments at `pv.rs:126` and `171-173`
place the two functions. Posted messages stay in the pool, so each may be
included again. Faulty validators may post malformed Deals and Aggregates
(`Faults`); only the hosts in `Watchers` call `increase_block`, which changes a
counter that nothing reads.

**KeyGeneration** is what a session promises, without chain or replicas: one
contribution per member, a key fixed once as the sum of at least
`shares_num - security_threshold` contributions, members that learn that key
and may forget it on resuming. **DkgRefinement** maps a session to it: the
contributions and the key are read off the chain, what members know off their
cached keys.

**PrimeField** is arithmetic in a small prime field, its radix-2 domains and
polynomials. Groups are written through discrete logarithms, so that a point
`[a]G` is `a` and the pairing is multiplication; this keeps every equation the
code tests, and none that depends on the hardness of discrete logarithms.
**Tpke** holds the functions of `tpke/src` on such values, **TpkeFast** those of
the fast variant. The cipher and the hash to the curve are ideal. Vectors are
counted from 1.

**SubproductDomain** has the algorithms of `subproductdomain/src/lib.rs` on
coefficient sequences: Newton inversion of power series, division by reversal,
the tree, and the Toeplitz product with its three transforms written as the
cyclic convolution they compute. `ark_poly` is outside the repository; the model
takes from it that sums, differences and products drop leading zeros, that the
zero polynomial they return has no coefficients, and that `degree` (which sums
and differences call) asserts a leading coefficient other than zero. A panic is
a value, `Panic`, that callers pass on. The functions on a tree recur over the
sequence of its points, as recursive functions on sequences, so that they can be
proved about. **MCSubproductDomain** gives them inputs and reference
definitions.

**TpkeSimple** is a decryption with the simple variant, by clients that verify
shares and count them (`Decrypt`), that do neither (`DecryptUnchecked`: the
functions of the library do not), or that hold the private key
(`DecryptAlone`). The ciphertext need not be one that `encrypt` returned: its
text may be cut, extended or sealed under another secret, with the tag of the
one sent or with a tag of its own, and the additional data may be others, or
continue the text, from which nothing separates them in what the tag covers.
**SharedSecretBuilder** is one that uses the fast variant through the client
API: it holds several ciphertexts, sends payloads as bytes, reads shares from
bytes, and hands them to a builder that keeps what it is given. A damaged share
has another value or another `decrypter_index`, possibly one without a context,
on which `prepare_combine_fast` panics. Every failure of `build` is a panic, as
everywhere in the bindings: the model tells apart the one on the number of
shares (`"count"`), the one on the `Err` of the checked combination
(`"invalid_share"`) and those further inside (`"panic"`). Bytes are
sequences with one element per value of fixed width, so where a sequence is cut
(`SerializedSize`) and what `Ciphertext::to_bytes` leaves out are kept; `origin`
records, for the properties only, which ciphertext each share answers. **Pvss** is
the arithmetic of transcripts and of their aggregate, of shares refreshed or
recovered from it, and also checks the abstraction of PvDkg. Its number of
validators is a parameter of its own, limited only by the size of the domain:
`Pvss::new` deals a share to each validator and never reads `shares_num`.
**Refresh** has the
functions of `refresh.rs`, and **ShareUpdates** participants that call those
functions at their own pace.

Operators whose comment begins with "Seeded fault" are plausible wrong
versions of the definition below them; they serve to check that each property
can fail, and nothing else uses them. The MC modules and `.cfg` files only give
values to constants.

## 3. Runs

| Run | Module, config | Result | What it shows |
|---|---|---|---|
| `dkg_session` | MCDkgChain, DkgSession | holds | one message per block, a faulty validator: the checks at proposal suffice for the unchecked `apply_message` |
| `dkg_crash` | DkgRefinement, DkgCrash | holds | agreement across heights and restarts; the session implements KeyGeneration; every correct validator ends in Success |
| `tpke_simple` | MCTpkeSimple, TpkeSimple | holds | verified shares combine in any order; decryption is an `Err` exactly for a wrong tag, and gives the message exactly for the text that was sent |
| `tpke_fast` | MCSharedSecretBuilder, SharedSecretBuilder | holds | verified shares combine to the secret or, an odd number of them, to its inverse; with an even number of participants, building decrypts or panics in the one way that fits the shares that arrived; a batch verifies exactly when each vector does |
| `pvss_aggregate` | MCPvss, Pvss | holds | the aggregate is a transcript of the final key, and decrypts; so do its refreshed shares, and a lost share is recovered from it |
| `share_updates` | MCShareUpdates, ShareUpdates | holds | refresh and recovery keep the secret |
| `subproduct` | MCSubproductDomain, SubproductDomain | holds | the fast algorithms agree with their definitions, and where they panic |
| `dkg_batch_quorum` | MCDkgChain, DkgBatchQuorum | violated | finding 1 |
| `dkg_batch_key` | MCDkgChain, DkgBatchKey | violated | finding 2 |
| `dkg_bad_shares` | MCDkgChain, DkgBadShares | violated | finding 3 |
| `dkg_bad_length` | MCDkgChain, DkgBadLength | violated | finding 4 |
| `fast_odd` | MCSharedSecretBuilder, FastOdd | violated | finding 5 |

Bounds. DKG: three validators, `shares_num` 3 and threshold 1, hence a quorum of
two (exactly 2/3 of the validators, the code's condition `>=`; the comment at
`pvss.rs:54-56` says that their power *exceeds* 2/3): the smallest session in
which a quorum can be reached without one validator, a Deal can arrive after
Dealt, and an Aggregate can be overtaken by a Deal. A chain of four messages
holds all three Deals and an Aggregate; one more message could only be refused,
as Success accepts none. `MaxShares = 2` lets every validator deal twice, which
the code does not prevent (`dkg_session`); one restart is enough for a validator
to fall back to any saved height. `dkg_session` has no restarts, so what a
restore may lose (hazard at `dkg.rs:91`) is the subject of `dkg_crash` alone.
`U32` is 16; no run wraps it. Validators of the same role are interchangeable
(symmetry); `dkg_crash`, which checks liveness, does not use it.

TPKE and PVSS: the field of 5 elements, in which the domain of size 4 exists,
with threshold 2; every polynomial (`tpke_simple`), a basis of the polynomials,
in which everything is linear (`tpke_fast`), every vector over three
coefficients, up to three dealers, four validators for a `shares_num` of 3, and
ciphertexts with randomness 0 and 2 (PVSS). Four participants give selections of
2, 3 and 4 shares, so that the number can be smaller than, equal to and larger
than the threshold and of either parity. Share updates need a point outside the
domain, hence the field of 13 elements, with two secret polynomials, one
dealer's refresh, and every interleaving of it with one recovery, at the lost
point or at a new one. The polynomial identities involved are of degree below
the number of points used; a wrong coefficient or sign shows at these sizes.
`tpke_fast` has two ciphertexts, every wrong index for a damaged share, and four
received shares, enough for all four participants to answer once, for two
answers each, and for every mixture.

Subproduct domain: the field of 7 elements, polynomials of up to five
coefficients over {0, 1, 3} and every sequence of up to five of the points 0, 1,
2, 5 and 6, which has pairs that sum to zero and zero itself. Five points are
the fewest for which the Newton iteration takes the second step that can fail,
and give odd and even splits of the tree; a polynomial may have fewer, equally
many or more coefficients than the divisor, and fill the Toeplitz matrix exactly
or not.

Deadlock is not an error in these systems: a session, a decryption and a
recovery all end, and the bounds stop the rest.

Fairness (`dkg_crash` only). Weak fairness of `Share`,
`AggregateTranscripts` and `ApplyNext` for correct validators: they are steps a
validator's application takes on its own while it runs. Weak fairness of
`Propose` over all validators: the chain keeps including messages that verify,
which is the liveness of the consensus protocol and not of this code. Nothing
is assumed of faulty validators, nor that anyone saves or restarts. Restarts are
bounded; with unboundedly many the claim would be false.

## 4. Findings

1. `dkg_batch_quorum`: `apply_message` (`pv.rs:185`) inserts and counts a Deal
   without the repeat-dealer check that `verify_message` has. Two Deals of one
   validator in one block both verify before either is applied; the second
   replaces the first, both are counted, and Dealt is reached with too few
   dealers.
2. `dkg_batch_key`: `apply_message` recomputes the final key and ignores the
   Aggregate (`pv.rs:199`). A Deal before the Aggregate in the same block
   changes the key after it was announced.
3. `dkg_bad_shares`: `verify_aggregation` drops the result of `verify_full`
   (`pvss.rs:186`), so the check that `verify_optimistic` says is deferred to
   aggregation never takes effect. Without a dealer of this kind the property
   holds, for a reason that has nothing to do with the check (theorem
   `ConsistentUnlessFaulty`).
4. `dkg_bad_length`: nothing compares the length of a transcript's vectors with
   the session's, and `aggregate` uses `zip_eq` (`pvss.rs:314`), which panics.
   It does so only then (theorem `AggregationDefined`).
5. `fast_odd`: `lagrange_n_0` lacks the sign that `context.rs:9` documents; for
   an odd number of shares the combined secret is inverted and decryption
   panics.

Besides, `subproduct` shows a panic that depends on the order of arrival, which
its properties state exactly. `inverse_mod_xl` cuts its series with `resize`
(`subproductdomain/src/lib.rs:66`); if the last coefficient kept is zero, the
addition of the next iteration fails `degree`'s assertion. With five or more
points this happens to `inverse_lagrange_coefficients`, and so to
`prepare_combine_fast`, when the points of one half, in the order of the shares,
sum to zero: opposite roots of unity do. The same shares in another order
combine. The tests use random points or the natural order.

1 and 2 depend on what the chain does: with at most one DKG message per block,
or re-verification of each message just before it is applied, they do not
arise. That condition is exactly the assumption of the theorems below.

## 5. Proofs

### The DKG session

`DkgProofs` first proves `TypeCorrect`: every reachable state has its type, for
any finite validator set, any parameters (wrapping ones included), faults and
bounds. One lemma per operator (`ApplyMessageType`, `SaveRestore`, ...) and one
step per action. It also proves where transcripts come from. Since
`apply_message` repeats no check, and a restart brings back a saved session, the
inductive invariant `OriginInv` speaks of both: every Deal on the chain passed
`verify_message`, and each transcript of a running or saved session is that of a
Deal among the messages the session had applied. `TranscriptsFromDealers`
follows; so do, with the constant `Faults` restricted, the two properties that
findings 3 and 4 refute.

Then agreement. None of its properties is inductive:
two validators at the same height agree because each got there by applying the
same messages, and a restart may take one to a height where no other validator
is. The inductive invariant `IInv` is `TypeOK /\ ReplayInv`, where `ReplayInv`
says that there is a run `S[0], ..., S[m]` of the state machine over the chain,
at least as long as any validator's height or saved height, of which every
session, running or saved, is the member at its height. `ApplyNext` extends the
run or follows it, `Restart` moves inside it because deserialization undoes
serialization (`SaveRestore`), and `Propose` only adds messages above it.

Under `MaxBlockMsgs = 1` the run is moreover `Checked`: each message on the
chain verified against the session just before it (so at most one message is
ahead of the run), the counter equals the number of dealers, later sessions
keep the transcripts of earlier ones, and a key was announced. `VerifiedStep`
is the one lemma about a verified message that the theorems with this
assumption rest on. Without it the properties fail, as findings 1 and 2 show for
two of them. `OversizedQuorumBlocks` is the negative counterpart of
`EventuallySuccess`: with `shares_num - security_threshold` larger than the
number of validators, wrapped or not, no session ever leaves Sharing.

Last, a session implements KeyGeneration. The
abstract contributions and key are read off the chain, while `verify_message`
reads the proposer's session, so the two have to be connected: the member `S[h]`
of the run holds exactly the transcripts of the Deals among the first `h`
messages, one per dealer (`ReadOff`), and an Aggregate is the last message of
the chain (`AggregateIsLast`). A proposed Deal is then a first contribution, a
proposed Aggregate fixes the sum of a quorum of contributions, a validator that
applies the Aggregate learns that key, a restart may forget it, and every other
step is a stutter. Liveness is not part of KeyGeneration.

| Theorem | States | Assumes |
|---|---|---|
| `TypeCorrect` | `Spec => []TypeOK` | constants' types |
| `TranscriptsFromDealers` | `Spec => []TranscriptsAreDealers` | |
| `AggregationDefined` | `Spec => []DealtCanAggregate` | `"bad_length" \notin Faults` |
| `ConsistentUnlessFaulty` | `Spec => []SharesAreConsistent` | `"bad_shares" \notin Faults` |
| `OneReplay` | `Spec => []IInv` | |
| `SameHeightSameSession` | `Spec => []ReplicasAgree` | |
| `OneFinalKey` | `Spec => []KeyAgreement` | |
| `QuorumReached` | `Spec => []QuorumOfDealers` | `MaxBlockMsgs = 1` |
| `OversizedQuorumBlocks` | `Spec => []AllSharing` | `MaxBlockMsgs = 1`, a quorum larger than the validator set |
| `AggregateAccepted` | `Spec => []OwnAggregateVerifies` | `MaxBlockMsgs = 1` |
| `NoAgreedMessageFails` | `Spec => []AgreedMessagesApply` | `MaxBlockMsgs = 1` |
| `KeyAnnounced` | `Spec => []FinalKeyWasAnnounced` | `MaxBlockMsgs = 1` |
| `NoTranscriptReplaced` | `Spec => TranscriptsAreKept` | `MaxBlockMsgs = 1` |
| `ImplementsKeyGeneration` | `Spec => GeneratesOneKey` | `MaxBlockMsgs = 1` |

The assumptions on constants are those named in `PvDkg` and `DkgChain`: a
finite validator set without the outside address, parameters in the range of
`u32`, a `NoKey` that is no sum of secrets (`NoKeyAssumption`), and
natural-number bounds. The bounds are arbitrary, so the theorems hold for any
number of messages, blocks and restarts.

### The field and interpolation

`PolynomialProofs` derives the laws of a field from `PrimeAssumption`, which
only says that `P > 1` and that no product of two residues other than zero is
zero; inverses then exist because multiplication by such a residue is injective
on a finite set. Sums, products, powers and values of polynomials are recursive
functions over an index. The facts about them need induction, which the library
offers only with an operator as a parameter; here it is done with sets:
`Induction` says that a set with 0 that is closed under successor holds every
natural number, from the least-element form of well-foundedness, and each fact
is stated as membership in the set of numbers it holds for.

`InterpolationProofs` proves `LagrangeInterpolates`, the identity that all of
threshold decryption rests on: at `n` different points, the values of a
polynomial with at most `n` coefficients, weighted with what `lagrange_basis_at`
computes for `x`, add up to its value at `x`. Induction on `n`: synthetic
division by `x - a`, with `a` the last point, leaves a polynomial with one
coefficient less on one point less, and a constant; constants are met because
the coefficients add up to 1 (`PartitionOfUnity`, itself an induction that
removes the first and the last point). `SharesCombine`, `UpdatesVanish` and
`RecoveryGivesValue` put this in the form in which decryption and recovery
use it; `RootPowersDiffer` provides the different points, from a primitive
root of unity of the order of the domain.

### Decryption, aggregation, refresh and recovery

| Module | Theorem | States |
|---|---|---|
| `InterpolationProofs` | `LagrangeInterpolates` | as above |
| `TpkeSimpleProofs` | `TypeCorrect` | `Spec => []TypeOK` |
| | `VerifiedSharesGiveSecret` | `Spec => []AnyVerifiedSharesCombine` |
| | `PositionalCheckIsEnough` | `Spec => []PositionalCheckSuffices` |
| | `PrecomputedSharesGiveSecret` | `Spec => []PrecomputedSharesAgree` |
| | `DecryptionOutcomes` | `Spec => []DecryptionOutcome` |
| `PvssProofs` | `TypeCorrect` | `Spec => []TypeOK` |
| | `FullCheckIsExact` | `Spec => []FullCheckOfAggregate` |
| | `AggregateHasFinalKey` | `Spec => []AggregateIsOfFinalKey` |
| | `AggregateSharesDecrypt` | `Spec => []AggregateDecrypts` |
| | `RefreshedAggregateDecrypts` | `Spec => []RefreshedSharesDecrypt` |
| | `RecoveryFromAggregate` | `Spec => []RecoveredFromAggregate` |
| `ShareUpdatesProofs` | `RefreshedSharesGiveSecret` | `Spec => []RefreshKeepsSecret` |
| | `VerifiedSharesGiveSecret` | `Spec => []VerifiedUpdatedSharesCombine` |
| | `RecoveredSharesGiveSecret` | `Spec => []RecoveredShareCombines` |
| | `RecoveryRestoresLostShare` | `Spec => []RecoveryRestoresShare` |
| `PolynomialProofs` | `TreeEvaluateGivesValues` | `SubproductTree::evaluate` gives the values of the polynomial at the points, unless it panics |
| | `LagrangeFromTreeIs` | `inverse_lagrange_coefficients` gives each point the product of its differences to the others, none of them zero, unless it panics |
| | `FewPointsHaveLagrange` | it does not panic for up to four different points |
| | `DivisionIsEuclids` | `fast_divide_monic` is Euclid's division, for any monic divisor, unless it panics |
| | `InterpolateIsInverse` | interpolation undoes evaluation, unless the Lagrange coefficients panic |
| | `ToeplitzMulIs` | `toeplitz_mul` is the product of the matrix and the vector, for every size |
| `MCSubproductDomainProofs` | `DivisionAlwaysEuclidean` | `Spec => []DivisionIsEuclidean` |
| | `TreeAlwaysEvaluates` | `Spec => []TreeEvaluates` |
| | `LagrangeAlwaysFromTree` | `Spec => []LagrangeFromTree` |
| | `InterpolateAlwaysInverts` | `Spec => []InterpolateInverts` |
| | `ToeplitzAlwaysProduct` | `Spec => []ToeplitzIsProduct` |
| `SharedSecretBuilderProofs` | `TypeCorrect` | `Spec => []TypeOK` |
| | `VerifiedSharesGiveSecret` | `Spec => []VerifiedSharesCombine` |
| | `BuildGivesMessage` | `Spec => []BuildDecrypts`, if `SharesNum` is even |
| | `BatchVerification` | `Spec => []BatchVerifyIsConjunction` |
| | `FewSharesAlwaysPrepare` | `Spec => []FewSharesPrepare` |

*Simple variant.* The properties compare shares with a ciphertext and contexts
that type correctness leaves arbitrary, so the invariant says where they come
from: the contexts are `SetupSimple` of the polynomial, the ciphertext is one of
those considered for its key (`Ciphertexts`), and no decrypter has two shares
among those received. A share that passes `verify` has the value of its
decrypter's key share (`VerifiedValue`: blinding factors and the randomness can
be cancelled because they are not zero), and `SharesCombine` does the rest.
`DecryptionOutcome` is inductive together with this invariant. It does not say
that decryption never panics, which is false: a text that was tagged without
being sealed under the shared secret, by a dishonest encryptor or by moving
bytes between text and additional data, passes `check_ciphertext_validity`, and
the cipher's result is unwrapped (`ciphertext.rs:155`). It says that with the
right secret nothing else panics, that the message comes out of the text sent
and of no other, and when there is an `Err`.

*Aggregation.* The aggregate is a transcript of the sum of the dealers'
polynomials (`AggregateCoeffs`, `EvaluatePolySum`), so its shares are values of
one polynomial. `verify_full` on the aggregate is exact because at most one
dealer is inconsistent (`OneInconsistent`), so that nothing cancels its error
(`SumsDiffer`); with two inconsistent dealers, errors that cancel would pass, and
the model does not claim otherwise. The other conjunct, that `sigma` is the
first coefficient, is what `verify_optimistic` of the aggregate needs. The proof
of `RefreshedSharesDecrypt` showed that its claim that refreshed shares no longer
verify needs a ciphertext whose randomness is not zero, which the property now
says.

*Refresh and recovery.* A participant's share depends on the refreshes it has
applied, a fragment on the share and the updates at the time it was made, and
both may change before the fragment is used. The invariant fixes each as a value
of a polynomial: a share of generation `g` is the value of the secret polynomial
plus the first `g` refreshes (`Generation`, `SharesInv`), the updates are values
of polynomials that vanish at the lost point (`UpdatesInv`), a fragment is a
share plus the updates it was made with (`FragmentsInv`), and what was recovered
is the interpolation of some fragments (`RecoveredInv`). Coherent fragments are
then values of one polynomial (`CoherentValue`), whose value at the lost point
does not depend on the updates.

*Subproduct tree.* The tree recurs over the sequence of its points, each half
shorter than the whole, so a fact about it is proved by `TreeInduction` on the
length (a set of points with the single points and, with two halves, their
union, holds all). A polynomial enters the proofs through its values and through
its slopes, the values of its derivative: `PolyMulIs` says that values multiply
and that slopes follow the product rule, whatever leading zeros the
representation drops. Hence the product of the tree is monic, vanishes at its
points and has there the slope `Spread`, the product of the differences to the
other points (`MonicProduct`, `TreeIs`). A division subtracts a multiple of the
divisor, so, whatever quotient the Newton iteration comes up with, the
remainder keeps the values at the roots of the divisor (`DivisionIs`,
`RemainderIs`); and what arrives at a leaf is a constant, since the code's
assertion on degrees would have panicked otherwise. That is
`TreeEvaluateGivesValues`, and `LagrangeFromTreeIs` is its instance for the
derivative. Neither needs the quotient to be right: where the iteration fails,
the code panics rather than return a wrong value.

*Division.* That the quotient is right is a fact about power series. Coefficients
are functions on the natural numbers, `Times` is their product (unfolding it by
the first coefficient shows it commutative and associative), and a
step of the iteration doubles the number of correct coefficients of the inverse
(`NewtonDoubles`, `InverseIs`). Reversing the dividend and the divisor turns the
quotient into the first coefficients of one series times the inverse of the
other, and reversing back turns its product with the divisor into the top
coefficients of the dividend, so that the remainder is shorter than the divisor
(`ReversedProduct`, `DivisionIsEuclids`).

*Where it panics.* The first step of the iteration always succeeds; the second
fails exactly if the first ends in a zero and the divisor has later coefficients
(`ShortInverse`). For a product of `x - u[i]` that zero is the sum of the points,
and there are later coefficients because different points with sum zero are not
the roots of a power of `x` (`TreeSecond`, `TreeIsNoPower`). So the panic is
characterised for divisions with at most two steps (`DivisionPanics`). With four
points no division reaches a second step, so evaluation fails only at a zero
(`SmallTreeSucceeds`, by induction on the tree: a remainder is zero at no point
where the dividend is not); of up to eight points each half has at most four, so
that only the division at the root can fail otherwise (`TreePanics`,
`LagrangePanics`).

*Interpolation and the Toeplitz product.* `linear_combine` down the tree has at
each point the value `d[k]` times `Spread` (`CombineIs`), and a polynomial with
as many roots as coefficients is zero (`FewRoots`); so the combination with the
inverses of the Lagrange coefficients is the polynomial interpolated. The three
transforms of `toeplitz_mul` are a cyclic convolution in the domain of twice the
size; the element of the circulant that meets `v[k]` is the coefficient `i + k`,
or one of the zeros between (`CirculantEntry`), and the domain is large enough
that nothing wraps onto it.

`MCSubproductDomainProofs` puts these together for the run's specification. Its
invariant `IInv` says that the points are different elements of the field and that
the polynomial has no leading zero, which is what `degree` asserts.

*Fast variant.* The invariant `IInv` says that the setup is that of a polynomial
and of blinding factors, the ciphertexts are encryptions under its key, each
share received is an answer to one of the payloads or a damaged one, at most one
is damaged, and the outcome is what the code computed from them. A prepared key
share is then known in closed form: by `LagrangeFromTreeIs` it is the value of
the polynomial at the participant's point, blinded, times the product of the
other points over the product of the differences, with a sign from
`multiply_by_omega_inv` and none from `lagrange_n_0` (`FastCoefficient`,
`PreparedIs`). This is the Lagrange coefficient at zero up to `(-1)^n`
(`SignedProduct`), so `LagrangeInterpolates` gives the secret for an even number
of shares and its inverse for an odd one, which is finding 5 for every size.
`BuildGivesMessage` assumes an even number of participants for this reason;
`fast_odd` shows that it must. Up to four shares are always prepared, whatever
their order (`FewSharesAlwaysPrepare`). A share verifies exactly when it is the
answer to that ciphertext (`VerifiedIsAnswer`). In a batch, a damaged share
changes one term of one sum by a product of three factors other than zero
(`BatchTerm`, `SumsAgree`); with two damaged shares the errors could cancel for
some scalars, and the property does not claim otherwise.

These theorems hold for every prime, threshold, number of participants and
dealers, and every order of arrivals. Their assumptions on constants are those
of the modules: `PrimeAssumption`; `SetupAssumption`, that the threshold is
between 1 and `SharesNum` and that the field has a domain of the size the code
asks for, which the scalar field of the curve has for every size in use;
`SimpleAssumption` and `PvssAssumption`, that blinding factors and session keys
are not zero (the code inverts them and would panic), that each validator has a
point of the domain and, for the simple variant, that the randomness of a
ciphertext is not zero; `UpdatesAssumption`,
the same for refresh, with `SharesNum` a power of two and a threshold of at
least two; `BuilderAssumption`, that blinding factors, the randomness of
ciphertexts and the scalars of a batch are not zero; `InputAssumption`, that
there are at most eight points, fewer than the field has elements, and at most
five coefficients, which is what "at most two steps" amounts to. It limits where
the functions are said to panic, and only in `MCSubproductDomainProofs`: what they
compute is proved for every length in `PolynomialProofs`.

### Only model-checked

Every invariant that a passing run checks is the statement of a theorem, and so
are `TranscriptsAreKept` and the refinement of KeyGeneration. Liveness under
fairness, `EventuallySuccess`, is outside the prover's reach and stays with TLC,
as do the five counterexamples. Where a division panics after a third step of
the Newton iteration, that is for a quotient of more than four coefficients, as
in trees of more than eight points, is neither checked nor proved: there the
theorems say only that what is returned is right.

## 6. Not modelled

`VssState` is never used. The hash to the curve and the pairing arithmetic are
numeric code over a 381-bit field. The serde and byte wrappers of public and
private keys are library calls; the Python binding forwards to the payload
functions that are modelled. `Ciphertext::check` is never called, and
`verify_blinding` only by a test and the benchmarks. `fast_multiexp` is the
identity on discrete logarithms. Benchmarks and examples only drive the library.
The recovery test of `ferveo/src/lib.rs` combines with the Lagrange coefficients
of the remaining validators, so that the recovered share, which is last, is
dropped; `RecoveredShareCombines` combines at the recovered point instead. Zero
session keys and blinding factors, which the code would meet with probability
about 2^-255 and then panic on, are excluded by the constants.

Some inputs are left out where a function is modelled.
`PubliclyVerifiableDkg::new` returns `Err` when there is no domain for
`shares_num` or `me` is not in `validators`; it leaves no session, so the model
starts from those it does return. `validators` is a set there: a list with an
address twice, which `new` accepts, is not considered. A transcript has at least
one coefficient: without one, `coeffs[0]` panics in the check itself
(`verify_optimistic`, `verify_aggregation`), at a proposer, where the model says
nothing of panics. A subproduct domain has at least one point;
`SubproductTree::new` without one does not return. Batches of vectors of
different decrypters or lengths are outside `BatchVerifyIsConjunction`.

## 7. Plan

Order of work, by importance: the DKG session with its composition, agreement
and refinement; the PVSS and TPKE arithmetic that the DKG abstracts; clients of
both TPKE variants; refresh and recovery, alone and on an aggregate; the
subproduct domain under the fast variant. All of these are in place, and so are
the proofs. What could be added:

1. The exact condition under which a third or later step of the Newton
   iteration fails, in terms of the points.
2. Batches with more than one damaged share, where errors can cancel, as a
   statement about the number of scalars for which they do.
