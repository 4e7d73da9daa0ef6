# Verification of shell-sdk

TLA+ models of the TypeScript SDK in `src/src`: checked with TLC on small
instances, and proved with TLAPS for every value of the constants where that is
possible.  Line numbers below are those of the files in `src/src`.

## 1. The system

The SDK is a library in one process.  It has no threads; its concurrency is that
of the event loop.  A call runs undisturbed from one `await` to the next, and at
every `await` other calls, timers, the caller and the node take steps.  Caller and
library share mutable objects (options, keystores, hash buffers), so what was
read before an `await` may be stale after it.  Nothing is persisted by the
library; what survives is on the node or in files of the caller.

| component | state it keeps | operations | interacts with | what is hard |
|---|---|---|---|---|
| receipt polling (`contracts.ts` 369–428) | deadline, timers, request under way, local to a call | `waitForTransactionReceipt` | provider, platform timers | a race that is decided twice, timers that overflow or stay armed, a node that never answers |
| calls through an ABI (`contracts.ts` 137–365, 515–534) | none | `encodeFunctionData`, `decodeFunctionResult`, builders of calls and deployments, `readContract` | viem, provider, transactions | overloads, looked up twice; 32-byte addresses nested in types viem believes to have 20 |
| contract calls (`contracts.ts` 276–290, 430–513) | a copy of the options, nonce, key decision, the submitted hash | `deployContract`, `writeContract` | signer, provider, receipt polling | the nonce and the key are read long before they are used; a failure after submission |
| signer (`signer.ts`) | its adapter, `disposed` | `sign`, `buildSignedTransaction`, `dispose` | adapters; several signers may share one | disposal between the reads of a call and its signature |
| signing adapters (`adapters.ts`) | its own copy of the keys, or null | `sign`, `dispose`, `fromKeyPair` | signer, keystore, sessions | copies against buffers that are cleared |
| keystore (`keystore.ts`) | password bytes, derived key and plaintext while a call runs | `decryptKeystore`, `withDecryptedKeystoreSigner`, validation | adapters, the caller's object | clearing on every path, the object changes during the KDF, a signer that outlives its callback |
| session keys (`session.ts`) | none; captures fields across awaits | `createSessionAuth`, `finalizeSessionAuth`, `computeSessionAuthHash` | root and session adapters, bundle hashing | what is signed against what is returned |
| transactions and bundles (`transactions.ts`) | none | builders and hashes | signer, sessions, paymaster | one hash, computed by several parties at different times; integers of three widths and a gas budget checked in two places |
| provider (`provider.ts`) | its URL and key | creation, `request`, `sendTransaction`, the two history methods, 39 single calls | node | answers that are lost, replaced or name another hash; which error means "no such method"; two API versions |
| pqabi compiler (`pqabi-compiler.ts`) | source text, edits, maps of names and selectors, the place of the scan | `compilePqabi` | solc | offsets into a text that changes, selectors and constants that collide |
| HD wallet (`hdwallet.ts`) | none; records are the caller's | seeds of two releases, derivation, paths, records | adapters | a wallet is restored from words typed anew, by a release that reads them differently |
| contract artifacts (`contracts-compiler.ts`) | artifact files | compile, save, load | solc, command line | written in place, read meanwhile, interrupted |
| command line (`cli.ts`) | artifact and contract of a `smoke` run | `compile`, `deploy`, `read`, `write`, `smoke` | everything | five steps that hand each other a file others can write |
| addresses, validation, system contracts, types | none | pure functions | | |

What makes each correct:

* **receipt polling** – one verdict, never early, never a receipt past the
  deadline or of another transaction; it always comes; nothing stays behind.
* **contract calls** – the verdict is true of the transaction; calls one after
  the other use different nonces; a needed public key is sent along; what is
  submitted is what was asked for; a disposed signer signs nothing.
* **calls through an ABI** – the function that runs is the one named, with the
  arguments given, and its answer is read as its own, every address whole.
* **keystore, adapters** – no secret outlives a call except in a signer it
  returned; a signer belongs to the keystore that was validated; a scoped signer
  is dead when the scope ends.
* **session keys, bundles** – the outer, the session and the paymaster's signature
  cover the bundle that is submitted; its terms are those the root granted.
* **builders** – what is signed can be run: a bundle does not run out of gas
  half-way, its value is what its calls move, everything fits its width.
* **provider** – a result means executed once, a refusal means not executed,
  "not reported" means that the node said so; the pages of a history fit together,
  and the end is the end.
* **HD wallet** – a record and the words give the key again, other words or other
  indices never do.
* **artifacts, command line** – a command acts on one whole artifact; `smoke` acts
  on its own; exit 0 means that everything was done.
* **pqabi compiler** – the lowered source is the original with each construct
  replaced in place; the compiled contract answers to the original selectors and
  emits the original topics; constants of users stay.

## 2. Modules

| module | models | checked by | proved in |
|---|---|---|---|
| `ReceiptPromise` | what a receipt wait promises (abstract specification) | – | – |
| `ReceiptWait` | the polling loop; implements `ReceiptPromise` | `receipt_wait`, `receipt_wait_long_poll` | `ReceiptWaitProofs` |
| `Submission` | contract calls, signers, adapters, provider and node together | `submission` | `SubmissionProofs` |
| `SessionFlow` | sessions, bundles, paymaster and signer together | `session_flow`, `session_flow_documented_order`, `session_flow_default_type` | `SessionFlowProofs` |
| `KeyCustody` | keystore, adapter and signers together | `key_custody`, `key_custody_mixed_file` | `KeyCustodyProofs` |
| `HistoryPaging` | the two history methods and their fallback | `provider` | `ProviderProofs` |
| `RpcClient` | creation of a provider, its single calls, answers and errors | `provider` | `ProviderProofs` |
| `PqabiLayout` | ranges of a source, what the AST guarantees about them | `pqabi` | – |
| `PqabiEdits` | the passes of source edits, translation of ranges | `pqabi` | `PqabiProofs` |
| `PqabiDispatch` | renaming of overloads, restored dispatcher | `pqabi` | `PqabiProofs` |
| `PqabiSignatures` | restored event topics and error selectors | `pqabi` | `PqabiProofs` |
| `Builders` | the builders of transactions and bundles, up to the hash | `offline` | `OfflineProofs` |
| `ContractAbi` | functions found by name, values encoded and decoded | `offline` | `OfflineProofs` |
| `HdWallet` | seeds, derivation, paths and records | `offline` | `OfflineProofs` |
| `ArtifactStore` | what the commands promise about artifacts (abstract specification) | – | – |
| `ContractCli` | the commands, the artifact files and the chain together; implements `ArtifactStore` | `contract_cli` | `ContractCliProofs` |

`MC…` modules give the constants small values.  `MCPqabi`, `MCProvider` and
`MCOffline` put modules that share no state side by side: a behaviour belongs to
one of them, so the run explores the sum of their states and not the product.
The phases of `compilePqabi` hand each other text and look at different parts of
it, which is why each starts from all its own initial states.  Deliberate faults, marked so in
the modules, are forms of a definition with a plausible bug; each property fails
for at least one of them.

Conventions: a step is the code between two awaits.  An object the caller keeps
is a variable that an action named `Caller…` may overwrite whenever the caller
can run.  The node, the platform and solc are external and do whatever the code
has to cope with; what the code relies on is said in the module's header.
A hash or a signature is the record of what it covers.

### ReceiptWait
`pc` is the place in the `while` loop; `rpc`, `timer` and `nap` are the request,
the deadline timer and the sleep that are out; `race` is what settled
`Promise.race` first.  `WhileTest`, `Poll`, `Resume`, `Examine` and `Sleep` are
the code between two suspensions *or two readings of `Date.now()`*, so that the
clock may move between test and use.  `TimerFires` is `checkDeadline`: it rejects
or re-arms.  `PlatformDelay` is Node's and the browsers' `setTimeout`, for which
a delay above 2^31−1 is 1 ms.  Timers may fire `TimerSlack` early or any time
late.  Not modelled: a clock that runs backwards.

### Submission
One process per call.  `request` is the code's copy of the options, `live` the
caller's object, `wire` what went to `shell_sendTransaction`.  `CheckDeadline` and
the loop are replaced by the outcomes of the wait (`ReceiptArrives`, `WaitFails`).
The node has a pool, a chain, counts and registered keys.  It serves requests
after any delay, also once the client has given up; `AckArrives` compares the
acknowledged hash with the expected one, as `sendTransaction` does.  What the
client relies on: a pending nonce is not occupied, a registered key stays, mining
is in nonce order.  Not modelled: a node that acknowledges the expected hash
without having taken the transaction, eviction from the pool, key rotation.

### SessionFlow
`captured` is what `createSessionAuth` computed before awaiting the root
signature, `granted` (history) what the caller asked for; `auth` is the returned
object in the hands of the caller, who may overwrite it, `config` and `hash`.
`pending` holds the copies `finalizeSessionAuth` works on.  `AttachFirst` and
`NamesSigType` name the caller's procedure: whether the authorisation is in the
bundle when it is hashed, and whether `hashBatchTransaction` is told the
algorithm.  `Intact` and `Undisturbed` state the one duty of callers: they pass on what the SDK
returned, and leave `tx` and the inner calls alone while signatures are pending.

### KeyCustody
`taken` is what a call has read of the keystore before the KDF, `file` the object
itself, `opened` (history) the object at the call.  `cleartext` are the buffers
that hold a secret, `key` the adapter's copy; `signers` over one adapter may be
several, and disposing any of them empties it.  `Unwind` is the `finally`
blocks.  The format checks are one predicate (`Valid`): well formed, and the
declared address is the one derived from the public key.  The cipher is
authenticated: a wrong password opens nothing, while the public key is outside of
what it authenticates.

### HistoryPaging
A reader in a loop, by cursor or by page, over a chain that grows between any two
answers.  Any node may answer a request, so "method not found" and the fallback
may come at any point, and the chain may grow between the two requests of one
call.  Blocks hold one transaction each, which is what paging can tell apart.

### RpcClient
One provider and one call, in the code's order: `Create` (API key, then URL),
`Validate` (arguments, in order, before anything is sent), the request, `Parsed`
(`parseJsonRpcResponse`: status, body, id, error, result), and `Profile`, where
`getStorageProfile` takes some errors for "not reported".  `Tables` lists 39 methods
with what each checks; arguments are classes of values the checks tell apart.  The
node is honest: it executes and answers (`Execute`) or refuses (`Refuse`), or a
server in front of it does not know the method (`Unrouted`).  What lies between may
cut or replace the answer before or after the node saw the request (`Garble`) or
lose it (`NetworkFails`).  `reason` (history) is why there is no result as the
author of the answer knows it.  There is no timeout and no retry in the code, and
every request has the id 1.

### PqabiEdits
A source is a sequence of cells; names, replaced expressions and type words are
ranges of cells, nested as AST ranges are (`Layout`).  Each pass is one action in
the code's order: same-width aliases, whole expressions and address types with
the appended declarations, `pure` to `view`, longer aliases.  `Read` is the
closure `read`, `SourceLocation` the translation used to pair declarations.  The
expected text is computed cell by cell from the original (`Rendered`) and never
uses an offset into an edited text.  Of which constructs are refused as
unsupported only "the call is too wide" is modelled.

### PqabiDispatch
A function is a name and a parameter list, a selector is any injective choice per
contract: solc refuses collisions of public functions within one contract and
nothing prevents them between contracts.  A second contract stands for everything
else in the sources.  `AliasOverloads` is `nativeOverloadAliases`, with the one
alias per selector that `bySelector` remembers; `RestoreSelectors` is the single
pass of `replace` over the `case` literals together with the counts checked
afterwards; `Elsewhere` are `case` literals that are no dispatch.  Not modelled:
that after lowering solc resolves a call of an overload that was *not* renamed
again; the documentation comment at 132–137 speaks of collapsed overloads only.

### PqabiSignatures
The generated code comes line by line, and `Scan` does with each what
`restoreTopicsAndErrors` does.  The variables `inside`, `nest` and `marked` are the
truth about a line, which solc knows; `location`, `requireError` and `helperDepth`
are what the scan believes.  Which line may come next is stated in the header.
`due` and `written` make solc emit what it marked.  `spoiled` and `left` (history)
record a user's constant that was rewritten, and an emission that was not given
its own.

### Builders
The caller lists inner calls, by `buildInnerCall` or by hand, has a builder make a
transaction or a bundle of them, and hashes it.  Integers keep their widths, scaled
(`SafeMax` < `U64Max` < `U256Max`), with inputs on both sides of each.  A guard that
throws is stage `refused`; an encoder that throws is `unhashable`.  `SignedIsSound`
runs the bundle: gas is taken as the protocol's constants say, before each call.
A bundle holds the caller's own list of calls (680), and the model assumes that it
is left alone afterwards.  The byte into which `txType` is put is left out.

`validateSessionAuthShape` looks at three sizes, the algorithm and `expiry_block <= 0`
only, and `hashBatchTransaction` then encodes `target`, `value_cap` and `expiry_block`
(`SessionEncodable`).  So an authorisation written by hand with a target that is no
address, or a cap or expiry that is no integer (`NotInteger`: 1.5, `NaN`, a malformed
string), is accepted with its bundle, which then cannot be hashed: `unhashable` is
reachable for session bundles.  `SignedIsSound` says that it is reachable for bundles in
no other way.  Caps above u256 and expiries above u64 are hashed; of their widths, and of
whether the node grants what an authorisation allows, nothing is claimed.
`createSessionAuth` checks all three fields before the root signs (`session.ts` 97–125),
so an authorisation made by the SDK can be encoded.

### ContractAbi
Types are trees: an array has one component, the type of its items, since the code
takes brackets off one by one, and a tuple has its fields; `Types` are those of at most
`MaxNesting` levels.  Values are words, short addresses and numbers in lists that nest as
their type does.  `Values(atoms)` and `Mapped(atoms, change)` give the values of every
type, and what becomes of them, from what a party takes for an address, a word and a
number: on the wire, in Shell (`Proper`), in viem, whose `address` has 20 bytes
(`ForViem`), and in what callers write.  `TypesForViem` is what the code makes of an ABI
before it hands it to viem; `Accepted` are the arguments that then pass, `Encoded` and
`Decoded` what viem does.  `Suiting` is the filter of `findFunctionAbi`; `readContract`
uses it with the number of arguments first and decodes by signature, a caller who does
the same by hand decodes by its own name (`NameForDecoding`), and may fail where that
name is not unique (`unread`).  `target` stands for the contract's address, or for
bytecode that is hex only once it is linked.

### HdWallet
Hashes are injective terms: a node is its seed and indices, a key its node and
algorithm.  A mnemonic is its words and how they were typed (`Layouts`, and whether
the passphrase was in NFKD), because that is what the normalisations of the two
releases differ in.  `Restore` is an application that parses the path of a record,
or a user's copy of it, and derives.  `ParsePath` drops what follows the digits of
a component, as `parseInt` does (413); such a path is accepted and means the
path without the tail, although the comment at 400 calls it malformed.

### ContractCli
Every command is a process; `todo` holds its steps, five at most for `smoke`, and
`pc` its place between two awaits.  `writeFile` is `Truncate` and `Fill`, each of
which other processes may come between; `FillInterrupted` and `Stop` are a full disk,
an error or a killed process.  A file is what its first bytes are the whole of and
its size, which tells apart all that `JSON.parse` does.  The refinement maps
`published` to what parses at a path and `held` to `loaded`: truncating withdraws,
filling publishes, everything else about files, plans and sources is a stutter.

## 3. Runs

Calls settle and then nothing is left to do, so `CHECK_DEADLOCK FALSE` is set
throughout; that a wait cannot hang is checked as liveness instead.

| run | states | what it shows |
|---|---|---|
| `receipt_wait` | 8 535 | `NoStrayTimer`, `OneRequestAtATime`, `PollSpacing`, `EventuallySettles`; `ImplementsPromise`: refinement of `ReceiptPromise` |
| `receipt_wait_long_poll` | – | **violation**: `PollSpacing` fails when the interval exceeds the timer limit |
| `submission` | 771 171 | `VerdictTruthful`, `FreshNonceInSequence`, `KeyPresentWhenNeeded`, `SubmitsWhatWasAsked`, `DisposeStops` |
| `session_flow` | 156 609 | the three signatures cover the bundle, `AuthorisedAsGranted` |
| `session_flow_documented_order` | – | **violation**: the documented order leaves the session signature over another hash |
| `session_flow_default_type` | – | **violation**: the documented call without a type leaves the outer signature over another hash |
| `key_custody` | 15 664 | `NoSecretLeft`, `SignerAsValidated`, `SignsWithItsKey`, `ClosedForGood` |
| `key_custody_mixed_file` | – | **violation**: a keystore with another account's ciphertext opens and signs |
| `provider` | 22 968 | `Contiguous`, `EndMeansAll`; `OutcomeIsDefinite`, `UndefinedMeansUnreported` |
| `pqabi` | 144 394 | `LoweredAsIntended`, `DeclarationsPaired`; `DispatchesAsDeclared`, `ElsewhereKept`; `UserConstantsKept`, `EmissionsRestored` |
| `contract_cli` | 180 612 | `SmokeActsOnItsOwn`, `OkMeansDone`; `ImplementsStore`: refinement of `ArtifactStore` |
| `offline` | 130 808 | `SignedIsSound`; `CallsAsNamed`; `RecordsRestore` |

Bounds, and why they are enough:

* `receipt_wait`: the floor of the interval is 2, a timer holds 4, a timer may be 1
  early, the clock ends at 9.  Timeouts of 0, 1, 3 and 7 give a wait that is over
  at once, one shorter than an interval, one that fits a timer and one whose
  deadline timer is armed twice.
* `submission`: two calls over two signers with one adapter and account, nonces 0
  and 1, a deploy that waits, a write that does not, and a write that names nonce
  0.  Conflicts over nonces, keys and disposal are between two calls; the proofs
  cover any number.  Calls are symmetric.
* `session_flow`: two bundles that may share a session, two sessions, two terms,
  with and without paymaster.  Every confusion to be found is of one thing with
  another of its kind.  Terms and bundles are symmetric.
* `key_custody`: two calls that share one object with four contents (two valid,
  malformed, misaddressed), two passwords, signers and copies of signers.
* `provider`: seven blocks and pages of two make four pages, the last not full, so
  that a page has neighbours on both sides while the chain grows.  One call of each
  method with every class of argument: calls share no state.
* `pqabi`, edits: every source of six cells with up to three occurrences of a name
  of one and one of two cells, aliases as wide or one wider, at most one replaced
  expression of 3 or 5 cells with one or two operands, and address and pure words
  before, inside and after it: an edit has neighbours on both sides and contents.
* `pqabi`, dispatch: two names, three types (`address`, `uint256`, another), three
  selectors, three aliases, one stray case.  Swaps and three-way collisions occur;
  paths that would need a fourth selector or alias are cut off and left to the
  proof.
* `pqabi`, signatures: two events, one of them with emissions of a shape the scan
  does not know, one error with a revert and a helper, a place of the user's own,
  two constants (so that before, after and the user's coincide in every way), and
  any number of lines: what the scan carries on is finite.
* `contract_cli`: two commands of any of the eight plans, two paths, and two versions
  of different size, since a long file under a short one is what a race leaves
  behind.  A third command adds no new pair of writer and reader.
* `offline`: bounds 12 < 14 < 15 with amounts, limits and fees on both sides, up to
  two inner calls (the first pays no charge per call, the second does); session
  authorisations with every combination of good and bad target, cap and expiry; ABIs with three
  overloads, types of three levels (arrays of two dimensions, tuples in tuples), arrays of
  up to two items, every argument right or wrong in each place; accounts and
  indices on both sides of 2^31 (scaled to 10 000), and two records over four typings
  of two wallets.

**Fairness** is assumed in `ReceiptWait` only: weak fairness of the clock, of armed
timers, and of continuations that are ready to run, which is what an event loop
gives.  Nothing is assumed of the node.  All other properties are safety.

## 4. Proofs

The proofs are about the modules TLC checks, with the named assumptions on the
constants and no others.

* **ReceiptWait.**  `IInv` ties control to what is out: the deadline timer only
  during the race, no request outside it, every timer due by the deadline, and
  `race` true of clock and node.  From it follow `TypeOK`, `NoStrayTimer`,
  `OneRequestAtATime`, and step by step that every action is one of
  `ReceiptPromise` or changes nothing there (`Implementation`).
  `PollSpacingCorrect` needs that no interval exceeds `MaxTimerDelay`; the run
  `receipt_wait_long_poll` shows that it does.
* **Submission.**  `IInv` is in layers: types, control (the stage determines which
  fields are set and that `wire` is `Id` of the request), acknowledgements and
  receipts against the node, knowledge of keys, occupied nonces.  Freshness of
  nonces needs the last two: what the node took stays occupied, so a nonce read
  later is another one.
* **SessionFlow.**  `IInv` holds for every procedure and gives `TypeOK` and
  `AuthorisedAsGranted`.  `OneHash`, that all that is ever hashed or signed for a
  bundle is one hash, is inductive on top of it under `AttachFirst` and
  `NamesSigType`, and gives the three theorems on signatures.  Without either
  hypothesis a run shows a violation.
* **KeyCustody.**  `IInv` says of each stage which signers exist, that what was
  captured is what was validated, and that a key is held only while no signer
  over its adapter was disposed.
* **PqabiEdits** (in `PqabiProofs`), assuming of the constant `Layouts` what an AST
  guarantees, but for words in operands (7) (`LayoutAssumption`): names are apart from each other, replaced expressions
  too, a name that meets an expression is inside one of its operands, words are apart
  from names, and an alias is never shorter than its name.  Edits that are apart, made
  from the last to the first, put the text of each at its first cell and nothing at its
  others (`AppliedAreFlat`, by induction from the end of the text), so that texts can be
  compared cell by cell of the original.  Edits that keep widths overwrite
  (`AppliedOverwrite`), and a pass made after such edits by the same offsets is as good
  as one pass with the edits of both, except those inside the later ones (`Merged`,
  `MadeAfter`).  `EditsInv`, the inductive invariant, therefore says after each pass that
  the text is the original with the edits so far made at once, and which names still
  wait; it needs that operands are read as renaming leaves them, whether a name in one was
  written in place or waits (`ReadRenames`).  At the end the edits made at once are
  compared with `Rendered` cell by cell, which gives `LoweredCorrect`.  `PairedCorrect`
  adds that `Shift` sums what all edits that end before an offset widen (`ShiftIs`) and
  is so the distance between an offset and the end of what the cells before it became,
  if no edit straddles the offset (`UpToWidth`).
* **PqabiDispatch** (in `PqabiProofs`).  Looking a function up by its selector finds
  itself or nothing (`LookUpFindsItself`), as aliases are fresh and one per signature.
  Hence the replacement map is exact (`MapIsExact`) and one pass over the literals
  restores them; the counts leave literals elsewhere alone.
* **PqabiSignatures** (in `PqabiProofs`).  `SignatureInv` says that the scan is where solc
  is: its location is the marked place, and in the helper of an error, and only there, it
  requires that error at the helper's depth.  What it met is due, and what was written in
  a known shape is changed.  Without that, a constant that equals a lowered topic could
  not be told from an emission.
* **HistoryPaging** (in `ProviderProofs`).  `HistoryInv` says that what was collected is a
  run of blocks: upwards from block 1, or downwards from the end of the range, that a
  cursor names the block next to it, that pages before the current one were full and
  kept their range, and that only a reader without a cursor falls back.  A page of either
  kind is then appended to its run, which gives `Contiguous`; a reader that ends unasked
  has reached the other end, which gives `EndMeansAll`.  Pages by number fit together
  only because their range is pinned while the chain grows.
* **RpcClient** (in `ProviderProofs`).  `RpcInv` follows one call: arguments on the wire
  passed their check, the node has executed nothing before the request was sent and
  nothing twice, and an answer is one of four kinds, the node's own being true of
  `executed`.  What `parseJsonRpcResponse` makes of each kind, and `getStorageProfile` of
  that, are lemmas.
* **Builders** (in `OfflineProofs`).  `BuildersInv` keeps for every bundle that its limit
  covers the calls listed now, with the surcharge of the session it carries, that the
  transaction around it can be encoded, and that its session authorisation passed
  `WellShaped`; for such an authorisation, being encodable and not being written wrong
  are the same (`ShapedEncodes`).  That a
  bundle runs to its end follows by induction along its calls: the total of a prefix is
  at most the total (`TotalGrows`), and the charge per call is as many charges as calls
  (`ChargedTotal`).  Defaults are where fees could be in the wrong order, so each option
  is followed through `Given`.
* **ContractAbi** (in `OfflineProofs`), assuming of the ABIs that their types have at
  most `MaxNesting` levels and that there is one constructor at most
  (`InterfaceAssumption`).  What holds of a type if it holds of its components holds of
  all (`TypeInduction`, for sets of types), which gives what the recursive functions over
  types are.  A type without an address is its own transformation, so viem is handed
  `Transformed(ps)` whichever branch the code takes (`TypesForViemAre`), and what it
  takes, encodes and decodes is what Shell means by the ABI (`AcceptedIs`, `DataIs`,
  `DecodedSame`).  `AbiInv` says that what is sent is the one function that is meant,
  with its arguments as bytes, and that what answered is that function.  The look-ups
  agree because a name is never a signature, and a function with the signature of the
  one that is meant suits the same call, so that it would be meant as well.
* **HdWallet** (in `OfflineProofs`).  `WalletInv` says only that records come from requests
  and restored keys from records; the content is in lemmas.  `KeysApart`: a key has one
  seed, path and algorithm.  `OneSeed` and `SeedOfWords`: typings of one wallet give one
  seed, and a seed has one set of words.  `CopiesKeepNumbers`: a copy of a path that
  parses has the path's numbers.  `KindsApart`: no session path is an account's.
* **ContractCli.**  `IInv` says of each command that the step it is in is the one
  its plan has at its position, that it has in memory what the step is about, that
  what it did is the part of its plan behind it, and, where nobody else writes its
  file, that the file is empty when it is filled and its own afterwards.  That a
  private file is `Nothing` at `Fill` is what a leftover of a longer file would
  break; that smoke's own deployment comes before anything it sends makes its
  records one contract's.  Every action is one of `ArtifactStore` under `published`
  or changes nothing there (`Refinement`): a file is published or withdrawn by
  whoever writes it, and a load finds a whole artifact or fails.

The library's induction theorems take an operator, which the provers cannot instantiate.
`OfflineProofs` and `PqabiProofs` have induction for a *set* of numbers instead
(`Induction`, from the well-foundedness of the naturals), and with it that the loop which
adds up gas and values exists as a function and what it returns (`SumsExist`,
`TotalSteps`), what `FlattenSeq` returns for two sequences one after the other
(`FlatConcat`), what the recursive functions in `ApplyEdits` and `Shift` are, and that functions
recursive over types exist, level by level (`ValuesExist`).

Only model-checked: `EventuallySettles` (liveness under fairness is out of the
prover's reach).

## 5. Where the documentation and the code differ

1. `contracts.ts:424` – the sleep between polls is not cut to the largest timer
   delay as the deadline timer is (389–391); the README (591–593) promises that
   clients do not spin (`receipt_wait_long_poll`).
2. `transactions.ts:765` – `hashBatchTransaction` covers the session fields only
   when they are attached; `session.ts` 24–31, 190–192 and 231–234 attach them after
   hashing (`session_flow_documented_order`).
3. `transactions.ts:744` – the examples hash without naming the algorithm and sign
   with whatever signer (`session_flow_default_type`).
4. `keystore.ts:252` – README 1027 lists "decrypted public key mismatch"; the keys
   are not compared (`key_custody_mixed_file`).

One more has no run of its own, and shows in what `SignedIsSound` has to except:

5. `session.ts:265` – `validateSessionAuthShape` never tests `target`, `value_cap` or
   whether `expiry_block` is an integer; its comment (263) says that it throws "if any
   field is missing or malformed".  The bundle is built, and `hashBatchTransaction`
   throws (`transactions.ts` 769–773).

## 6. Plan

Modelled, in this order of importance: the receipt wait; contract calls with
signers and node; sessions and bundles; keystore custody; history; the three phases
of the pqabi compiler; the commands and their files; single calls of the provider;
builders; the HD wallet.  What is left:

| step | module | content | run | theorems |
|---|---|---|---|---|
| 1 | `Submission` with rotation | a key that is replaced while calls are under way, `shouldIncludePublicKey` (`contracts.ts:430`) against the node's answer | `submission` | `KeyPresentWhenNeeded` |
| 2 | – | the composition of `Submission` with `ReceiptPromise` in place of its outcomes | `submission` | as before |

## 7. Not modelled

* Cryptography, hashing, ABI and RLP encodings: pure functions; in the models a
  hash is what it covers and a signature can only be made with its key.
* The encoders of system calls (`system-contracts.ts`) and conversions of addresses:
  pure functions of one value without state, mostly calls of viem; `Builders` takes
  whether an encoder refuses.
* Ranges of private addresses in `validation.ts`: one class of URL in `RpcClient`.
* Which constructs `compilePqabi` refuses as unsupported, before it changes anything.
* `generateMnemonic`, `validateHdMnemonic`: no derivation calls them.
* Declarations of types and exports, scripts, tests, vectors and the example.
* Request ids and timeouts of HTTP: the code uses one id and sets no timeout, so a
  request that hangs stays `sent` in `RpcClient`.
* Direct callers of `buildSignedTransaction` that change `tx` while it signs: no
  document promises anything, and the SDK's own calls pass an object of their own.
* Limits of modules that are there: `FreshNonceInSequence` is about calls one after
  another, not overlapping ones (`Submission`); a list of parameters has one position that
  lowering can change (`PqabiDispatch`), so overloads that differ in two positions and
  collapse are not among the inputs; words to lower are apart from operands to copy
  (`PqabiLayout`), which the AST alone does not force; a write that is interrupted leaves
  a file that does not parse (`ContractCli`), not one that is complete by accident.
