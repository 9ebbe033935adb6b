# sailfish-crypto-plugins: specification and proofs

TLA+ modules that model the OpenPGP plugins of this repository, TLC
configurations that check them on small instances, and TLAPS proofs of the
properties for every instance.

## The system

The repository gives Sailfish OS access to OpenPGP keys through librnp.

| Part | Source | State it keeps | Operations |
|---|---|---|---|
| `Rnp` | `rnp/rnp.cpp` | one `rnp_ffi_t` with a public and a secret key store; two lazily created `Keyring`s | `publicKeyring`, `secretKeyring`, `importKeys`, `sign`, `verify`, `encrypt`, `decrypt` |
| `Rnp::Keyring` | `rnp/rnp.cpp` | `m_valid` (its file was loaded), `m_modified` (its file is to be saved) | constructor (load), destructor (save, unload), `keyids`, `key`, `fromFingerprint`, `remove` |
| `Rnp::Key` | `rnp/rnp.cpp` | two librnp handles, its own and its primary key's | `keyid`, `fingerprint(s)`, `subkey`, `remove`, `toCryptoKey` |
| `RnpKeys` | `secrets/rnp/rnpkeys.cpp` | none of its own | the encrypted storage interface: a primary key is a collection, the key and its subkeys are the secrets in it |
| `RnpFfi` | `secrets/rnp/rnpffi.cpp` | none of its own | the crypto interface; generating and importing are placeholders |
| `RnpPlugin` | `secrets/rnp/plugin.cpp` | the `Rnp` that `RnpKeys` and `RnpFfi` share | loaded and unloaded by the secrets daemon |
| `QMailCryptoRNP` | `qmf/rnp/plugin.cpp` | none: an `Rnp` per operation | signs, verifies, decrypts parts of mail messages |
| librnp | not in the repository | the two stores | called by everything above |
| GnuPG | not in the repository | owns `~/.gnupg/pubring.gpg` and `secring.gpg` | rewrites them when it likes |

How they interact. The host calls one operation of `RnpKeys` or `RnpFfi` at a
time and waits for its answer. The first operation that needs a keyring opens
it: the key file is read once and never again. A deletion changes the stores in
memory only; `m_modified` remembers it, and the file is rewritten by `~Keyring`
when the plugin is unloaded. An operation that needs a passphrase calls back
into the plugin (`unlock`), which blocks on a dialogue of the secrets daemon.
Mail operations run in another process and read the same files.

What is hard to test here:

- the state that an operation leaves for the next one: which keyring is open,
  whether it could be opened, and what is marked for saving. The interesting
  sequences are long: open one keyring, delete, open the other, list, unload;
- the time between an acknowledged deletion and the write of the file, and the
  write itself, which empties the file before it fills it;
- failures that are not looked at (`rnp_save_keys`), and a keyring that was not
  loaded but would be saved;
- GnuPG rewriting a file that is loaded;
- two stores of which a deletion concerns both, and only one is saved;
- a message with several signatures, and verdicts that depend on what happens to
  be loaded.

`PROJECT.json` lists each hazard with its line and the property that watches it.

What makes each part correct:

- `Rnp`, `Keyring`: no key file is overwritten by a store that was not loaded
  from it; no key is lost but by a deletion or by a failure inside the write; a
  subkey is never left without its primary key; deletions are committed by an
  orderly unload.
- `RnpKeys`: an acknowledged deletion removes what was asked and nothing else, but for
  finding 5; a refused one removes nothing; listings and searches show what is there.
- `RnpFfi`: a verification succeeds only for a key that is loaded and that the
  caller named; a failed operation changes nothing.
- `QMailCryptoRNP`: a part is either transformed as a whole or left alone.

## The modules

| Module | Models | Uses |
|---|---|---|
| `Librnp` | the key stores of an `rnp_ffi_t`, as far as the code relies on them (external) | |
| `RnpRings` | `Rnp`, `Rnp::Keyring`, `Rnp::Key`: the key files, the stores, opening, deleting, saving | `Librnp` |
| `KeySearch` | `RnpKeys::findSecrets` and `matchRule` | `RnpRings` |
| `Signatures` | `toSignature` and the verdict loop of `RnpFfi::verify` and `RnpFfi::decrypt` | `Librnp` |
| `RnpPlugin` | every operation of `RnpKeys` and `RnpFfi` over one `Rnp`, its life, crashes, other programs | `KeySearch`, `Signatures` |
| `KeyStorePromise` | an abstract key store: what the storage promises about the public keys | `Librnp` |
| `RnpPluginRefinement` | the refinement mapping under which `RnpPlugin` implements it | `RnpPlugin`, `KeyStorePromise` |
| `OperationJobs` | what `Rnp::sign`, `verify`, `encrypt`, `decrypt` are called with, and which keys that names | `Librnp` |
| `Operations` | these four, one librnp call after the other, and `unlock` | `OperationJobs` |
| `OperationPromise` | what an operation is to its caller and to the user: one call, dialogues, one answer | `OperationJobs` |
| `OperationRefinement` | the refinement mapping under which `Operations` implements it | `Operations`, `OperationPromise` |
| `KeyHandles` | the librnp handles that `Rnp::Key` owns, and the functions that hold Keys | `Librnp` |
| `MailCrypto` | `QMailCryptoRNP`, while the storage plugin and GnuPG change the key files | `Signatures`, `KeyStorePromise` |
| `Canonical` | `canonicalizeStr`, character by character | |
| `MCRnpPlugin`, `MCOperations`, `MCKeyHandles`, `MCMailCrypto`, `MCCanonical` | the instances that TLC checks | the module of that name |
| `RnpPluginProofs`, `RnpRefinementProofs`, `OperationsProofs`, `OperationRefinementProofs`, `HandleProofs`, `MailProofs`, `CanonicalProofs` | the proofs | the module of that name |

How they compose. `RnpPlugin` takes each call as one step; `Operations` and
`KeyHandles` look inside the calls, at what a sequence of librnp calls acquires
and at who owns a handle. That the four operations may be taken as one call and one
answer is what `OperationPromise` says and `Operations` is shown to implement: an
answer with data comes from all the keys that were named, whatever happened on the
way, and an answer without data may come at any time, which is how `RnpPlugin` and
`MailCrypto` take them. `MailCrypto` runs beside the storage plugin, in another
process, and meets it in the key file: what the file may hold at a time is what
`KeyStorePromise` says, and `RnpPlugin` is shown to keep that promise. `Canonical`
justifies the operator `Canon` of `MailCrypto`.

Definitions whose comment starts with "Mutant" are not part of the model. Each is
a wrong form of a definition that follows it; with it in place TLC finds the
property that `PROJECT.json` names violated.

### State of `RnpPlugin`

| Variable | In the code |
|---|---|
| `file[l]`, `stored[l]` | the key file of level `l`: missing, whole or cut short, and the keys that can be read from it |
| `mem[l]` | the keys in the public or the secret store of `m_ffi` |
| `ring[l]` | `m_publicKeyring`, `m_secretKeyring`: null, or a `Keyring` with its `m_valid` |
| `modified[l]` | its `m_modified` |
| `phase`, `cursor` | whether the `Rnp` object exists, and where `~Rnp` is: in which `~Keyring`, before or inside its save |
| `reply` | the last call, its result code, what it returned or names, its verification status |
| `owed` | history: the keys the public file held when the keyring was opened, less those whose deletion was acknowledged or that another program, a crash or a failed write took away |
| `deleted` | history: the keys whose deletion was acknowledged, less those that came back through another program, a crash or a failed write |

A call is one action. The host waits for each answer, nothing in the plugins runs
on its own, and a call reads at most one file, so nothing that others do can fall
between two accesses of a call to the same data. This is an assumption about the
host: the code has no lock, and the lazy creation of the keyrings would not
survive two threads. The destructor is several actions, because it empties a file
and writes it later. The host may crash between them, a write may fail or be cut
short, and GnuPG may replace a file before, between and after them.

Keys are values; a keyid and a fingerprint are the two names of a key. Messages
are abstracted to the keys they are encrypted to and the signatures they carry. A
name in another case than librnp's is a name of no key where the code compares it
as spelled (`removeSecret`, the verdict loop), and the key itself where the code
converts it (`Keyring::key`).

### State of the other modules

| Module | Variables | In the code |
|---|---|---|
| `KeyStorePromise` | `disk`, `session`, `copy`, `dirty` | abstract: the public keys on disk, and the session that reads them once and may write them back |
| `Operations` | `job`, `pc`, `i` | the arguments of the operation, its next librnp call or the label `out`, the index of the loop over an array of keys |
| | `live` | which of `in`, `sig`, `out` and `op` are not null |
| | `added`, `opened`, `ret`, `found` | the keys that librnp accepted, the keyrings opened, what is returned, the signatures reported |
| | `asked`, `asking`, `unlocked` | `unlock`: what the user was asked for, what the open dialogue is for (a set of one, or empty), the passphrases that librnp got; `NoName` stands for the null key with which `unlock` is called for the passphrase of a message |
| `OperationPromise` | `job`, `busy`, `output`, `report` | abstract: the operation under way and its answer, empty until it returns |
| | `asking`, `asked`, `given` | abstract: what the open dialogue is for, what the user was asked for, what he gave |
| `KeyHandles` | `request`, `pc`, `listed`, `wanted`, `left` | the call, what it does next, and what its loops have still to do |
| | `keys` | the local variables that hold a `Key`: `m_key` and `m_primary` of each |
| | `about`, `known` | the key behind each handle that exists; the keys in the stores |
| | `used`, `destroyed` | the handles that the last step gave to librnp, and that it destroyed |
| `MailCrypto` | `disk`, `session`, `copy`, `dirty`, `secret` | the two key files; the public one as `KeyStorePromise` changes it |
| | `part`, `available`, `faithful` | the part, whether its content is there; history: it was signed here and kept its words |
| | `op`, `answer` | the operation that waits for librnp, with the keys it has read; the last answer |
| `Canonical` | `str`, `p`, `out`, `busy` | the argument of `canonicalizeStr`, its pointer, its result, whether it runs |
| | `signed` | history: what was written when the text was signed |

Each action is one operation, one step of an operation that another process or
the user may come between, or one librnp call. In `Operations` every call may
fail, and `rnp_op_verify_execute` may fail without stopping `verify`. A dialogue
ends granted or refused, with a passphrase that fits the buffer or not, right or
wrong. In `KeyHandles` a lookup is the constructor of a `Key` with both its
`rnp_locate_key`, each of which may fail; the loop of `Key::subkey` makes and
destroys one `Key` per subkey, in any order of the subkeys. In `MailCrypto` the
lookup of the keys and the change of the part are apart, with storage steps and
GnuPG between them; a text is what it says and how its lines end; QMF may write a
part otherwise than it was received (`Serialised`). librnp may find of a signature
what is true of it, or that it cannot tell (`UNKNOWN`, `ERROR`), or not list it. An
encrypted part opens with one of its keys, or without any (`NoName` in `to`: it has a
passphrase, or is not encrypted at all), and what is inside may not be a message
(`Garbage`), which QMF reads as some message nevertheless (`ReadAs`).

### What librnp and the files are assumed to do

`rnp_locate_key` looks in both stores; `rnp_key_remove` refuses a store that does
not hold the key, before it changes anything; `rnp_load_keys` adds the whole of a
file or nothing; `rnp_output_to_path` empties the file, and a file that is cut
short holds some of the key blocks, each with its primary key; a key file never
holds a subkey without its primary key. Any operation of librnp may fail.

## The runs

| Run | Configuration | Bounds | Shows |
|---|---|---|---|
| `plugin` | `MCRnpPlugin.cfg` | two primary keys, one with a subkey; crashes and I/O failures; four ways to name a key; three messages; two filters | the invariants below, the listings, the verdicts, and that failed calls change nothing |
| `plugin_and_gnupg` | `MCRnpPluginForeign.cfg` | one primary key with a subkey; all faults | the promises about the files while GnuPG rewrites them, that an unload ends with the deletions committed, that the secret file is only read, and that `KeyStorePromise` is implemented |
| `operations` | `MCOperations.cfg` | two primary keys and a subkey, two of the three under a passphrase, messages with a passphrase of their own; arrays of up to two keys before the invalid one, in both orders, and empty ones; up to two signatures | resources, order of calls, completeness of the output, dialogues, and that `OperationPromise` is implemented |
| `handles` | `MCKeyHandles.cfg` | a primary key with two subkeys, one without; two signers; four handles, as many as a call can point to; symmetric handles | ownership and life of key handles |
| `mail` | `MCMailCrypto.cfg` | a primary key and its subkey, whose signatures have expired; two texts, one of which QMF writes as the other; up to two signatures; encrypted parts for either key or for none, with a message inside, nothing, or what is no message | the mail plugin, beside the storage plugin |
| `canonical` | `MCCanonical.cfg` | every text of up to five characters out of a letter, CR, LF, NUL; up to seven after it has travelled | `canonicalizeStr` |
| `deleted_keys_listed` | `MCDeletedKeysAreNotListed.cfg` | as `plugin_and_gnupg`, no faults | finding 1 |
| `deletion_misses_secret_file` | `MCDeletionReachesFiles.cfg` | the same | finding 2 |
| `import_does_nothing` | `MCImportedKeysAreAvailable.cfg` | the same | finding 3 |
| `import_search` | `MCImportSearchesEverywhere.cfg` | the same | finding 4 |
| `deletion_without_effect` | `MCAcknowledgedSecretIsGone.cfg` | the same | finding 5 |

The bounds. A handler looks at one collection and at most one subkey of it. Two
primary keys give a key to delete and one that must survive it; one of them has a
subkey, so that deletions of a key with subkeys, of a subkey alone and of a key
without any all occur, and names that belong to another collection too. The files
start with every combination of keys in either level, among them keys of which
only the secret part exists. With GnuPG writing arbitrary contents at any time one
primary key is enough: the promises are per key. Nothing is counted, so there is
no other bound: TLC explores every sequence of calls of any length, over any
number of loads and unloads. The proofs remove the bounds on keys, messages,
filters and names.

In `operations` two keys make a first, a middle and a last element of an array,
and one that is refused before or after one that is accepted. In `handles` the two
subkeys make the loop of `Key::subkey` destroy one `Key` before it returns
another. In `mail` one part has a bad signature before an expired one and another before
a good one, and what is signed here carries one signature or two. In `canonical` five characters hold every
pair of neighbours, with a character before and after; the state of the loop is
its place and nothing else. `MaxLength` (seven) is a bound of the model: servers
write no CR into a longer text.

Fairness. `Spec` asks for weak fairness of `Closing`, the steps of `~Rnp`: a
destructor that has begun is straight-line code and runs on unless the process
dies. Nothing else is fair: the host need not call anything, nor ever unload the
plugin. `OpSpec` asks for weak fairness of `Runs`, the straight-line code of an
operation, and of `UserAnswers`: `unlock` waits without a time limit
(`rnp.cpp:84`), so that an operation returns only if every dialogue is closed, by
the user or by the daemon that shows it. That is an assumption about the daemon,
made explicit here. `CanonSpec` asks that the loop of `canonicalizeStr` runs on.

### Properties

- `TypeOK`.
- `OnlyLoadedRingsAreSaved`: `~Keyring` does not look at `m_valid` before it
  overwrites the file; still it never overwrites one that it did not load.
- `NoOrphanSubkeys`: in the stores and the files, through deletions, torn writes
  and GnuPG's own changes.
- `NoKeyLost`: outside the write, the public file holds every key it owes.
- `WritesBackWhatItOwes`: why: the file being written belongs to a modified,
  loaded keyring whose store holds all that is owed.
- `DeletionsArePending`: an acknowledged deletion is never undone in the public
  store, and as long as the file has not caught up, `m_modified` is set.
- `AcknowledgedKeyIsGone`: a collection from both stores, at the time of the answer.
  Of a subkey the secret part may remain, if the loaded public part of its primary key
  does not have it: no more than finding 5 shows.
- `DeletedKeysComeBackByLoading` (of steps): a deleted key that no store holds comes
  back with the first opening of the secret keyring only, from the secret file: the
  exact extent of finding 1. The public keyring is never read a second time.
- `SuccessNamesLoadedPrimary`: a verification succeeds about primary keys that are
  loaded only.
- `SuccessIsByTheNamedKey` (of steps): it is by a valid signature of the key that was
  named, and no earlier signature of that key was found otherwise, whatever other
  signatures the message carries and whatever earlier calls have loaded. (A signature
  that librnp fails on without saying whose it is decides nothing.) A consequence
  worth knowing: a signature made by a subkey never verifies for any key that
  `toCryptoKey` names, since its finding pairs the keyid of the subkey with the
  fingerprint of the primary key.
- `FailedCallsChangeNothing` (of steps): a refused call takes nothing from the
  stores and marks nothing for saving.
- `SecretFileIsOnlyRead` (of steps): no deletion, unload, failed save or crash
  changes the secret key file. It is the other side of finding 2: the secret part of
  a deleted key stays, and no secret key can be lost.
- `ListedKeysAreLoaded`: the four listings offer loaded keys only, although
  `storedKeyIdentifiers` looks neither at `m_valid` nor at the key it is given.
- `UnloadCommitsDeletions` (liveness): a destructor that begins comes to an end,
  and then no acknowledged deletion is missing from the public file.
- `KeepsPromise` (refinement): the public keys are read, or refused, once; they
  change by acknowledged deletions only, are written back as a whole by `~Keyring`
  and only if something was deleted, and are lost only inside that write. A keyring
  that was refused stays refused to the end of the session.

Of `Operations`:

- `OpTypeOK`.
- `NothingIsLeftBehind`, `UsesWhatExists`: whatever fails and wherever, the exit
  destroys what was acquired, and no call is given what was not.
- `StaysInArray`: loops over keys have no length, and end at an invalid key.
- `OutputIsByAllNamed`: data is returned only if every key named was accepted and,
  for signers, unlocked; one refusal or one cancelled dialogue and there is none.
- `ReportsWithItsKeyring`: `verify` goes on after a failure, and a keyring that
  cannot be loaded stops nothing; still what is reported was read with the keyring
  of the operation, and with no other.
- `AsksForNamedKeysOnly`: which passphrases are asked for; that of a message only if it
  has one. Which keys librnp asks for is an assumption (`Askable`), the loops before
  are the code's.
- `EveryOperationReturns` (liveness).
- `KeepsItsPromise` (refinement): an operation answers once; with data or signatures
  only if it is complete, that is if every key named may be used and every signer, or
  a reader of the message, is unlocked; the user is asked only for an operation that
  none of its keys refuses, and once for a key or a message.

Of `KeyHandles`:

- `HandleTypeOK`.
- `EachHandleHasOneOwner`: through moves, copies of `m_primary` and removals.
- `UsesLiveHandles` (of steps): the `Key` of a subkey outlives that of its primary
  key in `Keyring::key` (`rnp.cpp:825`), and keeps a handle that is gone. Nothing
  that is called on such a `Key` uses it. Calling `keyid` or `toCryptoKey` on it
  would.
- `OnlyPrimariesAreLeftBehind`: `m_primary` of a subkey looked up by its own name is
  never destroyed (`rnp.cpp:520`); nothing else is left behind. A call that goes by
  the names `keyids` lists leaves nothing.

Of `MailCrypto`:

- `MailTypeOK`.
- `FailureKeepsThePart` (of steps, like the following).
- `ValidIffAllValid`: the summary over several signatures, in any order: valid if and
  only if there are some and each is known to be by a key that was read and is on
  disk, over the text as it is, and not expired. A status that librnp gives for another
  reason (`UNKNOWN`, `ERROR`) makes it invalid.
- `OwnSignaturesAreNeverBad`: what is signed here verifies, or its key is missing or
  its signature has expired, wherever the part has been while it says the same. A
  part that is signed a second time keeps its first text, while the new signature is
  over the text as QMF writes it (`plugin.cpp:124`): for it the property holds only
  if QMF writes what it has read.

That a key on disk may seem to be missing, during a save or when its file cannot be
read, is modelled (`PublicRead`) and not judged; nor is what becomes of decrypted data
that is no message.

Of `Canonical`: `CanonTypeOK`; `CanonicalForm`; `VerifiesWhatWasSigned`, after any
changes of line ends between CR LF and LF, and after the text was sent on in
canonical form; `LinesAreKept`, against `Kept`, a recursive function of the text; `CanonReturns`
(liveness). What follows a NUL, and single CRs, are not covered by a signature:
two texts that differ there only have the same canonical form.

### Findings

1. `DeletedKeysAreNotListed`: a deletion before the first `sign` or `decrypt`
   removes the public part only. The secret keyring, opened later, brings the key
   back, and the listings, which look in both stores, show it.
2. `DeletionReachesFiles`: `m_modified` is set on the public keyring alone, so the
   secret key file is never rewritten: the secret part of a deleted key stays on
   disk. `rnpffi.h:86` says that deletion "will occur through that API".
3. `ImportedKeysAreAvailable`: `importAndStoreKey` answers success and does
   nothing, although `rnpkeys.cpp:37` lists a collection to import into.
4. `ImportSearchesEverywhere`: the test at `rnpkeys.cpp:182` is the inverse of
   what its comment, one line above, says.
5. `AcknowledgedSecretIsGone`: `removeSecret` looks for a subkey among those of the
   public part of its primary key, and takes the removal of an invalid `Key` for a
   success (`rnp.cpp:640`). With both keyrings loaded and the subkey in the secret file
   only, which is how finding 2 leaves the files when a subkey was deleted, the deletion
   is acknowledged, nothing is removed, and `storedKeyIdentifiers` goes on listing it.

## The proofs

Every property that a passing run checks is proved, but the three liveness
properties, for any sets of keys, names, messages, handles and texts, from the named
assumptions on the constants alone. `PROJECT.json` lists the theorem of each.

**`RnpPluginProofs`** (`KeysAssumption`, `FaultsAssumption`, `SearchAssumption`,
`PluginAssumption`). `StepKinds` reduces the many calls to five kinds of steps:
those that change nothing but the answer, those that open a keyring at most,
deletions, the life of the object, and writes by others. `UsedRingEffect` says what
opening a keyring can do, `RemovalEffect` what a deletion takes from the stores. The
inductive invariant `IInv` is the conjunction of `TypeOK`,
`OnlyLoadedRingsAreSaved`, `NoOrphanSubkeys`, `WritesBackWhatItOwes` and
`DeletionsArePending`. `NoKeyLost` is not inductive on its own: a save replaces
the file by the store, so the store of a valid keyring must hold what is owed;
the file being written must be that of a modified keyring, and a modified keyring
a valid one. `DeletionsArePending` needs `OnlyLoadedRingsAreSaved` (a keyring that
is opened has nothing pending) and `NoOrphanSubkeys` (a subkey that the lookup
does not find is not in the public store). `AcknowledgedKeyIsGone` and
`SuccessNamesLoadedPrimary` are about the answer just given, and follow from the
invariant before the call; `SuccessIsByTheNamedKey` from what the deciding finding of a
list is (`Decides`), for lists of any length. `DeletedKeysComeBackByLoading` takes
`DeletionsArePending`: a public keyring that is opened has no deletion pending, so only
the secret one can bring a key back. `VerdictType` and `VerdictNamesLoaded` are about
sequences of signatures of any length. `SecretFileIsOnlyRead` takes one more
invariant, `SecretIsUnmodified` (nothing sets `m_modified` of the secret keyring), and
`WritesBackWhatItOwes`: the file that is open is that of a modified keyring, so never
the secret one. `ListedKeysAreLoaded` follows from `LookupsAreLoaded`, about what the
lookups return.

**`RnpRefinementProofs`**: `PromiseIsKept`, that `RnpPlugin` implements
`KeyStorePromise`: initial states map to initial states, and under `IInv` each of
the five kinds of steps maps to a step of the abstract store or to none. The save of
`~Keyring` maps its truncation to `Commit`, its write to `Settle`, and a crash or a
failure in between to `Lose`.

**`OperationsProofs`** (`KeysAssumption`, `JobsAssumption`: every array a caller
passes ends with an invalid key, `rnpffi.cpp:558`, `plugin.cpp:103`). The inductive
invariant `OpInv` says for each place in the sequence which objects exist
(`HeldInv`), that no invalid key was passed over (`LoopInv`), what is known once
there is data (`OutputInv`) and which keyring is open (`KeyringInv`).

**`OperationRefinementProofs`**: `OperationsKeepPromise`, that `Operations` implements
`OperationPromise`. The mapping hides what an operation has made until it returns.
`Ask` maps to `Prompt`, the end of a dialogue to `Close`, `Return` to `Answer`; all
other calls, loop steps and failures map to steps that change nothing (`HiddenStep`).
`OpInv` is strengthened by `CompleteInv`: what has been made by a call that went
through, whether or not it is returned in the end, is complete.
`AllAccepted` is the reason: an array whose loop came to its end has only keys
that may be used before its first invalid one.

**`HandleProofs`** (`KeysAssumption`, `RequestsAssumption`). `HandleInv` adds to the
properties: variables are empty when they are filled (`EmptyWhenFilled`), Keys are
about keys in the stores until the call ends (`HeldAreKnown`), the `m_primary` of the
`Key` that was located belongs to that `Key` or to nobody (`PrimaryIsThere`), and the
`Key` of a subkey is described only while that one lives (`SharesPrimary`).
`Destruction`, `Filling` and `Moving` say what `~Key`, the constructors and the moves
do to any invariant about ownership; the steps are instances of them.

**`MailProofs`** (`KeysAssumption`, `MailAssumption`). Types carry the action
properties about answers; `OwnSignaturesAreNeverBad` needs the
inductive `MailInv`: while `faithful` holds, the part is signed and each signature is
over the canonical form of its text (`FaithfulInv`), and an operation that waits
works on the part as it is (`WaitingInv`). The storage steps enter as the steps of `KeyStorePromise`.

**`CanonicalProofs`** (`CharAssumption`), for texts of any length.
`CanonicalForm` holds by an invariant of the loop, `CanonInv`: what was written so far
is in canonical form, and whatever the loop writes next keeps it so (`FormStep`).
`VerifiesWhatWasSigned` compares two runs of the loop on two texts. The relation
`Writes` says, without recursion, that a text is written as a given output: there is a
place in the output for each character of the text, each place following from the one
before. It survives what servers do: a CR more or less before a LF changes which
characters write something, not what is written (`WritesAfterInsert`,
`WritesAfterRemove`); and a text in canonical form is written as it is
(`CanonicalIsWritten`). `SignedInv` says that what was signed is what the present text
is written as, up to its first NUL, and that what the loop has written so far is the
beginning of it (`Agrees`); when the loop ends it is all of it (`RunIsComplete`).
`LinesAreKept` follows the loop: what was written of the
first characters, CRs left out, is what `Kept` gives for them (`KeptOfPrefix`).
The few inductions over places are by a least counterexample (`LeastExists`), which the
library has as the well-foundedness of the order of the naturals; that `Kept` obeys
its equation is shown in the same way.

Only model-checked: the liveness properties `UnloadCommitsDeletions`,
`EveryOperationReturns` and `CanonReturns`, since fairness and ENABLED are out of the
prover's reach. No module that is proved about has a RECURSIVE operator: the provers
know nothing of one.

## Not modelled

- `Rnp::importKeys` has no caller in the repository, and returns an empty list
  whatever it does. `RNP_NATIVE` (whose keyring path and key paths are in different
  directories) is used by nothing.
- Parameters of keys that `toCryptoKey` copies (algorithm, size, dates, usage), but as
  fields that a search compares; the wording of messages and logs.
- `QMailCryptoRNP` called with a null part, which returns at once; `sign` with an
  empty list of keys, where it is for librnp to refuse; its passphrase callbacks,
  which only log that they are not implemented.
- The temporary directory that `generateKey` leaves behind when it answers success
  (`rnpffi.cpp:287`).
- `operationIsValid` and the code in comments in `rnpffi.cpp` and in `unlock`: never
  run.
- Build and packaging.

## What may follow

- `Rnp::importKeys`, once something calls it: keys that enter the stores by another
  way than the files, and keyrings that are not marked for saving.
- A plugin object per user of `Keyring::fromFingerprint` in one process: today only
  the mail plugin uses it.
