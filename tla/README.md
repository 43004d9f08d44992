# A TLA+ development of the VisualSign parser

This directory specifies and verifies the parser deployment of this repository:
a gRPC host, an app inside a QOS enclave that turns a transaction into a screen
a person can read and signs it, and the converters that make the screen. The
modules are checked with TLC on small instances; what matters most is proved
with TLAPS for every value of the constants. `PROJECT.json` lists the
components, the runs with their properties, the source lines behind every
definition, the hazards and the theorems.

Run a model with `tlc -config X.cfg M`, check proofs with `tlapm M.tla`.

## 1. Inventory

### The deployment

    client --gRPC--> host --one socket stream--> enclave --socket--> app
                      |                           (qos_core)         |
                 health_check, metrics                     key file, converters

| component | state | operations | hard about it |
|---|---|---|---|
| host service (`parser/host/src/host.rs`, `host_primitives`) | the only stream of `SocketClient::single` | `parse`, `app_health_check`, `send_proxy_request` | handlers share a stream whose messages carry no identifiers; two time-outs race the answer; a client that leaves drops its handler at any await |
| health checks (`health_check`) | a task and a bounded channel per Watch | `check`, `watch`, `enclave_health`, `app_health` | statuses age in the channel; the task learns late that its client left |
| host process (`parser/host/src/cli.rs`, `metrics/src/server.rs`) | the tasks, the signal handler | `execute`, `listen`, `wait_for_sigterm`, `serve` | one task of several fails; SIGTERM comes at any moment |
| enclave (qos_core, outside the repository) | its phase, the requests it holds | relay, `StatusRequest` | gives up on the app, loses requests, changes phase |
| app (`parser/app`) | the ephemeral key, read anew for each request | `process`, `routes::parse` | the key changes under a request; a converter panics |
| metrics (`metrics`) | histograms | `track_request_metrics` | counts on some return paths only |
| converters (`chain_parsers/*`) | none | bytes to a `SignablePayload` | what is signed must be what is shown |
| payload encoding (`visualsign/src/lib.rs`, `field_builders.rs`) | none | `Serialize`, `validate_charset`, `verify_deterministic_ordering`, `to_json` | one text is checked and another is signed |
| registry (`visualsign/src/registry.rs`, `vsptrait.rs`, `encodings.rs`) | converters by chain | `register`, `convert_transaction`, `auto_detect_and_convert` | the encoding of a text is guessed; detection follows the order of a HashMap |
| command line (`parser/cli`) | none | `parse_chain`, `parse_and_display`, `format_field` | a second table of chain names; a tree drawn by recursion |
| code generation, integration tests | none | | not modelled |

### What makes each part correct

* The service: a caller is given the rendering of its own transaction with a
  signature that verifies, is blamed only for its own mistakes, is never
  answered from a state of before its call, and is answered at all.
* A Watch: it does not say Serving of an app that failed long ago, ends when
  its client leaves, and in the end tells the truth.
* The process: no accepted call is cut off by a shutdown, a failed server shows
  in the exit, SIGTERM ends it.
* The converters: two transactions that differ do so on the screen; a row
  belongs to the instruction, command or call it claims to show; amounts are in
  the unit of the coin they count; a transaction the chain would accept does
  not panic the parser.
* The registry: a text is read as the bytes its sender meant; detection finds a
  chain exactly when one would convert the text; nothing unprintable leaves it.
* The command line: the tree it draws can be read back, and its condensed form
  says nothing the full one does not.
* The encoding: one transaction has one text, wherever and whenever it is
  rendered; nothing is dropped from it and it is printable.

## 2. Modules

| module | models | composed of |
|---|---|---|
| `ParserMessages` | requests, replies, renderings and signatures | |
| `SigningService` | **abstract**: what a client of the service is promised | `ParserMessages` |
| `ParserPipeline` | host, enclave and app together | `ParserMessages`, `INSTANCE SigningService WITH` the mapping |
| `HealthWatch` | one Watch stream | |
| `HostLifecycle` | the tasks of one host process | |
| `EthereumConversion` | bytes to rows for Ethereum, ERC-20 and Uniswap | |
| `SolanaPresets` | the six instruction visualizers | |
| `SolanaConversion` | legacy and V0 messages to rows: instructions, transfers, accounts | `SolanaPresets` |
| `SuiProtocols` | the handlers of Cetus, Suilend and Momentum | |
| `SuiConversion` | dispatch, transfers and staking of Sui | `SuiProtocols` |
| `TronConversion` | a Tron transaction to rows | |
| `ChainConversion` | a request is converted by the converter of its chain | instances of the Solana, Sui and Tron modules |
| `ConverterRegistry` | the registry, detection of encoding and chain, the validated conversion | |
| `CommandLine` | `parser_cli` | `ConverterRegistry` |
| `PayloadEncoding` | field builders, serialization, the checks before signing | |
| `Filters` | the iterators' `filter` on sequences, as a recursive function | |
| `SequenceFacts` | lemmas on sequences, filters and flattening that several proofs cite | `Filters` |
| `*Proofs` | theorems; those of the registry are in `CommandLineProofs` | the module they are named after |
| `MC*`, `SolanaMessages`, `SuiPrograms`, `TronTransactions` | instances for TLC | |

### ParserPipeline

A call `c` has a request `req[c]` and, once answered, a reply. `stream` is the
call that holds the SocketClient's only stream, `wire` the answer that arrived
on it, `inbox` what the enclave has yet to read, `proxied` the call the enclave
relays, `working` and `appKey` what the app has begun and with which key.

| action | code |
|---|---|
| `Arrive`, `AnswerLocally` | tonic calls a handler; liveness and unknown services are answered without the enclave |
| `Send`, `Receive`, `TimeOut`, `FailWaiting` | `send_proxy_request` and `SocketClient::call`: take the stream, write, read or give up. A stream given up is reset, so that nothing that arrives later is read from it |
| `Cancel` | the client goes away and tonic drops the handler where it awaits: no answer, no metric; the request stays with the enclave |
| `EnclaveRead`, `EnclaveGivesUp`, `EnclaveLoses` | the enclave relays, answers `StatusRequest`, reports `AppClientRecvTimeout`, or loses what it holds |
| `AppBegin`, `AppFinish`, `AppPanic`, `AppCrash`, `AppRestart` | `Processor::process` in two steps, since the key is read before the conversion and used after it |
| `KeyChange`, `PhaseChange` | the key file and the enclave's phase change at any moment |

`ParseRoute`, `ParseReply`, `AppHealthReply`, `AppStatus`, `EnclaveHealthReply`
and `Track` follow the branches and early returns of `routes::parse`, the
host's handlers and the metrics. Bytes of protobuf and borsh are abstract, and
so is cryptography: a signature is the pair of a key and what it signs. The
enclave and the SocketClient are in qos_core, outside the repository; they are
modelled from how host and simulator use them and marked external. One thing is
assumed of qos_core: a stream whose call is dropped in the middle is reset
before the next call uses it, as it is after a time-out (`Cancel`). Without it
`AnswersAreOwn` fails, which the mutant `CancelKeepsAnswer` shows: the host's
own code has no other protection. `keysDuring` and `phasesDuring` are history
variables that no action reads.

### HealthWatch, HostLifecycle

`HealthWatch` has the loop of the task spawned by `K8Health::watch`, split at
every await: the check, the send on the bounded channel, the sleep. What a
check may answer is the readiness promise of `SigningService`. `since` and
`late` are history variables capped at `SinceMax` and `LateMax`, one more than
the properties tell apart.

`HostLifecycle` has the tasks of `CLI::execute` and `Host::listen`: the server,
the signal task it spawns before it binds, the metrics server, and main, which
joins server and metrics before it looks at either's result. Every task may
panic where the code says `expect`.

### Conversions

Each has the transaction as a variable and one action per converter entry point
that sets `outcome` to rows, an error or a panic. Texts are abstract: a row is
its label and the values it shows.

* Ethereum: decoding tells typed from legacy by the first byte and refuses
  bytes left over; ERC-20 and the Universal Router pass calldata on to one
  another; deadlines have the bounds `I64Max` and `ChronoMax` as constants,
  small ones in the instance because TLC's integers have 32 bits. `abi_decode`
  passes over bytes behind its arguments (`unread`). Chain names were compared
  and are distinct.
* Solana: every header and index is taken as it comes from the wire. An
  unsigned difference that underflows panics in a build with overflow checks
  and in one without exceeds every index there is; both builds are modelled
  (`checks`). `SolanaPresets` has the rows of both views of each preset: the
  accounts named by position, the amounts cut from the end of Jupiter's data,
  the token a mint is known as. Transfers and accounts are rows too, each
  numbered or counted as the code does. bincode and solana-parser are external:
  what solana-parser finds (`TransfersAmong`) is modelled from how
  `decode_transfers` and `decode_v0_transfers` use it.
* Tron: six rows for the transaction and those of each contract. A transfer that
  does not decode leaves no row, and times outside chrono's calendar panic;
  `SameScreenSameTransfers` says what the screen still tells apart.
* Sui: programs come from bcs unchecked, so a result may be used before the
  command that makes it. Every handler reads the positions its `config.rs` gives
  it. An argument `Input(i)` and an argument `Result(i)` are read alike
  (`parse_numeric_argument`). `resolve_object` recurses through splits and
  merges; a program whose results go around overflows the stack, which the model
  calls a panic. Which inputs have a known type is decided in
  `sui_json_rpc_types`, outside the repository, so typed and untyped inputs are
  both tried. The row of a transfer has its title and its summary beside its
  fields, because they show the amount again, each with a unit of its own; the
  titles and summaries of other rows repeat their fields. `IsProgram` and
  `IsOrder` say what bcs and the build script give: commands and arguments are
  sequences, an index is a natural number, in range or not, and the presets
  found are all there are, in some order.
* `ChainConversion` is the registry's dispatch over Solana, Sui and Tron.
  Ethereum has a run of its own because it decodes in steps of its own.

### ConverterRegistry, CommandLine

`ConverterRegistry` has the HashMap of converters, filled by `register`, and the
two ways to ask it. The loop of `auto_detect_and_convert` is one `Try` per turn,
over the chains in any order. A text is described by what it reads as in hex
and in base64 and by what its sender meant; the formats each chain tries are
functions of the bytes. Conversion is the validated one: a payload
`validate_charset` turns down is an error.

`CommandLine` extends the registry with the process that uses it, from its
arguments to its output; the registry's payloads are abstract, so what is printed
is any of `Drawings`. A line of the tree is the sequence of its pieces, three
columns wide, and its words, kept apart: a colon or a line break within a label
is not modelled. `format_field` is a recursive function of its call: the field,
the two strings passed down and the option. A field owns those of its views, so
none is within itself; `FieldsAssumption` says that with `Depth`, which
falls from a preview to the fields in its views. `SamePayload` is what a person
can tell of two payloads: a field of a type `format_field` has no case for is
told by its label only, and a view with no fields like none. `Within` is whether lines are
among others in their order.

### PayloadEncoding

A payload is a set of JSON objects, each the path to it and the Rust value there:
its type, the keys whose values are present and the kinds of characters in its
strings. A document is the set of the objects written, each with its keys in the
order in which its own `Serialize`, a BTreeMap or serde_json's map emits them. Both
builds of serde_json are modelled, with and without `preserve_order`. The order
in which `serialize_to_map`'s HashMap yields the keys of a field is any
permutation. The top of a payload holds fields, lists of fields, and previews with
any of a title, a subtitle and two views, each a list of fields. The views of
previews inside those are left out: they are made and written as the outer ones.

## 3. Runs

| run | checks | shows |
|---|---|---|
| `pipeline` | `AnswersAreOwn`, `BlameIsOwn`, `RepliesAreFresh`, `HistogramsCountAnswers`, `ServesAsPromised`, `TypeOK` | two concurrent calls with any requests, two keys, two phases, with every loss, time-out, disconnect, panic and restart: a late answer never reaches another call |
| `pipeline_liveness` | `EveryCallAnswered` | three calls, one of which takes the app down: the time-out frees the stream for the others |
| `watch` | `ServingIsRecent`, `OneLateCheck`, `WatcherEnds`, `FailureIsShown`, `TypeOK` | a slow reader makes the task wait, not the news grow old |
| `lifecycle` | `AcceptedCallsFinish`, `ExitTellsFailure`, `SigtermEndsHost`, `LoneFailureEndsHost` | shutdown at any moment, with and without metrics |
| `ethereum` | `SameScreenSameTransaction`, `NothingLeftOver`, `CommandsPairedUpToUnknown` | what is shown determines what is signed, up to the fields listed below |
| `conversions` | thirteen properties of Solana, Sui and Tron | rows belong to what they claim to show; which split an amount shown is of, which coin and unit it is shown as, and where these are not those of the coin used; acceptable transactions panic nothing |
| `registry` | `DetectsWhatConverts`, `ReadAsMeant`, `TreeCanBeReadBack`, `CondensedWithinFull` | the registry called by its library's users and by the command line: the order of the HashMap decides only among chains that convert; three kinds of text are misread and no other; what `--condensed-only` prints is part of what the full tree says |
| `encoding` | `SameAnswer`, `NothingDropped`, `SentIsPrintable`, `VerifiedIsAlphabetical` | one text per payload in either build |

Four runs show where the code disagrees with what the repository says of it
(`findings` quotes the lines):

| run | the code |
|---|---|
| `service_unknown` | `Check` answers SERVICE_UNKNOWN, which the proto reserves for Watch; README.md's own Kubernetes probe gets it |
| `lifecycle_panic` | with the metrics server enabled, a gRPC server that could not bind never ends the process, though the comment promises a panic |
| `ethereum_router` | behind an unknown command byte, commands are shown with the inputs of others |
| `solana_lookup` | accounts of a lookup table are dropped before accounts are named by position, which names others in their place |

Two disagreements within what the code shows contradict no sentence of the
repository, so the properties of `conversions` state them as they are:

* The summary of a transfer says MIST for every coin, while its field and title
  name another unit for a coin that is not split off the gas coin. So one row
  contradicts itself exactly for these coins (`TransferAmounts`).
* A stake of `Input(i)` shows the amount that command `i` splits off, and a
  repayment with a later coin of a split shows the amount of the first. Only for
  other arguments is the amount shown that of the coin used
  (`StakeAndRepayAmounts`, with `StakedAs` and `RepaidAs` for the coin the code
  takes it to be).

Smaller remarks, each seen while modelling and checked by no run:

* `AppHealthResponse.code` is "A gRPC status code" in the proto; the app sends 200.
* `validate_charset` lets a backspace through: its JSON form is `\b`.
* In a build of serde_json with `preserve_order` the keys of the address row are
  sent as declared, though `visualsign/docs/DETERMINISTIC_ORDERING.md` has all of
  them in alphabetical order; the characters are checked on a sorted copy, which
  does not see it. Without the feature they are sorted.
* The command line prints a number field as "Field: Unknown", though
  `common_label` is documented for any field type.
* The derived `Deserialize` of a payload requires keys that `Serialize` skips.
* The getters of `chain_config!` are documented to fail for an argument that is
  not `Pure`; for `Result(i)` they read input `i`.
* `visualize_with_any` is documented to return the first *successful*
  visualization; it returns that of the first able visualizer, an error included.
* The title of a transfer of the gas coin also gives the amount in whole SUI,
  rounded down: less than one SUI is shown as 0.
* `create_registry` is documented to return converters for Solana and
  Unspecified; it registers five.
* The command line gives `tron`, and names in capitals, the Unspecified view.
* A Jupiter swap shows the token given by the ends of its mint only.
* Flash loans of Momentum are configured and dispatched to a `todo!()`.
* The amount of a Momentum flash swap is not shown; a Cetus router swap shows a
  limit of 0, as a comment there says.

### Bounds, and why they are enough

* `pipeline`: two calls are what one needs for an answer to reach the wrong
  one, two keys for a signature by a stale one; keys are interchangeable
  (symmetry). The proofs lift both bounds. `pipeline_liveness` has three calls,
  so that one may overtake another in waiting for the stream; its calls need the
  enclave, since a liveness probe waits for nothing.
* `watch`: a channel of 3 instead of 16; the theorems hold for every size.
* `lifecycle`: one call of each duration and one more; each is accepted once.
* `ethereum`: the transactions and byte strings are products of small sets
  with, of each field, a value in and out of range.
* `conversions`: every header over up to four keys; indexes into the message,
  into a table and beyond; every declared Sui function with right arguments and
  with each of them missing, duplicated, out of range, a result or the gas
  coin; up to three Sui commands, which is what a split of a split and a use of
  it take. Presets are asked in one order and its reverse, so that any two come
  in either order.
  Tron: up to two contracts of each kind, times before, at and after the ends
  of the calendar.
* `registry`: texts of each meaning that read as one, both or neither encoding,
  four chains, one of them Custom, under any converters. Payloads (`MCDrawings`)
  have up to two fields of each type, with previews in either view of a preview
  (`MCDepth` is at most 2); the proofs are for any depth.
* `encoding`: every builder, with and without its options, alone and in a
  list; previews with every set of titles and views, several fields in a view;
  fields, titles and headers with every kind of character.

Runs of conversions end when the outcome is there, and a process that exited
does nothing more: those configurations switch the deadlock check off. The
pipeline's and the watch's do not.

### Fairness

* `ParserPipeline`: the runtime runs ready handlers (weak fairness of
  `AnswerLocally` and of receiving or timing out, since the timer fires);
  waiters for the stream get it in turn (strong fairness of `Send`: tokio's
  locks are first in, first out). Nothing is assumed of enclave or app.
* `HealthWatch`: the task runs. Its check ends by `EveryCallAnswered`. Clients
  need neither read nor leave; `FailureIsShown` assumes that one reads.
* `HostLifecycle`: every task runs; a call that is no Watch ends, again by
  `EveryCallAnswered`. Nobody has to send SIGTERM; `SigtermEndsHost` assumes
  that clients of Watch streams leave at some time, which graceful shutdown
  waits for.

## 4. Proofs

| module | theorem | states |
|---|---|---|
| `ParserPipelineProofs` | `TypeCorrect`, `OwnAnswers`, `OwnBlame`, `FreshReplies`, `HistogramsAgree`, `Implements` | the safety properties of `pipeline` and the refinement of `SigningService`, for any calls, requests, chains, transactions, keys and phases |
| `HealthWatchProofs` | `TypeCorrect`, `FewLateChecks`, `ServingAge` | for every channel size |
| `HostLifecycleProofs` | `TypeCorrect`, `CallsFinish`, `FailureIsTold` | for any set of calls |
| `EthereumConversionProofs` | `TypeCorrect`, `WholeBytesShown`, `ScreenTellsTransaction`, `CommandsShownUpToUnknown` | for any transactions and byte strings, calldata with any number of commands |
| `ChainConversionProofs`, Solana | `SolanaOutcome`, `ConsistentMessagesNeverPanic`, `EveryInstructionIsShown`, `NamedAsFarAsKnown`, `SwapsAreAsEncoded`, `AccountsAreRead`, `SameScreenSameSolanaInstructions` | for messages of any length, in builds with and without overflow checks |
| `ChainConversionProofs`, Sui | `SuiOutcome`, `AnyOrderOfPresets`, `WellFormedProgramsNeverPanic`, `RowsFollowCalls`, `SwapsInTheirCoins`, `AmountsAreSplit`, `TransfersAsSplit` | for programs of any length |
| `ChainConversionProofs`, Tron | `TronOutcome`, `SameScreenSameTronTransfers` | for transactions of any number of contracts |
| `PayloadEncodingProofs` | `AnswersAgree`, `AnswersAreComplete`, `AnswersArePrintable`, `VerifiedAnswersAreAlphabetical` | for payloads of any number of fields |
| `CommandLineProofs`, registry | `TypeCorrect`, `DetectionFindsConversions`, `PayloadsPrintable`, `TextsReadAsMeant`, and of the command line `CliDetectionFindsConversions`, `CliTextsReadAsMeant` | for any texts, formats, converters, chains and payloads |
| `CommandLineProofs`, tree | `TreesReadBack`, `CondensedLeavesOut` | for payloads with any number of fields, nested to any depth |

Assumptions are those named in the modules, which TLC evaluates in the runs: the
marks for "none" are not among the values they stand for (`NobodyAssumption`,
`ReplyAssumption`, `NoTxAssumption`, `ListedAssumption`), `Convert` is a function
into renderings and failures, a buffer has room for one, Watches are calls, the
programs Solana's presets know are different ones (`ProgramsAssumption`).
The others say that what is decoded is of the form its decoder gives, whichever
values it holds: alloy's types (`TransactionsAssumption`, `WiresAssumption`),
bincode's and borsh's (`MessagesAssumption`, `SystemAssumption`,
`BudgetAssumption`), bcs's
(`SuiProgramsAssumption`), protobuf's (`RawsAssumption`), and that the build
script finds each Sui preset once (`OrdersAssumption`); Rust's ownership, that a
field is not within itself (`FieldsAssumption`). `ComparedAssumption` says
that the messages whose screens are compared are among those considered. They bound no length and
exclude no index out of range.

**The pipeline.** That a reply is the caller's own is not inductive: it says
nothing of messages under way. The invariant `IInv` follows the answer back:
who holds the stream is a pending call that needs the enclave (`StreamInv`);
what is on the wire is owed to the holder of the stream (`WireInv`, where *owed*
is the promise of `SigningService`); only requests that need the enclave travel,
whether or not their call still waits (`TravelInv`); a pending call has seen the
present key and phase, and the key the app works with was there while that call
was pending (`SeenInv`, `WorkInv`); replies given were promised (`RepliedInv`). `PromiseGrows` carries a promise across
changes of key and phase. Refinement then follows action by action: `Arrive` is
`Ask`, the steps that return are `Answer`, the rest stutter. `OwnAnswers`,
`OwnBlame` and `FreshReplies` follow from what the promise contains.

**The watch.** That Serving is recent needs, for each place in the channel, how
many checks may lie behind the status there (`AgeInv`): the one at position i
from the back is at most i checks old, plus the one in hand.

**The process.** Open calls need a server that serves or drains, shutting down
has a cause, and so has an end.

**The histograms.** However many calls there may be, finitely many have been
answered, and each bucket is compared with the cardinality of a set of them
(`Buckets`). A return adds its call to the buckets its reply belongs to
(`ReturnBuckets`), which are those the handler tracks (`TrackedAsReturned`); a
call that is dropped is in none.

**Ethereum.** `DecodesWhole` says that decoding succeeds only on bytes that are
one transaction; the invariant keeps that with the payload. The rows
of a screen have places that depend on which optional rows there are
(`ScreenParts`); equal screens have the same optional rows and so the same parts
(`SameRowsSameParts`), and a call is read off its row for ERC-20 and for the
router, whose commands are rows of their own up to the first unknown one
(`SameErc20RowSameCall`, `SameRouterRowSameCall`, `PairedUpToUnknown`).

**Solana.** A screen is laid out as network, instructions, transfers, accounts;
each group has labels of its own and is picked out of the whole by them
(`PickedConcat` and what follows it, `SolanaPicked`). Then a
message the runtime accepts has no index out of range, but for accounts of
lookup tables, and no subtraction that underflows (`ConsistentNoUnderflow`).
The four categories of accounts are adjacent intervals of indexes
(`SolanaEndsExist`), so the sort leaves each account at its index, and their
ends are sums of the header's counters, which gives the rights and the summary
(`SolanaSorted`, `SolanaRights`, `SolanaSummary`). An account is named by its position as long as those
before it are in the message, because the filter leaves such a prefix alone
(`FilterPrefix`); most previews name no account at all (`SolanaPreviews`). The
bytes of a swap are adjacent pieces of its data, cut from the end (`SwapBytes`).
That screens displayed alike are of messages that do the same goes preset by
preset: what the rows of a preview tell and what they leave out (`SystemTold`,
`JupiterTold`, `OtherPresetsTell`) identify first the program, though the system
program and the stake pool have previews that do not name theirs
(`ProgramTold`), and then what the instruction does (`PreviewSaysDoing`). Two
such screens have the same rows label by label (`DisplayedAlike`), and the
transfers are read back from theirs (`TransfersShown`). It is stated for
messages the runtime would accept: of others, V0 leaves out instructions.

**Sui.** A preset claims calls of its own package only, and packages differ, so the order of presets decides nothing (`SuiVisualizer`). A
panic is traced through every stage that collects results (`SuiCollected`) to a
handler, and no handler panics on a program whose results are made before they
are used, but for the causes the property names. Each
handler's row is classified once (`CetusKinds`, `SuilendKinds`,
`MomentumKinds`, `StakingKinds`); `SuiTold` puts the kinds together, and the
rows of the screen are related to calls and to objects sent element by element.
The way back from a coin through splits and merges is a recursive function, so
it is reasoned about by what its steps do: the index falls at each step
(`BackExists`, `ComesToAnEnd`), and its end is the gas coin exactly if the coin
is in the least set that contains the gas coin and what is split from it
(`GasOnTheWayBack`). `TransfersAsSplit` reads the amounts and units of field,
title and summary off the one handler (`Sent`, `SentAsSplit`); a program in which
the unit of the summary and that of the field differ is one whose coin is not in
that set. `AmountsAreSplit` goes by the argument the code looks up: for a stake
the command with the argument's index (`StakeIsSplit`), for a repayment the
first amount of the split (`RepayIsFirst`).

**Tron.** Each contract adds rows of known labels, or none. Two transactions with
one screen have as many rows; reading from the end, the last rows tell the last
contract that left any (`TronToldFromTheEnd`), and a contract that left no row made no transfer that
can be read (`TronTraceless`).

**The encoding.** The invariant has the objects the builders make: their types,
and the keys that go with each. What is written of such an object does not
depend on the order a HashMap is read in, and has each key once
(`WrittenIsCanonical`): an object either goes through a sorted map or has the
order of its declaration, whose keys are distinct.

Where an argument runs over a sequence, or over the natural numbers, it goes by
the set of the lengths for which the claim holds (`SequencesBySteps`,
`NaturalsBySteps` of `SequenceFacts`), since a theorem about an operator cannot
be instantiated here.

**The registry.** The loop forgets what it tried: the invariant `UseInv` says that
a registered chain that is no longer untried does not convert the text asked
for (`TriedInv`), and that what a call returned is what the chain's converter
makes of the text (`ConvertInv`). `BytesAsMeant` is the lemma on `detect`:
outside the three kinds of `Mistaken` text, the bytes read are those meant. The
invariant does not say which chains a registry has, so that the one the command
line fills, whatever `Chains` a library's user has, keeps it too (`CliInv`): it
is new when it is filled, so nothing was said of it that filling it would undo.

**The tree.** `format_field` is a function at all because each call asks only for
those of smaller depth (`FormattedLocal`, `RecursionExists`). What it writes
below a field's own line begins with the call's continuation and three blanks
(`KeepsMargin`, by induction on the depth). So, in a list of fields, the box behind the margin
tells a field's own line from what is below it, and the last own line cuts off
the last field (`SplitAtLastMark`, `FieldTold`); reading from the end, that
relates two lists field by field (`WrittenAlike`). Within a preview, the
piece behind that margin is a name or a box and cuts the title, the subtitle and
the two views apart (`KeyedBeneath`, `SplitRows`). Hence two fields drawn alike
are the same as far as a person can tell, if that holds of those within them
(`BeneathTold`, `FieldTold`), and so for every depth (`FieldsTold`); the lines
on the transaction are told apart by their names (`HeaderTold`). The condensed
tree is compared with the full one call by call: the same lines but for expanded
views (`BeneathKeepsLines`, `FieldsKeepLines`), and lines left out at any depth
are lines left out of the whole (`FlatMapLeftOf`, `LeftIsWithin`).

The type invariants of the Ethereum conversion, the process and the registry,
and `OnlyPrintable` of the registry, are proved and not also run.

### Only model-checked

* Liveness (`EveryCallAnswered`, `WatcherEnds`, `FailureIsShown`,
  `SigtermEndsHost`, `LoneFailureEndsHost`), which is beyond the prover.

## 5. Not modelled

* The texts of rows: number formats, titles and summaries (but for those of a Sui
  transfer), truncated addresses; the
  details row of Sui, which repeats the whole transaction as raw bytes; the
  names of Ethereum's chains beyond a comparison.
* RLP, the ABI, bincode, bcs, protobuf, borsh, cryptography, QOS, solana-parser:
  libraries.
* The options of host and app, loggers, the metrics' registry and text format.
* Code generation, images, the integration harness.
* The screen of an Ethereum transaction leaves out its access list and bytes
  the ABI decoder passes over; `SameScreenSameTransaction` is stated up to
  these.

## 6. Plan

Done: the pipeline with its abstract service and clients that leave, the watch,
the process, the Ethereum, Solana, Sui and Tron converters, the registry, the
command line, the encoding; the proofs of section 4.

Every invariant and action property the runs check is now a theorem as well,
but for liveness. What is left is to bring the texts of rows into the models, and
the details row of Sui.
