# EDI platform: TLA+ models, checks and proofs

The platform receives X12 EDI interchanges from trading partners over several transports, judges
whether it has seen each one before, translates and validates its transaction sets, pushes the
conformant documents into the customer's system, acknowledges every functional group with a 997,
and puts rejections and conflicts before an operator.  It also onboards partners
(certification), takes orders from Shopify webhooks and sends documents out. This directory
models the parts of `src/platform` that keep state and run concurrently and the algorithms that
decide what partners are told, checks them with TLC and proves the most important facts about
them with TLAPS.  Paths below are relative to `src/platform/src`.

## 1. Inventory

Every HTTP request, webhook and transport call runs as an asynchronous handler of a Node
process; several processes may share one Postgres database.  A handler runs undisturbed between
two awaits, and every store call is an await. A database transaction holds a control number, a
transaction row with its subtype rows, a certification attempt, a sheet of catalog entries, or
the save of a relationship or a connector with its parts (and a connector's delete).  All else
is single statements, so "what another handler may do between two awaits" is the recurring
question.

| Component | State | Operations | What makes it correct |
|---|---|---|---|
| Inbound gateway (`intake/inbound-gateway.ts`, `db/repositories/dedup.repository.ts`, `raw-artifact.repository.ts`) | `raw_artifact` (content addressed, append only), `dedup_ledger` (first artifact, first fingerprint, occurrences) | `receive`: retain the bytes, derive identity and fingerprint, register, judge | an identity is accepted exactly once; every verdict is about the content first on record |
| Inbound pipeline (`control-plane/inbound-pipeline.ts`) | `interchanges`, `acknowledgments`, `dispatch_queue`, `transactions`, `deliveries`, `processing_event` | `receive`, `processInterchange`, `reprocess` | a document reaches the customer once; 997, ledger and lifecycle rows agree with what was delivered; nothing disappears |
| Processing ledger and review (`intake/processing-ledger.ts`, `control-plane/quarantine-resolver.ts`) | events with needs-review flag and resolution | `queue`, `dismiss`, `reprocess` | a rejection stays in review until somebody decides; re-running one document touches no other |
| Control numbers (`envelope/control-number.service.ts`, `db/repositories/control-number.repository.ts`) | `control_number_seq`, one row per partner and scope | `next`, `nextPadded` | numbers are distinct and without gaps, nobody waits for ever |
| Translation and orchestration (`control-plane/translation-pipeline.ts`, `integration-orchestrator.ts`) | none of their own | `ingestBody`, `validateBody`, `emitDocument`, `deliverDoc` | inverse directions agree; failures are reported, not lost |
| Envelope, 997 and X12 (`envelope`, `ack`, `x12`) | none | build and parse ISA/GS/ST, build 997 | parse inverts build; counts and codes of the 997 |
| Mapping engine (`mapping/engine`) | none | ingest and emit walks, paths, predicates, coercion | a map describes both directions of the same document |
| Validation and correlation (`validation`) | none | conformance to a specification, correlation to the order | an error is reported exactly when the rule is broken |
| Transaction repository (`db/repositories/transaction.repository.ts`) | `transactions` and subtype tables | `save`, `list`, `get`, `reconstruct` | what is saved is what is read; a list loses nothing |
| Certification (`certification`, `db/repositories/certification.repository.ts`) | sessions, cards, attempts, issues, messages, events | `openSession`, `dropFile`, `setReference`, `waive`, `certify`, ... | a card agrees with its attempts; no certificate while a blocking card is open |
| Shopify intake (`connectors/shopify`, `dropship`) | registrations, catalog bindings; transactions and events | webhook `process` | a redelivered webhook creates no second order |
| Configuration (`control-plane/config-loader.ts`, config repositories) | tables, in-memory registries | edits, `hydrate` | a registry holds what was saved, and whatever its relationships name |
| Authentication (`api/principal.guard.ts`, user and API-key repositories) | users, scopes, sessions, keys | create, login, logout, resolve, revoke; what handlers ask of the principal | a revoked credential stops working; the certification board shows a partner its own relationships |
| Schema (`db/migrations.ts`, `db/schema.ts`) | the tables | `createSchema` on every start | a started server finds the tables and columns its repositories use |
| Connectors, transports, console | none; transports are stubs | conversions, views | — |

Interactions: a transport calls the pipeline, which calls the gateway and, for
an accepted interchange, the translation pipeline, the orchestrator (push to the
customer's connector), the control-number service, the lifecycle tables and the
ledger, in that order.  The resolver reads the ledger, re-runs the pipeline past
the gateway and stamps the ledger.  They share the database and nothing else;
there are no callbacks, and no queue is drained yet (transports are stubs).

What is hard here: many handlers between each other's awaits; a stop (crash or
rejected store call) anywhere in a run that spans a dozen statements without a
transaction; check-then-act on the ledger, on certification and on webhooks;
batches whose sets fail one by one; identities that repeat (control numbers
across groups, resends, new content under an old number).  `PROJECT.json` lists
each hazard at its line with the properties that watch it.

## 2. Plan

1. `Intake` with `IdempotentIntake`, the promise of the dedup store. Done, proved.
2. `ControlNumberRepository` with `ControlNumberService`. Done, proved.
3. `InboundPipeline` over `Intake`. Done, proved.
4. `QuarantineResolver` over `InboundPipeline`. Done, proved.
5. `Certification`: sessions, cards, attempts, the feed, the gate. Done, proved.
6. `ShopifyWebhook`: deliveries, SKU resolution, order routing. Done, proved.
7. `Emissions`, documents sent side by side. Done, proved.
   `MappingEngine`, `Conformance`, `HouseFormat`, `X12Envelope`, composed with it by
   `Exchange`: documents sent and read back, batches taken apart
   and acknowledged, responses correlated. Done, checked.
8. `TransactionRows`, `Configuration`. Done, proved.
9. `Schema` with `Bootstrap`, and `Access`. Done, proved.
10. What is left is the rest of step 7: its walks are recursive or fold a
    sequence, and what they compute is shown for bounded inputs only.

The modules are written for proofs too: constants with named assumptions, one
action per awaited call, invariants in named conjuncts, no `RECURSIVE`.

## 3. Modules

### `Intake`, `IdempotentIntake`

A handler per call of `receive`. `Receive` retains the bytes and derives
identity and fingerprint in the same turn.  Then the two stores differ:
`RegisterAtomically` is `InMemoryDedupStore.register`, one turn of the event
loop; `Upsert` and `Lookup` are the two statements of
`DedupRepository.register`, which no transaction holds together.  The constant
`AtomicRegister` chooses.  `Abort` stops a handler anywhere; what it wrote
stays.

A payload is a record `[isa, content, form]`: `isa` is the interchange identity
(sender, receiver, control number) or `NoIsa`, `content` what the normalized
segments hash to, `form` what normalization removes (line ends).
So a resend in another form has the same key and fingerprint and another
artifact, and a payload without an identity is keyed by its own bytes.  `raw` is
a set because the store is content addressed and never deletes.

`IdempotentIntake` is the contract of `dedup.store.ts:21`: the first receipt of
an identity is accepted, later ones are told against it that they are a
duplicate or a conflict.  `Intake` with the one-turn store implements it, with
the set of verdicts given so far as the refinement mapping; with the durable
store it does not (section 5).

### `ControlNumberRepository`, `ControlNumberService`

`Upsert`, `Select` and `Commit` are the three statements of `next`; the upsert
takes the row lock, which the commit or `Rollback` releases.  A sender draws from
the sequences of `Order` one after another, as `emitDocument` and
`buildGroupAck` do.  `Visible` is what a statement reads under READ COMMITTED: the
transaction's own write, else the committed value.  The abstract service gives
the next number in one step, at the implementation's commit.

### `InboundPipeline` (extends `Intake`)

`job[h].pc` is the await the run of handler `h` stands at; `work` and
`processed` are the two loops' remaining iterations; `tables[h]` are the rows it
inserted.  `Arrive` and `AwaitGateway` are the gateway's steps,
`ShortCircuit` the duplicate and conflict branch, `ProcessAccepted` the start of
`processInterchange`.  Each set is translated, validated and, if conformant,
pushed (`Deliver`), or not (`Reject`), or the translation throws
(`TranslateThrows`); each group is then acknowledged (`BuildAck`, `SaveAck`,
`EnqueueDispatch`) and each of its sets recorded (`SaveTransaction`,
`RecordDelivery`, `LogEvent`).  `BuildAckThrows` is `buildBody` refusing a group
whose identifiers are missing.  What a translation yields is a choice among the
outcomes the set can have under the maps and specifications an operator may
configure meanwhile, given per set by the constant `GroupsOf`.  The control
numbers of a 997 are one step here, justified by
`RepositoryKeepsPromise`.

### `QuarantineResolver` (extends `InboundPipeline`)

`AskDismiss` and `AskReprocess` are `requireOpen` reading an open item;
`Dismiss` and `StampReprocessed` are the later unconditional `UPDATE`.
Between them `Reprocess` runs the retained bytes through the pipeline's own
actions: the set that `LocateTransaction` finds for a rejected set, everything
for a conflict.  A request that `requireOpen` refuses changes nothing and is not
an action.

### `Certification`

One onboarding session.  A handler is one request (`OpenSession`, `DropFile`,
`Waive`, `SetReference`, `AddMessage`, `Certify`), and `job[h].pc` the statement
it stands at.  `board[c]` is the row of card `c`, `attempts` the test files on
record, `feed` the activity entries.  `recordTestFile` is a transaction: it
reads the card without a lock (`ReadCard`), inserts, updates the card and so
holds its row (`UpdateCard`, `locked`), reads the last feed number and inserts
the entry; all of it appears at `CommitAttempt`, or never (`Stop`).  What a
client does outside a transaction is seen at once.  Whether an upload conforms
and which reference samples it answers are constants; the verdict is
`VerdictOn`.  A card once on the board is never removed by the code, nor is a
session: a handler that has looked them up can rely on that.  The reads of
`dropFile` that come before it looks for the order sample are therefore one
step with it, and `canCertify` is one step because it is one query.

### `MappingEngine`, `Conformance`, `HouseFormat`, `X12Envelope`

Operators, one for each method of the engine.  A canonical document is a tree of
objects and arrays whose leaves are texts, numbers in thousandths and dates; a
value on the wire is a text, a numeral with its places or the digits of a date,
and knows its length.  `Emit` is `EmitService` (loops, conditions, constants,
qualifiers, counts, HL frames), `Ingest` is `IngestService` (the cursor over
the segments, writing by path, what is left unclaimed), `ValidMap` is the
structural part of `MapValidator`.  `Conformance` holds the validator, the 997
and the three correlations; `HouseFormat` the built-in specifications with their
lengths and code lists; `X12Envelope` building, `batch` and `parse`, and
the text codec.  The walks are recursive and stay with TLC.

### `Emissions`

The numbering of `emitDocument`, apart from what it translates a document to.
`StartEmission` takes the next document of a payload: `emissions[n]` is one call,
which in its first turn translates and validates, or throws (`Rejected`), and then draws
its ISA, GS and ST number one await after another (`DrawNumber`) while its
siblings do the same under `Promise.all`.  A draw is one step, justified by
`RepositoryKeepsPromise`.  `Modulus` is where a padded control number wraps:
`nextPadded` keeps the last digits only, and two values are enough to let the
numbers repeat.

### `Exchange` (extends `Emissions`), `ExchangeSamples`

What `TranslationPipeline` and `IntegrationOrchestrator` do with those
operators, under the configuration of one relationship.  The constants `Translation` and
`Rejected` of `Emissions` are `EmittedBody` and `EmitThrows` here, which
`EmissionsAssumption` states and TLC evaluates.
`ReceiveStream` separates a batch, translates and validates every set and builds the
997 of every group; the streams include batches with missing, repeated
and misplaced headers and trailers.  `Correlate` and `WriteText` are the other two
entry points.
`ExchangeSamples` holds the maps of the repository's fixtures and the documents
they are checked with.

### `ShopifyWebhook`

`requests[r].pc` is the await of `process` that delivery `r` stands at:
registration, catalog (with the intake and the split in its turn), the lookup in
the ledger, the raw body, then a number and a stored order for each vendor, and
the event.  `StopDelivery` ends one at any await.  Operators register the shop and
upload or remove catalog entries meanwhile.  The catalog query orders by SKU and priority,
and ties come in any order; the resolver sorts by priority again, so the model takes the
entries in any order at all.  `Route` states the loop of
`OrderRouter.route` by what it leaves: the lines of one vendor (`Siblings`), in the order of
the first of each (`InOrder`).  Three more loops are stated so: the resolver's stable sorts
by the place each binding ends up at (`SortedFirst` picks the first), a sheet's upload by
the last row of each binding, which overwrites those before it (`LastOfTheirBinding`).

### `TransactionRows`

A save is three steps: the time is taken (`BeginSave`), the transaction commits all rows
or none, or is rolled back.  `Shredded` is what is stored, `Reconstruct` the set of what may be
read back: lines come by their number, and a line's ids, the parties, the references and the
dates in any order (`InAnyOrder`), since they are selected without `ORDER BY` from tables
keyed by random ids.  What is lost on the way:

* stored and never read back: a purchase order's purpose and type codes, a line's first charge;
* no row: ids without a qualifier (but a line's first), a party's ids but the first,
  references and dates without a qualifier, the orders of a shipment but the first's number,
  leading zeros of line numbers, an acknowledgment outside an 855;
* no column (`rest` in the model): further charges, references and dates of lines, the
  document's own charges, a currency, extensions of parties, the header and the items of an
  inventory advice, what a functional acknowledgment says, anything else in `extensions`.

What is left of a list when it is stored (`LinesOf`, `Qualified`) is a set of places, listed
in turn (`InTurn`).  `IsDocument` is the shape of a canonical document that the type
declarations give.  A list is its count, then its page, then perhaps the next page.

### `Configuration`

Rows carry the time of their last write (`at`) and of their creation (`born`);
aggregates are a header and parts that one transaction saves and two reads load.
`hydrates[h]` stands at a stage (specifications, maps, connectors,
relationships) and a step within it.  A registry entry remembers when its rows were
written and read, so that the properties can say how old what is in use may be.
`Failed` is a hydrate that a malformed map threw out of its loop, or that a restart ended.

### `Schema`, `Bootstrap`

`Statements` are the tables and indexes of `createSchema` in their order, `RowTypes`
the interfaces of `schema.ts` the repositories are compiled against.  A server
looks for what the statement it is at creates (`IF NOT EXISTS`), then creates it; another may come
between, and the loser fails its start and may start again.  Statements that find
their table there pass in the same step: `Look` goes to the first one that does not.

### `Access`

Users are created by one insert and one for each scope; a creation may be cut off
anywhere.  The guard reads session, user and scopes in three awaits (`ReadSession`,
`ReadUser`, `ReadScopes`) or a key in one, while sessions and keys are revoked
and scopes added.  Then a handler answers by what was read: the certification board's
filter and check by relationship (`ListSessions`, `AccessSession`) or are for clients only
(`AssertClient`); the lists of relationships, documents and review items ask neither
role nor scopes (`ListByTenant`, section 5).  Scopes and revocations carry the moment they were
made, requests the moment they came, and what they asked for and were given.

### `MC*`

The instances: payloads, their groups and sets, roles and uploads, symmetry.
`MCPlatform` holds those of the nine parts that share no state (four of
`Exchange`: emission, receipt, correlation, codec).  The variable `part` chooses one at the
start; the others stay as they began, so TLC explores the sum of the parts.
The composition that matters between parts with shared state is made by EXTENDS:
`QuarantineResolver` over `InboundPipeline` over `Intake`.

Definitions whose comment calls them a fault are variants of the one below them;
`PROJECT.json` uses them, and no specification does.

## 4. Runs

Handlers are bounded because a handler is one request; every run has enough of
them for two to race and another to observe.  `MaxAborts`, `MaxStops` bound the
handlers that stop.  Deadlock checking is off in every run: requests are finite
and the system is at rest when all of them have ended.

| Run | Instance | Shows |
|---|---|---|
| `intake_database` | 4 handlers; an order, its resend with other line ends, another content under its number, a payload without identity; durable store; 1 stop | one acceptance per identity, true verdicts, the first record final |
| `intake_register_race` | 2 handlers, no stop | finding, section 5 |
| `control_numbers` | 3 senders, 3 sequences, 1 stop | numbers distinct and dense, implementation of the abstract service, and that every sender is served |
| `pipeline` | 2 handlers; a batch of two groups (two sets, one set) in two forms, another content under its number, a faulty interchange (a throwing set, an unacknowledgeable group), one with an empty group; 1 stop | one run delivers; 997 and ledger tell the truth at every moment; a completed run has logged one event for each set, in the order received; every receipt ends |
| `pipeline_lost_run`, `pipeline_silent_drop` | 2 handlers over the one-turn store, with 1 stop; 1 handler, no stop | findings |
| `resolver` | 4 handlers, receipts or operators; two rival interchanges; one-turn store; 1 stop | the review queue under racing operators, and the gateway's contract inside the whole system |
| `resolver_reprocess_race`, `resolver_twin_control_numbers` | 3 and 2 handlers, no stop | findings |
| `certification` | 4 handlers; an anchor and a blocking response; an upload that answers the sample, one that conforms and is for another order, one that does not conform; 1 stop | cards show attempts whole, locks are released, numbers have no gap, the feed tells the truth, certificates rest on evidence |
| `certification_gate` | 2 handlers, no stop | finding |
| `platform`: emission | payloads of one document of each type in many variants, and of three together, one of which may throw; numbers that wrap at 2 | `SentDocumentTellsAll`, `HouseFormatServes`, `NumbersTellInterchangesApart`, `WireReadsBack`: a sent document is read back, hierarchy and counts included; findings are the customer's; a conforming order can be answered; a 997 finds its group |
| `platform`: receipt | every stream of up to five envelope segments in any order, batches of two groups whose sets conform, do not, or say too much | `WireReadsBack`, `SetIsAccountedFor`: sets are separated as the envelope says, judged finding by finding, and nothing in them is dropped |
| `platform`: correlation, codec | responses split, short, excessive, of another order; values with delimiters and line breaks | `CorrelationFindsOverCommitment`, `WireReadsBack` |
| `platform`: shopify | 2 deliveries of an order with and without webhook id, a test order, a bad signature; 2 edits of registration and catalog; 1 stop | `PlacedAgainOnlyUnawares`, `AnsweredIsPlacedOrHeld`, `VendorOrdersAreSound`: vendors get the order's lines once, in full quantity and at the shop's price, and nothing besides |
| `platform`: bootstrap | 2 servers, 1 crash | `DatabaseFitsServers`: the schema grows in order and fits the row types |
| `platform`: rows | 3 row ids, 2 saves at once, pages of 2, with and without a filter; a plain order, one of nothing but codes, a shipment of two orders with charges and what no column holds | `RowsTellTheDocument`: what is lost is what section 3 lists, in whatever order rows come; `ListTellsTheTable` |
| `platform`: config | 2 writes, 2 hydrates, 1 restart, a map that may be malformed | `RegistriesAreSound`: warm, resolved, and mixed only across a save |
| `platform`: access | 1 login, 1 key, 1 request, 2 changes, a partner of two scopes and an operator | `AccessIsEntitled`: admitted means live, and what the certification handlers give means scoped |

Why the bounds are enough: a wrong verdict needs an identity, its resend and a rival (three
receipts), plus one that stops between upsert and read; a lock that is not respected needs two
senders, a lost one that rolls back a third; a loop that loses its place needs a second group
and a second set; a resolver race needs the receipt, two operators and one more request that
must not be harmed; an attempt count that falls needs the opener and three attempts on one card,
a certificate the opener, an attempt, the gate and one who overtakes it. An order placed twice
needs two deliveries, one of them stopped for a redelivery after a partial run; a catalog that
changes under a delivery needs one edit after its read and one before. A shared schema breaks
with two servers, between whose look and create the other comes. Pages of two over three rows
give a second page, and a save at each await of the list.  A relationship that names what is not
registered needs two writes (its map and itself) around the reads of one hydrate; older rows
over newer ones, a second hydrate. A guard that reads what changes needs one request, a
revocation and a scope added between its reads.  Three documents, one of which may throw, and
three draws each give every interleaving of `Promise.all`. Symmetry over handlers and servers is
used for safety only: handlers enter the properties by quantifiers alone.

Fairness (`PipelineFairSpec`, `FairSpec`): weak fairness of what a *started*
handler does, because the event loop resumes a handler whose promise has
resolved, and of a sender's next statement, because the database grants a free
row lock.  Nothing makes requests arrive, and nothing keeps a handler from
stopping: the liveness properties count a stopped handler as ended, and show
that its locks and rows hold up nobody else.

Each property of a passing run has a mutant in `PROJECT.json`, and most parts of a
conjunction one of their own: a plausible bug
of the named code (a dropped await for the lock, a verdict off by one, a loop over
the first group only, a stamp on the wrong event) that TLC finds by that property.

## 5. What the code does against its own words

Each is a run that TLC finds violated, with a line of the repository quoted in
the property's comment.

* **A lost interchange** (`FirstOccurrenceAccepted`).  Two concurrent receipts of
  a new interchange both upsert, then both read a count of two: both are told
  duplicate, nobody processes it.  At most one acceptance holds all the same and
  is proved.
* **A lost run** (`DuplicateMeansProcessed`).  The identity is registered before
  the run, so a run that stops is answered to every resend as "already
  processed".
* **A silent drop** (`NothingDroppedSilently`).  A set whose translation throws
  takes its group with it: siblings already pushed to the customer get neither
  997, nor transaction row, nor event.
* **Two operators** (`EachSetDeliveredOnce`).  `requireOpen` is far from the
  stamp; two reprocess requests both deliver.  `OncePerItemTakenUp` shows that a
  second delivery needs a second request for the item (or one that stopped and was
  taken up again), twin control numbers apart.
* **Twin control numbers** (`SiblingsNeverTouched`).  ST02 repeats across
  functional groups; the re-run takes the first set that carries it.
* **The certify gate** (`GateHolds`).  `certify` asks `canCertify`, then updates
  the session in a later statement whatever has happened since, while
  `openSession` shows the session before it has seeded the cards and attempts
  change them: a session becomes certified with a blocking card unsatisfied.

The proved properties of the board are what holds all the same.  Attempt numbers
and feed numbers repeat when two requests read the same maximum, a card's count
can fall when the slower of them read first, and a session can be certified
before its cards exist: `NumberedWithoutGaps` and `CertifiedOnEvidence` say what
is left.

Two more follow from the steps of the resolver and have no run of their own: a dismissal
racing a reprocess of one item can leave it marked dismissed though its document was
delivered, and a stop between the re-run and its stamp leaves a delivered
document's item open, so that an operator who takes it up again delivers twice.

Met while modelling, and stated by what the parts of the properties of `platform`
leave out:

* Two deliveries of one Shopify webhook that overlap both place its orders, and so does a
  redelivery after a stop between the first order and the event: the lookup
  is far from the record (`PlacedAgainOnlyUnawares`).
* A webhook whose order was held for review is answered "duplicate" when it is
  sent again, also once the catalog could place it.
* `AK302` carries the position of a segment in the body; the comment of
  `FunctionalAckService` says in the transaction set, which is one more.
  `AckTellsTheFindings` admits either, one of them throughout.
* `principal.ts:9-12,20` says that a partner may see only the relationships it is scoped to.
  The certification handlers keep to it; `relationships.controller.ts:15-25`,
  `documents.controller.ts:17-43` and `review.controller.ts:18-36` answer by tenant and ask
  neither role nor scopes, so that a partner's session is shown everything of its tenant
  (`ListByTenant`).
* `reconstruct` reads parties, references, dates and a line's ids without `ORDER BY`
  (`transaction.repository.ts:130,146-153`): which of several is first may differ from
  read to read.
* A relationship saved before its map, between the two lists of one hydrate, is put into use without
  it (`RelationshipsResolve` says when); two hydrates that overlap may leave the older
  row in use (`HydratedIsWarm` asks for one that ran alone); a deleted connector stays in
  use until a restart.
* An aggregate read across a save has the old header and the new parts
  (`MixedOnlyAcrossASave`).
* A server that loses the race to create a table fails its start.
* A user whose creation stops between two scopes can log in and sees less.
* An empty array that a map counts is read back as no array; years outside
  1970..2069 change their century in a two-digit format.
* A quantity of eleven to fifteen places conforms as ordered and cannot be invoiced in the
  house format, whose invoice has ten.

## 6. Proofs

TLAPS checks every step of the eight proof modules, for every value of the constants under their
stated assumptions: any handlers, payloads, groups and sets; any operators and events; any
senders and any sequence of scopes without repetition; any board, requests, uploads and samples;
any webhooks, registrations and catalogs; any accounts, relationships and bounds; any payloads,
translations and moduli; any servers; any tenants, configuration rows and hydrates; any
documents and lists of them.

`IntakeProofs`.  `TypeOK` and `RegistrationInv` are inductive together
(`RegistrationHolds`).  `AtMostOneAccepted` is not inductive: a
verdict is read from a row that others raise meanwhile.  `RegistrationInv`
adds what links rows and handlers: a count of one means that one handler has
registered, that it is the one whose content is on record, and that a second
registration makes the count different from one.  From it follow
`OneAcceptance`, `TrueVerdicts` and `FirstRecordStays`, for both stores.  For
the one-turn store an additional invariant (a registered identity has an
accepted receipt on record) gives `AtomicStoreLosesNone` and the step
simulation `AtomicStoreKeepsPromise`.

`PipelineProofs`.  A step of the pipeline or the resolver is a step of the gateway or
leaves its variables alone, so what `IntakeProofs` proves holds with all of it running
(`GatewayWithinPipeline`), the refinement of the one-turn store included
(`PromiseKeptWithinPipeline`).  `PipelineInv` (`RunsAreWhole`) is about each run: the sets
left to do are disjoint from those pushed, acknowledged or logged, and the group in hand has
the rows that the statement the run stands at presupposes.  Without the first part a push
could repeat, without the second an event could be logged before the rows it reports on;
neither `CustomerReceivesOnce` nor `LedgerTellsTheTruth` is inductive without
them.  `OneReceiptDelivers` then needs only that one receipt of an identity is accepted, and
`LedgerIsTrue` the rows in hand.  `OrderInv` (`RunsAreInOrder`) adds the order: a receipt's
997s, dispatches and events are those of the groups and sets before the one in hand.  From it
follow `AckIsTrue` (a 997 accepts exactly the sets that were pushed) and `DoneIsComplete` (at the
end of the loop, "before the one in hand" is everything).

`ResolverProofs`.  `locateTransaction` looks a set up by code and control number in all groups,
so that of two sets of one name it runs the first for both (section 5).  What the theorems about
re-runs promise therefore assumes `SetsNamedApart`: within an interchange no two sets share
them; X12 itself asks that of a functional group only. `LedgerOnlyGrows` needs no assumption: no
step but the stamp touches a row, and the stamp only its resolution and link.  So what an
operator has read of an item stays, and `ReviewInv` (`ReviewHolds`) can tie a request to it: the
re-run of a set works on that set alone (`OneSet`), logs at most one event, and has logged it
before it reaches the stamp.  That gives `LinksAreOfTheRerun` and `SiblingsAreLeftAlone`.
`RejectedStayInReview` rests on `Safe`: a rejected document has reached the customer, or an
event of it is in review that no re-run is about to close.  The last clause is what makes it
inductive: a request that stands at its stamp has already pushed the document or logged another
event of it.  `EachItemDeliversOnce` follows a document from run to run: of all runs it was part
of, one bears it, the one from whose events no operator has taken it up (`Bears`, `PassedOn`);
what an operator runs again goes back to a receipt (`Rooted`); and only a second operator on one
item makes a second bearer.

`ShopifyProofs`.  `DeliveryInv` (`DeliveriesAreSound`) says where a delivery stands: the `n`-th
order it saved is the `n`-th of its split, nothing is saved before the lookup nor of a split
that is held, what was in the ledger when it looked was of other keys, and every event belongs
to a delivery that was processed.  The tables only grow (`SoundStays`), so each delivery is
looked at alone.  `PlacesAgainOnlyUnawares` is then immediate; `AnsweredOnlyWhenDealtWith` needs
that webhooks of different orders have different keys, which Shopify's ids give.  `NumbersInv`
adds that a number drawn and not yet used is below the sequence and nobody else's
(`VendorNumbersStayDistinct`).  `SplitIsExact` is about the router alone, for any order and
resolver; it rests on `InOrderLists` (the ranks of a finite set of numbers are a bijection).
`EachLineGoesOnce` carries it to every delivery: the split in hand is still the one that was
made, whatever becomes of the catalog.  *Which* vendor has a SKU needs the catalog: `CatalogInv`
(`CatalogStaysSound`) says that a tenant has one row for a SKU and a vendor whatever is
uploaded, and that what a delivery read is such a catalog, in one of the orders the table may
list it in.  `SortedFirstIsLeast` (the first of a stable sort is one no other precedes) then
gives `ResolvesToAVendor`: what `Resolve` finds is in the reference set `Vendors`, and it finds
nothing only if that set is empty.  `SplitCovers` puts router and resolver together: each line
goes to a preferred vendor in its quantity and at its price, and a vendor gets nothing besides.
`SplitsCoverTheOrder` is its invariant, and with the numbers all of `VendorOrdersAreSound` is
proved (`VendorOrdersStaySound`).  `CatalogAssumption` says of the instance what the table's
unique index and the code's types say: the first rows are of different bindings with both SKUs
given, priorities and packs are integers where they are given, sheets and prefixes are lists.

`ControlNumberProofs`.  `RowLockInv` says who may write: the holder of a row is the sender
whose open transaction is on that scope, what it has written and read is the
committed value plus one, and a sender has drawn from the scopes before its present one
only.  It is inductive (`RowLockHolds`).  Distinct and
dense are then proved together (`DistinctAndDense`): neither is inductive
alone, since a commit gives a new number only if all below are taken and none
above.  `RepositoryKeepsPromise` maps a commit to the abstract step and every
other step to a stutter.  Its last part is about `Emissions`, for payloads of any length and
whatever their documents are translated to.  `EmissionInv` (`EmissionInvHolds`): a call has the
numbers of the scopes it is past and no other, so that one that threw has none, and every number
counted was drawn by exactly one call.  `NumbersTell` follows, with `CycleApart` (numbers of
equal remainder are a modulus apart) for the padded ISA13.

`CertificationProofs`.  `CertificationInv` is the conjunction of the run's six
properties and what they lack to be inductive.  `RequestsAgree` ties the
statement a request stands at to the kind of request; `DropAgrees` says that an
open attempt's card is on the board, its upload retained, its verdict in accord
with conformance and its number a recorded one (a read count stays one of the recorded
numbers, since attempts are never removed: that is why numbers repeat but leave
no gap); `OtherAgrees` says what the other requests have done before they log
it, and that all numbers below the one read are in the feed; `BoardAgrees` that
cards come one after another, that a waived card has its waiver and a passed attempt
a conforming upload; `FeedEnds` that the feed's numbers are `1..n`, so that their
maximum exists.  Each conjunct has a step lemma of its own, over lemmas on who
writes the board, the attempts and the feed, and that records only grow.
`CertifiedOnEvidence` is stable because attempts and waivers are never taken back, although the
card itself may fail again.

`AccessProofs`.  The guard's three reads happen at three moments, so that what is true of a
request when it is admitted cannot be read off the state.  `AccessInv` carries it from read to
read: `GuardAgrees` says that a request past `ReadSession` holds a session that was live or was
revoked after the request came, and `UsersKnown` that an e-mail is one user's, a session an
existing user's, and no scope is given later than now.  Moments only grow, so a later revocation
is stamped later and `AdmittedWasLive` (`AdmittedRequestsWereLive`) survives it; what a request
has read of user and scopes is what stood at some moment since it came (`ReadsAgree`), scopes
are only added, and a handler's answer is computed from what was read (`AnswersFollow`), so
`SeenIsScoped` (`PartnersSeeTheirScopes`) survives additions; a creation under way is in
`creations` with the scopes it has still to insert, which gives `CreatedWithItsScopes`
(`CreationScopesUsers`).

`StoreProofs` is about the database and what is read of it, in four arguments.

*The schema.*  `BootstrapInv` says that what is made is the first `k`
statements, that no server is past statement `k + 1`, and that a ready server means
`k` is all of them.  A server that creates must therefore be at `k + 1`, or lose
the race.  `SchemaHasNoGap` and `StartedServersFindAll` follow for any number of
servers and crashes.  `DatabaseFits` also speaks of what the statements say, and takes
`StatementsAssumption`: no table is created twice, what a statement refers to is created by
an earlier one, and all together have the tables and columns that the repositories are
compiled for.  That is an assumption about a closed list; TLC evaluates it over all of
`Statements` at every run.

*The configuration.*  A hydrate reads for a long time what others write.  `ConfigInv`
(`ConfigInvHolds`) says of each call that what it has read of a row is no older than the row was
when the call began, so that registering it makes nothing older than earlier hydrates promised;
and that a stage is over only when every row that it had to find is registered, a relationship
last.  `HydrateWarms`, then `RelationshipsResolve` (what a relationship names was registered by
an earlier stage of the hydrate that loaded it) and `MixedOnlyAcrossASave` (header and parts
agree unless a write fell between their reads) follow, together `RegistriesStaySound`.  Of the
rows at the start `StartAssumption` says that they are what saves would have left.

*The list.*  The rank of a document is the number of those before it.  `RowsInv`
(`RowsInvHolds`): one that was stored when the walk began and is not shown has a rank at or
after the offset; one that is shown has a rank before it and was shown once, or something was
saved before it. A save only raises ranks, a page shows exactly the ranks it covers, and a page
that is not full covers all: `ListIsTrue`.

*The rows of a document.*  What is stored are always the rows of a document
(`StoredAreDocuments`), so `RowsAreTrue` is about the conversions, for every reading that
`Reconstruct` admits.  The filters of a save list a finite set of places by their turns; the
turns are a bijection (`TurnsTell`, `InTurnIs`), hence every line is stored as often as it was
there.  Rows read in any order are a bijection of those stored (`Shuffles`, `AnyOrderIs`), hence
every line comes back as often as it was stored, whichever order its ids come in
(`LineRowsTell`); and lines that already ascend can only be read as they stand
(`AscendingStays`), hence a plain document comes back as it was up to the order of parties,
references, dates and ids.

Only model-checked:

* liveness (`EveryReceiptEnds`, `EverySenderServed` and the like), which is out of the
  provers' reach;
* `Exchange` apart from `Emissions`, whose walks are recursive or folds, so that what they compute
  needs induction over data: `SentDocumentTellsAll`, `HouseFormatServes`, `WireReadsBack`,
  `SetIsAccountedFor`, `CorrelationFindsOverCommitment`;
* `PlatformTypeOK`, the conjunction of the type invariants of `Emissions`, `ShopifyWebhook`,
  `Bootstrap`, `TransactionRows` and `Configuration`, which are proved one by one
  (`EmissionTypes`, `ShopifyTypes`, `BootstrapTypes`, `RowsTypes`, `ConfigurationTypes`);
* the properties of the runs that find a violation are false and have no theorem; what
  holds instead is proved (`AtMostOneAccepted`, `OncePerItemTakenUp`,
  `SiblingsNeverTouched` under `SetsNamedApart`, `CertifiedOnEvidence`).

## 7. Not modelled

* Connectors and transforms: stateless conversions of customer formats (file
  layouts, field renaming); a push is one step of the pipeline.  Transports are
  stubs, nothing drains the dispatch queue.  The console is views over the API.
* The choice of the customer's connector in the orchestrator; times of day
  (`HHMM`) and the parsing of a map's conditions in the mapping engine; the padding and
  the stamps of ISA and GS.
* The dialect's single SQLite connection, which serializes what the models let
  interleave, and databases created by an older version of the schema.
* Revoked users: no code sets `revoked` on one.  Password hashing is part of a
  login, the signature check of a webhook part of its delivery.
* A second tenant in the configuration instance: it would only multiply TLC's states, and the
  theorems hold for any.  Reads and deletes filter by tenant; an upsert on `id` changes the row
  whosever tenant's it is, and leaves it to that tenant, in the module as in the code.
  `Access` has no tenants at all: nothing is said there of one tenant's operator who
  adds a scope to another's user, which `addScope` does not check.
* `ConnectorMapRepository`, which has no caller, and `setSessionStatus`, which only the
  seed calls.
* The seed and the fixtures beyond the maps, specifications and documents that
  `HouseFormat` and `ExchangeSamples` take from them.
