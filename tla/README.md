# A TLA+ model of xkeen-ui-server

TLA+ modules translated from the Go source, TLC configurations that check them
on small instances, and theorems about them that TLAPS proves for every
instance. Paths below are relative to the repository root.

## 1. The system

At this commit the repository holds two things: a configuration core, a library
of pure functions over snapshots of one router (`internal/configuration`, about
nine tenths of the Go code), and a server process that so far answers only
`/healthz` (`cmd/xkeen-ui-server`, `internal/server`). The core is not called by
the server yet. A *caller* keeps the snapshot, passes it to a function and
stores the candidate it returns; a function that finds an issue returns no
candidate and changes nothing. So the state that evolves is the caller's, and
the questions worth asking are about long sequences of calls: which snapshots
can be reached, and does each function still do what it says in all of them.

| Component | State | Operations | Correct when |
|---|---|---|---|
| Rule order (B08), `rule_order.go` | shared and local rule UUIDs, template order, personal order (or nil), exclusions | insert, move, reset, reconcile with a new template, assemble | no rule is lost, doubled or invented; rules swap only where the administrator asked; new template rules stand at their index; every insertion index exists |
| Selection (B06), `selection.go`, `identity_set.go` | elements, overrides, exclusions, local elements | validate the records, select the contents | it selects exactly the rules the order shows |
| Content inheritance (B04, B05), `inheritance.go`, `content_override.go` | per source: mode, personal values, own JSON | replace, back to variables, reset, select | personal values survive every switch; an own JSON is immune to the template |
| Variables (A06, B01, B02), `prepare_values.go`, `substitute.go`, `reference.go`, `declarations.go` | definitions with type and default, personal values | discover references, prepare values, substitute | only filled values of the declared type reach the result |
| Element records (A08), `element.go`, `elementjson` | text and definitions of an element | prepare, restore, encode, decode | what is stored declares what it refers to |
| Inbound dependencies (B10), `inbound_dependencies.go` | rules, inbounds, exclusions, disabled marks | analyse, guard a deactivation or removal | no active rule loses or changes its inbound; the reported readiness is true |
| Outbound dependencies (B11), `outbound_dependencies.go` | active rules, outbounds, routing elements with balancers | analyse | every tag means one outbound; readiness and the list of references say the same |
| Xray catalog (B12), `catalog.go`, `catalog_dependencies.go` | the snapshot of all sections of one router | assemble, or report what blocks | assembled exactly if both analyses are ready; what a rule names is in the files, once; hiding, guarded changes and replaced sections do not block it |
| Identity projection (A07), `identity_projection.go` | none | add the UUID as a marker | no value comes under two UUIDs; an element takes its own value back |
| Server lifecycle, `lifecycle.go`, `main.go` | main goroutine, accept loop, listener, signal context, connections, `net/http` | listen, serve, accept, drain, close, exit | everything is closed, running requests get the drain time, the exit code is true, a signal ends the process |
| HTTP handler, `handler.go` | none | `/healthz` | stateless |
| Demo, `cmd/xkeen-config-demo` | files in a directory, the running processes | list, create, write, close, roll back | a finished run's catalog is complete and its own; a failed run leaves nothing and removes nothing of others |
| Lab, scripts, CI | none | start containers | not modelled |
| Storage, publication, agent, UI | - | only in docs and openspec | nothing to model yet |

Interaction. Order and selection are computed from the same records; they share
the validation of the records and nothing after it, and meet in
`SelectOrderedRouterElements`, which looks contents up by the visible order. Selection calls inheritance, which calls value
preparation and substitution. The dependency analyses run over selected
contents; the catalog joins all of them, and the demo writes it to files. In the server, the main goroutine, the
accept-loop goroutine, the handlers, the signal context and the timers of
`net/http` run concurrently and meet in one `select` and in `Shutdown`.

What is hard here: orders edited by two parties (template and router) over a
long time, records that outlive what they name, nil against empty, values kept
while they are inactive, an answer given about a candidate that has to hold for
the draft it becomes, readiness told twice by different code, values that find
their way from the files back into a draft, in the demo processes that share a
directory, and in the server the races between a signal, a failing accept loop,
requests that arrive during the shutdown and two equal timeouts.
`PROJECT.json` lists each hazard with its line and the properties for it.

## 2. Modules

    RuleLists <-- RuleOrder <-- RouterOrder   <-- MCRouterOrder    RouterOrderProofs
                      ^------- ReconcileLoop <-- MCReconcileLoop  ReconcileLoopProofs
    InboundDependencies <-- InboundDraft <-- MCInboundDraft    InboundDraftProofs
    ElementContent      <-- ContentDraft <-- MCContentDraft    ContentDraftProofs
    TemplateString                       <-- MCTemplateString  TemplateStringProofs
    OutboundDependencies <-- Catalog <-- CatalogDraft <-- MCCatalogDependencies
                                         CatalogDraft <-- CatalogCopies <-- MCCatalogCopies
                                                                        <-- CatalogProofs
    CatalogWriter                        <-- MCCatalogWriter    (also in CatalogProofs)
    ServerContract      <-- ServerLifecycle <-- MCServerLifecycle  ServerLifecycleProofs

`A <-- B` says that B extends A (ServerLifecycle instantiates ServerContract,
Catalog instantiates RuleOrder as `Order` and InboundDependencies as `Inbound`).
`RuleLists` has the loops over lists that the rule order and the catalog share; what
they compute is proved once, in `EditLemmas`, which the modules with proofs about
lists extend.
RuleOrder, InboundDependencies, OutboundDependencies, Catalog and ElementContent
have the pure functions, RouterOrder, InboundDraft, CatalogDraft and ContentDraft
the snapshot as state and the calls as actions, the MC modules the small instances, the proof
modules the theorems. A function that may refuse its input is
a pair: `CanMove` is the condition under which no issue is returned, `MoveRule`
the candidate. Operators named `X_Something` with a comment "Mutant" are not
part of the model; they are plausible mistakes in `X` which the runs must detect.

**RuleOrder, RouterOrder.** An element is its UUID; malformed and repeated UUIDs
are there, positions in diagnostics are not. `InsertLocal`, `Move`, `Reset` and
`Reconcile` are the four functions followed by the caller's store. The caller
may also add an exclusion (stored only if the snapshot still validates) or drop
one. A template update does not touch exclusions, so one may come to name a
rule that is gone ("dangling"). Not in the module: deletion of a local rule,
which has no function in `rule_order.go`.

**ReconcileLoop.** The same `ReconcileRuleOrder` once more, one action per loop
iteration, because the question there is whether `slices.Insert` can panic in
the middle. `LoopsMatchFold` ties it to the one-expression form in `RuleOrder`.

**ElementContent, ContentDraft.** A template text is the set of variables it
refers to plus whether the substitution accepts it; a value is its JSON type, or
blank, null, or not JSON. That a text can be known by the variables it refers to
rests on `TemplateString`: discovery and substitution agree on them. The template's editor
changes texts and definitions and removes or re-adds the element; the
administrator enters values, transitions the override, excludes. `entered` is a
history variable: the values entered since the last reset.

**TemplateString.** `parseTemplateString`, one action per turn of its loop, over
strings of five classes of characters, and the test `collectNames` applies to
the same strings (`Declares`). The characters `$`, `{`, `}` are constants; a
multi-byte character never contains them, so bytes and runes make no difference.

**InboundDependencies, InboundDraft.** Content is reduced to tags. Everything
except deactivation and removal of an inbound is free, also edits that leave the
draft broken or not ready; these two go through `GuardInboundChange`, which is
shown the candidate with at most one rule edit of the same change in it. `Apply` is
what the caller then does to its records. The draft's `excluded` may dangle
after a template change, as above; overrides are part of "the content that is
selected".

**OutboundDependencies, Catalog, CatalogDraft.** `OutboundDependencies` is the
analysis over what was selected. A prefix is known by the tags that start with
it. `Catalog` is `AssembleXrayCatalog` in its order: metadata, contents, the two
analyses with their list of findings, the markers, the files. `Assembles` is the
condition under which it returns a catalog, `Catalog` what it returns; `Ready` and
`Blocking` are the two places where the code decides whether dependencies are
met. `CatalogDraft` is the draft an administrator edits: contents, markers, rules
(through the operations of `Order`), marks, exclusions, local elements, the
template's elements and the optional sections are free, an inbound is disabled
or removed through `Inbound!CanChange` only.

**CatalogCopies.** A draft whose contents may also come out of the files of its
own catalog. `Copy` takes the value of an active element and stores it for the
same or another element of that section, `Published` is what the files hold of
an element (the rules are put into the object of the routing settings), `Edit` is
any action of `CatalogDraft`. `origin` is a history variable: whose value a content
once was, forgotten when its marker is edited by hand and not kept in sections
without markers. No function of the repository copies; the caller does, with JSON
that `AssembleXrayCatalog` returned. That markers survive this and what
`ProjectElementIdentity` makes of them is the subject.

**CatalogWriter.** `writeCatalog` as several processes, one action per system call:
list the directory, create a file, write, close, and on a failure remove the
files created so far, by path. Between any two calls the other runs go on, calls
fail, runs are killed and strangers create files, unless the behaviour is `calm`.

**ServerLifecycle.** `pc` is the main goroutine, `loop` the accept-loop goroutine
with its buffered result, `conn` the connection states of `net/http`. The library is
modelled as `Serve` uses it: `Shutdown` sets its flag, closes the listener and
polls; `Close` closes every tracked connection. A connection between `Accept`
and the moment it is tracked (`handoff`) is in neither's books, but `Shutdown`
waits for the accept loop before it polls (`Accepting`, net/http's listener
group), so it cannot get past it. Time is counted in ticks of one poll interval.

**ServerContract.** The abstract specification of one run: starting, serving,
draining, overdue, ended; which requests are being served, which of them are owed
an answer. It knows no goroutine, listener, connection or clock. `ServerLifecycle`
instantiates it with `Phase`, `exit`, `Active` and `owed \cap Active`, and
`KeepsContract` says that every step is a step of the contract or none.

## 3. Runs

| Run | Question | Bounds and why they are enough |
|---|---|---|
| `router_order` | Does any sequence of calls keep the order complete, and are rules reordered only on request? | 4 UUIDs and a malformed one, templates of up to 3 rules in every order, document order equal or reversed, every kind of malformed offer; 2 local rules, 2 exclusions. Two rules can collide, survive, be new or be dropped in one update while two local rules stand between them. UUIDs are symmetric. |
| `reconcile_loop` | Do the two loops insert in bounds and in the right place? | every old order of up to 4 and every next template of up to 4 rules over 5 UUIDs, so one update may drop everything, collide with a local rule and insert at the far end |
| `server_lifecycle` | Safety under every interleaving | 2 interchangeable clients (one being served, one that connects as the shutdown begins), both timeouts 2 ticks: equal, as 5 s and 5 s are in the code |
| `server_live` | Does a signal, or a failed accept loop, end the process? | as above, with fairness and without symmetry |
| `server_idle_stop` | Does an idle stop exit with 0, as the specification says? | violated, see 6 |
| `inbound_draft` | Is what the guard promises true of the draft it leads to? | a shared-or-absent and a local rule, one inbound that may be shared, local or both by collision, one local inbound, one tag. A tag taken twice, a rule without provider, dangling marks and both actions occur; tags are handled one by one in the code, so a second one adds no case |
| `inbound_unused` | May an inbound nobody refers to be removed, as the specification says? | violated, see 6 |
| `template_string` | Is every string read as the contract says, and alike by both readers? | every string of up to 5 characters of the five classes and every string of up to 4 pieces out of 7 (one is a complete reference), which reaches several references, escapes of several `$` before one, and text behind one |
| `catalog_dependencies` | Is the catalog refused exactly for what is not ready, and closed if it is not? | a shared and a local rule, one inbound, two outbounds, one routing element; rules name an inbound, an outbound, a balancer or several; balancers with one, two or no prefixes, a fallback that is there, missing or unreadable, and twice the same tag; an outbound may take the other's tag, and the template may lose one. One prefix matches up to two outbounds, so a match may lose one or all. |
| `catalog_copies` | May values of the files be stored again, and do they stay with their element? | a shared and a local rule, which may be active together, an element of the template and one of the router, which may not, in a further section that carries no markers and that the caller may leave out, and routing settings: a copy goes to the same element, to an active one and to one that is activated later, and the marker of the local rule is also edited by hand. Two elements per section are enough, as each is checked on its own. |
| `catalog_writer` | Do runs in one directory keep their files apart? Does one succeed? | 3 runs, 3 files and a name that is no catalog file: a run may fail at the first, middle or last file while two others are anywhere |
| `content_draft` | Are personal values kept and only filled ones assembled? | one element (elements do not influence each other), 2 variables, texts that refer to none, one, both, and one that cannot be substituted; a blank, a string, a number and a non-JSON value |

The properties of `router_order`: `OrderComplete` (nothing lost, doubled,
invented), `AssemblesUnlessDangling` (a dangling exclusion is the *only* reason
for a refusal), `SelectionIsVisible` (order and selection name the same rules),
and about steps `SwapsOnlyByIntent`, `ResetRestoresTemplate`,
`PersonalUntilReset`.

`reconcile_loop`: `InsertInBounds` (no panic), `PlacedAtTemplateIndex`,
`SurvivorsKeepOrder`, `RefusedIffCollision`, `LoopsMatchFold`.

`server_lifecycle`: `NothingLeftOpen`, `ExitCodeTruthful`, `OwedCutOnlyAtDeadline`,
`KeepsContract` (refinement).

`inbound_draft`: `GuardTellsOutcome` (what the guard says of the candidate is
true of the resulting draft), `SameProvider` (no surviving reference is
redirected), `DisableIsReversible`.

`catalog_dependencies`: `BlockedIffNotReady` (the list of findings and `Ready`
decide alike), `CatalogIsClosed` (read without the draft, what a rule names is
in the files, once), `HidingRuleOnlyDropsIt`, `GuardedChangeKeepsCatalog` (the
inbound guard, which sees two sections, is enough for the whole catalog),
`FindingsForetellRemoval` (outbounds have no guard; the findings of the last
catalog tell which removal blocks the next).

`catalog_copies`: `CopiesStayOut` (what was copied out of the files never comes back
into them under another UUID, however long it lay hidden) and
`ReturnChangesNothing` (stored for its own element, a value leaves the catalog as
it is; only the routing settings are refused, because the rules are in them), and
`LocalFillsEmptySection` (a section of one value that has come to be empty takes
the router's element).

`catalog_writer`: `SuccessIsWhole` (code 0 means every file is there, complete and
of this run), `FailureLeavesNothing`, `TakenUntilRollback` (nobody's file is
replaced or removed but by the run that created it), `SomeRunSucceeds`. Nobody
but a run deletes files in this model: with an outside program that does, a
rollback, which goes by path, could remove another run's file.

`content_draft`: `ValuesRetained`, `RoundTripRestores`, `ReplacementIsImmune`,
`OnlyFilledValuesAssembled`, `ReferencesDeclared`.

`template_string`: `OutcomeAsSpecified` states the contract without an order of
scanning, by the parity of a run of `$`; `DiscoveryAgrees` relates the two readers.

A type invariant is checked in `router_order`; those of all state machines are
proved (section 4).

Deadlock is checked except in `reconcile_loop` and `template_string` (a call ends),
`catalog_writer` (the runs of the command end) and the server runs (a process
ends).

### Fairness

Safety runs use no fairness. `server_live` assumes weak fairness of the main
goroutine and of the accept loop once its listener is closed (the Go scheduler
runs what can run, and `Accept` on a closed listener returns), of
`ReadHeaderTimeout` and of the clock. Handlers, clients and signals are not
fair: a handler may never return, a client may stay silent for ever.

`catalog_writer` assumes weak fairness of each run of the command: the system
schedules every process. `SomeRunSucceeds` uses it, and speaks of calm behaviours
and an empty directory only; its three safety properties need no fairness.

## 4. Proofs

TLAPS checks these for every value of the constants.

* **EditLemmas**: what `InsertAt`, `RemoveAt` and `Append` do to length, positions,
  members, injectivity and relative order; that two lists without repetitions
  with the same members in the same order are equal (`SameOrderSameList`); and
  what the loops of `RuleLists` compute. Those are folds, and the library's
  induction theorems cannot be used here, but the well-founded ordering of finite
  sets by inclusion is a theorem without an operator parameter: from it follow the least number of
  a set of numbers (`LeastNumber`) and from that an induction over the turns of
  a loop, for a *set* of turns (`TurnInduction`). With it `RetainTurns` and
  `PlaceTurns` turn a fold into the list of its intermediate results, and
  `RetainMembers`, `PlaceMembers`, `SlotRefill` and `RetainOrder` say what comes out.
* **RouterOrderProofs**. The inductive invariant is `Consistent`: shared and
  local lists are duplicate-free and disjoint, the template order is a
  permutation of the shared list, the stored order is complete, exclusions are
  duplicate-free and not about local rules. `OrderComplete` alone is not inductive:
  a reset fills slots from the template order, so it needs that order complete,
  and a collision must be refused, so it needs the lists disjoint. It does not
  need the exclusions to have a source, which is why dangling ones are
  harmless. The central lemmas say what a refill and a fold of insertions
  contain. Theorems: `TypeCorrect`, `OrderStaysComplete`,
  `LocalRulesStayVisible`, `OnlyDanglingBlocks`, `DanglingFreezes`,
  `OnlyResetFollows`, `VisibleRulesAreSelected` (`SelectionIsVisible`; by
  `RetainMembers`), `ResetIsTemplateOrder` (`ResetRestoresTemplate`: what a refill
  puts between the local rules has the members and the order of the template, so it
  is the template) and `OrderFollowsIntent` (`SwapsOnlyByIntent`: each call
  but a reset keeps `Precedes` for all rules it is not about, and no list without
  repetitions has two rules both ways round).
* **ReconcileLoopProofs**. The loop invariant says what the list holds when the
  second loop is at entry `pos`: the kept rules and every earlier entry of the
  next template. So it has at least `pos - 1` entries, which is why the index
  exists, and each new rule stands at its own. Theorems: `LoopTypeCorrect`,
  `InsertionsInBounds`, `NewRulesPlaced`, `SurvivorsOrdered`,
  `OnlyCollisionsRefused`, and `LoopsAreTheFold`: after each turn the list is the
  intermediate result of the fold in `RuleOrder`.
* **InboundDraftProofs**. The type invariant suffices: the properties follow from
  what `CanChange` says about the candidate and how `Apply` changes it, by
  comparing providers and active rules of the two drafts. Theorems:
  `DraftTypeCorrect`, `GuardIsTruthful`, `ReferencesKeepTheirInbound`,
  `GuardIgnoresOwnMark`, `DeactivationCanBeTakenBack`.
* **ContentDraftProofs**. The inductive invariant `IInv` joins types, retained
  values, declared references, and that an override has a content in replacement
  mode and none otherwise; the last part is what `RoundTripRestores` needs, as
  a return to variables drops the content. Theorems: `ContentTypeCorrect`,
  `ValuesAreRetained`, `StoredReferencesDeclared`, `ReplacementUnaffected`,
  `RoundTripIsNeutral`, `AssembledValuesFilled`, `UndeclaredReferenceBlocks`.
* **TemplateStringProofs**. A whole reference is found in the first turn of the
  loop or never: as long as the string declares a name and no whole reference
  was found, the scan is still at its start (`ScanInv`). The contract speaks of
  the parity of a run of `$`, the scanner of the next two characters; `ReadInv` joins
  them: the scanner always stands where a token begins, every reference behind it
  is well-formed, and as long as there is none the text is what is behind it
  without the second halves of escapes. That an escape is followed by a token
  (`NextToken`) comes from how runs grow (`RunsOfDollars`). Theorems:
  `ScannerTypeCorrect`, `ReadingsAgree`, `OutcomeIsTheContract`.
* **ServerLifecycleProofs**. Three invariants, one per concern. `LoopInv`: at most
  one connection is between `Accept` and the server's books, none once the loop
  returned, and the main goroutine returns after the loop. `ExitInv`: a loop
  that ended without a shutdown has failed, and a shutdown has a signal.
  `OwedInv`: an owed request runs or its connection is closed, and it is closed
  when `Serve` leaves the shutdown. Theorems: `LifecycleTypeCorrect`,
  `EverythingIsClosed`, `ExitCodeIsTruthful`, `OwedRequestsAreFinished`,
  `CutsWaitForDeadline`, and `ProcessKeepsContract`: each action maps to the step
  of `ServerContract` it stands for, the polls, races and ticks to none.

* **CatalogProofs** about drafts of any size. `DraftTypeCorrect` is the type
  invariant, and it suffices: what a catalog is follows from the snapshot it is made of.
  `RefusalsAreForReadiness`: the issues, which are told from the statuses in
  the list of references, and `Ready`, which the analysis computes on its way,
  agree. The argument is about one balancer: an accepted analysis has at most
  one balancer per tag and no empty selector, so a rule is usable, told from the
  list, exactly if its balancer matches an outbound or falls back on one
  (`UsableIff`), and its references block exactly if it is not ready
  (`BalancerBlocks`). `CatalogsAreClosed` takes that to the files: what is ready has
  exactly one active element, and an active element is one value in its section
  (`CarriedOnce`). The four theorems about
  steps compare the catalogs of two drafts that differ in one element:
  `HiddenRulesDropOut` (the rules are the old ones in the old order without the
  hidden one, by `PartIsRetained`, and everything about the others is said of
  them alone), `GuardIsEnough` (what `CanChange` says of rules and inbounds makes
  each of the four parts of `Assembles` true again), `RemovalIsForetold` (an
  outbound that goes takes exactly the references with it whose only provider
  it is, or the only match of a balancer without a fallback),
  `EmptySectionsCanBeFilled`.
* **CatalogProofs** about copies. `CopiesAreKeptOut` needs more than what is active:
  `CopyInv` says of every element, hidden ones too, that a copied content still
  carries the marker of its origin (`CopiedDraft`: the files hold no other
  marker). `ReturnsAreIdempotent` compares two drafts that differ in one marker:
  markers decide nothing about metadata, contents and analyses (`SameActive`,
  `SameAnalysis`), and the marker that came back is the one `Projects` accepts.
* **CatalogProofs** about the runs that write. The inductive invariant `WriterInv`:
  what a run has created is a beginning of `Files` without repetition and is its own,
  complete but for the last; a run that has created nothing any more owns only
  what it left over; and a run that got past the listing found no files of before.
  Theorems: `WriterTypeCorrect`, `SuccessStaysWhole`, `FailureStaysClean`,
  `NamesStayTaken`, for any number of runs and files, whatever the interleaving,
  failures, kills and strangers.

Five properties of the drafts and of the server are proved and in no run:
`ExclusionNeverHidesLocal`, `FrozenWhileDangling` (a trap for callers: after a
template update removed an excluded rule, every order operation is refused
until that exclusion is dropped), `MarksDoNotMatter`, `NewReferenceBlocks` and
`OwedRequestsFinish` (code 0 means no request that was running was cut, which
`KeepsContract` contains).

The assumptions are the named `ASSUME`s of the modules: valid UUIDs are strings,
nil is not a list, "no record" is not a record, rules and inbounds have different
UUIDs, and the like. TLC evaluates each of them in the runs.

Only model-checked: the liveness properties `SignalEndsProcess`,
`LoopFailureEndsProcess` (`server_live`) and `SomeRunSucceeds` (`catalog_writer`),
which need fairness and ENABLED and are beyond the prover. Every invariant and
every other property about steps that a passing run checks is a theorem as well.

## 5. Not modelled

* Diagnostic codes, locations and their order, and which of several issues is
  the first; UUID syntax.
* JSON parsing, encoding and the walk over a JSON tree: functions of one text
  without a state, whose subject is the text, covered by round-trip tests.
* In selection: the contents of local elements, records that repeat a source or
  name another template (`duplicate_override`, `source_mismatch`).
* In the catalog: the order of inbounds, outbounds and pools (only rules have
  one that matters), provenance, the layout of the files, a UUID in two
  sections, an extra section passed twice, balancers that repeat a record
  literally, and the choice between inherited and own content, which
  `ContentDraft` has and of which `CatalogDraft` sees the result.
* In the demo: its fixed input, and outside programs that delete files.
* Argument parsing (one choice of three outcomes) and the `/healthz` answer,
  which depends on nothing but its request.
* The lab, scripts and CI: shell scripts outside of the program.
* Storage, publication, router agent and UI: not in the code yet.

## 6. Disagreements with the documents

* `server_idle_stop`. A silent connection opened just before a signal is not
  idle for `Shutdown` until it is 5 s old; `ReadHeaderTimeout` ends it at 5 s and
  the drain deadline is 5 s as well, with polls up to half a second apart. The
  deadline can win, and the server, which served no request, exits with 1;
  `openspec/specs/server-lifecycle/spec.md:71` says 0.
* `inbound_unused`. The guard counts the target as a provider even when it is
  disabled. If another inbound has taken its tag since, the guard answers
  `ambiguous_inbound_tag`, and an inbound to which nobody refers cannot be
  removed; `openspec/specs/configuration-routing-dependencies/spec.md:71` says
  the action shall be allowed. (For a deactivation this is what makes
  `DisableIsReversible` true.)

## 7. Plan

What is left is proofs about parts no run asks about: that `Escape`, `Reference` and
`Literal` always come to an end (a variant, the safety half of termination), the same for the
loops of `ReconcileRuleOrder` and the runs that write, and the step from
`RouterOrder` to the rules of `CatalogDraft`, whose rule edits are the same
functions in another draft.
