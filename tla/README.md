# A verification project for intersight-mcp

intersight-mcp is an MCP server: a language model sends it JavaScript, the
server runs that in an embedded QuickJS sandbox and lets it call the HTTP API of
Intersight or of another Cisco product.  The modules here model, check and prove
the parts of it that are hard to test: what several goroutines do to shared
state, what happens when requests fail, are slow or are cancelled, and whether
the validation rules of some four hundred methods fit together.

## Inventory

Each part with the state it keeps, its operations and what makes it correct.
`PROJECT.json` ("components") says for each one whether it is modelled.

| Part | State | Operations | Hard behaviour | What makes it correct |
|---|---|---|---|---|
| OAuth manager (`intersight/oauth.go`) | token, failure list, backoff, degraded mode, refresh flight, `RWMutex` | `Token`, `refreshToken`, `refreshLoop`, `recordRefresh*` | callers and the loop race for one flight; a backoff checked before the flight; a lock taken twice | no call gets an older token; a fallback token was live; degraded mode and backoff follow the failures; calls return |
| Bootstrap client (`implementations/intersight/api_caller.go`) | client, cached error, backoff, bootstrap flight | `ensureClient`, `recordBootstrapFailure` | callers leave while the flight runs; the leader's context ends | one manager; retries spaced; no flight hands out an error that ran out before it looked |
| HTTP client (`intersight/client.go`) | none | `Do`, `DoJSON`, `decodeBody` | size limit, error mapping | every answer has one class |
| Nexus Dashboard, SD-WAN, Catalyst Center clients | session token; cookie and XSRF token | login, `Do` with one retry, reset | a reset of a session another call renewed | the retry does not use the rejected session; the pair belongs to one login |
| Meraki client | none shared | retry of 429, pagination | deadlines while waiting | attempts and pages bounded |
| Sandbox bridge (`sandbox/validator.go`, `server_profile_verification.go`) | call counter, presentation hint | `callSDK`, `compileOperation`, preflight, write, verification | a write whose verification fails; a limit met half way | query mode never writes; a rejected preflight writes nothing; at most `maxAPICalls` requests |
| Sandbox executors (`sandbox/qjs_executor.go`, `search_executor.go`) | log buffer, runtime | `Execute` | deadlines, panics of the engine | one outcome, logs kept, runtime closed |
| Schema and rule validation (`sandbox/schema_validation.go`, `sdk_rules.go`) | none | normalisation, validators | recursive schemas, paths through arrays, rules with conditions | a report of no issues means that every rule holds; following the reports ends in a valid request |
| Rule catalog (`internal/contracts/rules.go`, `implementations/intersight/rules.go`) | none; the generated artifact | `BuildRuleCatalog`, `ValidateRuleCatalogAgainstArtifacts` | templates of the same method, aliases, rules the schema already states | no template is lost; the rules of create, post and update agree |
| Tool handlers (`tools/`) | limiter slots | handler, compaction | slots on every way out | never more than the limit run; slots are returned |
| MCP server and startup (`server/mcp.go`, `internal/bootstrap`) | execution counter, runtime | `Listen`, `Close` | end of input with the last bytes | the last request is served; executors closed |
| Contracts, registry, configuration, generator | none or filled at start | parsing, artifact building | sequential | functions of their input |

How they interact: the stdio server gives a tool call to a worker; it passes the
limiter and runs in an executor, and its JavaScript calls the bridge; the bridge
compiles the call (form, schema, rules) and, if that does not stop it, calls the
provider's `APICaller`.  For Intersight that is the bootstrap client, which makes an
OAuth manager on first use and hands every request to an HTTP client; the HTTP
client asks the manager for a `Token`.  The manager's `refreshLoop` runs until the
server stops.

## The modules

An abstract module says what a component promises; the detailed module
translates the code; an `MC` module adds the symmetry set or the constants TLC
needs; a `Proofs` module holds the theorems.

| Code | Promise | Detailed module | Instance | Proofs |
|---|---|---|---|---|
| `src/intersight/oauth.go` | `TokenSource` | `OAuthManager` | `MCOAuthManager` | `OAuthManagerProofs` |
| `src/implementations/intersight/api_caller.go` | `LazyClient` | `BootstrapClient` | `MCBootstrapClient` | `BootstrapClientProofs` |
| `src/implementations/nexus-dashboard/api_caller.go` | `SessionUse` | `NexusSession` | `MCNexusSession` | `NexusSessionProofs` |
| `src/implementations/catalyst-sdwan/api_caller.go` | `SessionUse` | `SdwanSession` | `MCSdwanSession` | `SdwanSessionProofs` |
| `src/sandbox/validator.go`, `server_profile_verification.go`, `qjs_executor.go` | `ToolCall` | `SdkBridge` | `MCSdkBridge` | `SdkBridgeProofs` |
| `src/server/mcp.go`, `tools/common.go`, `sandbox/qjs_executor.go`, `search_executor.go`, `api_helper.go`, `internal/bootstrap` | `ExecutionPool` | `ToolServer` | `MCToolServer` | `ToolServerProofs` |
| `src/sandbox/validator.go` (`compileOperation`), `schema_validation.go`, `sdk_rules.go`, `internal/contracts/rules.go`, `implementations/intersight/rules.go` | | `RequestDraft` on `RuleResolution`, `BodyRules`, `RuleForms`, `SchemaForms`, `JsonValues`; its parameters in `RuleCatalog` and `BodySchema`, its data in `RuleTable`, `IntersightCatalog` | `MCRequestDraft` | `RequestDraftProofs` |

`Backoff` has the closed form of the backoff both retrying clients compute by
doubling, and `InductionTheorems` what the proofs need of it.

### OAuthManager

The variables are the fields of `Manager` (`token`, `refreshFailures`,
`refreshBackoff`, `nextRefreshAttempt`, `degraded`, `degradedUntil`, `proactive`)
and, per goroutine, where it is and the locals it holds (`pc`, `frame`).
`flight` is the entry of the singleflight group.  A step is a critical section
of `m.mu`, one reading of the clock, or one call into the group.

`Token` is `Begin`, `CheckFresh`, `CheckDue`, `CheckExpired`, then, through
`ensureAvailable` (`EnsureAvailable`, `Cooldown`), `Reread` and `Recheck`.
`refreshToken` is `BackedOff` or `BackoffPassed`, then `StartFlight` or
`JoinFlight`; the flight itself is `FetchSucceeds` or `FetchFails`, then
`RecordRefreshSuccess` or `RecordRefreshFailure`, then `Deliver`, which hands
the answer to all who wait.  `refreshLoop` is `MeasureDegraded`, `MeasureHolds`,
`MeasureAgain` and `Wake`.

The read/write lock is there because it matters: `nextRefreshDelay` takes the
read lock twice, so its section is two steps, and a flight that wants the write
lock in between first waits (`WriterWaits`).  Every other section takes the lock
once and waits for nothing while it has it.

A lifetime is a `time.Duration` that may wrap around (`Lifetime`, `HalfRange`).
`fetchToken` does not bound `expires_in`, so a large value gives a token that is
expired when it arrives.  A caller's context that ends is one of the ways a
fetch fails.  The branches for an empty token (oauth.go:135-145, 157-159) and a
zero `refreshAt` (245) cannot be reached, because the manager is published only
with a token.

### BootstrapClient

`client`, `lastErr`, `bootstrapBackoff`, `nextBootstrapAttempt` and the flight
are the fields of `RetryingBootstrapClient`; a call looks at the cache (`LookHit`,
`LookMiss`), joins the flight (`Join`) and leaves with its answer (`Receive`) or
when its own context ends (`GiveUp`).  The flight looks again (`FlightHit`),
authenticates, and stores the client or records the failure.  Its end and its
removal from the group are two steps: a call that joins in between still gets the
error it holds out, also when the backoff is over by then, and also when the flight
only found that error in the cache.  `began` is history: the cached error and the
client when the call began, and the error a flight at its end held out then
(`leaving`), which `Deliver` forgets for every call that did not join it
(`FlightLeaves`).  `ErrorIsCurrent` lets an error older than the call come from the
call's own look inside the backoff or from just that flight, and from no other.

### NexusSession and SdwanSession

Only the password modes are modelled: the token and API-key modes keep no state
and try once.  The product is external.  It issues numbered sessions, ends them
at any time, and answers a request with a live session by carrying it out or by
403 (`forbidden`), and one with a dead session by 401.  A login's cookie and its
XSRF token carry the number of the session, so that "the pair belongs to one
login" can be stated.  `SdwanSession` starts with or without configured cookie,
XSRF token and credentials.  A user name of white space is the same as none.

### SdkBridge

An execution (`run[e]`) makes its SDK calls one after the other, because the host
function returns before the script goes on; several executions share the managed
system (`store`).  `CallOffline`, `CallRead`, `CallWrite`, `CallDelete` and
`CallRejected` are what `callSDK` may begin, `Preflight` is where
`preflightMutation` goes on, `ReadTarget` and `ReadPolicy` its requests, `Write`
and `Verify` the rest.  Every request first passes the counter (`MaySend`), else
`OverLimit`.  A request may fail by itself (`Failures`) or because the context
ended; a write whose answer is lost stays in `late` and may be carried out at any
time, once (`CarryOut`), also when the tool call has answered.

An error goes back to the script as a kind and a message.  `Rejection` keeps the
kind only for the read and the write themselves, and only if `rejectionValue` has
one for the class (`Kinds`); of an answer beyond the size limit ("output"), of an
error inside the client ("internal"), and of whatever fails in preflight and
verification only the message is left.  An answer may also be too large after the
write was carried out (`WriteTooLarge`).  What a call threw carries its history:
the class of its cause, and whether that was `direct`, met by the read or the write
itself.  The script lets it through (`LetThrough`) or throws a new error with its
message (`Wrap`); `ClassOf` is the class `normalizeThrown` finds.  `ClassSurvives`
compares that with the cause: the limit keeps its class always, a direct failure
with a kind if it is let through, a direct timeout also if it is wrapped, and the
others keep it or become validation errors.  "own" stands for what becomes of
a value the script returns or an error of its own.

### ToolServer

`Read` and `ReadEnd` are `cancelOnEOFReader`, `Enqueue` and `Take` what the stdio
server of mcp-go does with what was read (external: as much of it as the code
relies on), `Signal`, `StopReading` and `Return` the end of `Listen`.  A call then
is `Invalid`, `Refuse` or `Acquire` in the handler, `SetupFails`, `SetupPanics`,
`CodeTooLarge` or `RunScript` in `Execute`, and ends by `Ends`, `Throws` or
`Breaks`.  Every way out of an execution goes through `Answer`, which gives the slot
back, as the deferred `Release` does, also in a panic.  `slots` is the length of
the limiter's channel; which calls execute is read off their places (`Executing`).
The context of a call is open, past its deadline or cancelled; QuickJS, closed
under a running script, may then end it in any way the executor tells apart, and
`Normalized` is the precedence of `normalizeThrown`.  `log` is the buffer behind
the console of the runtime, in which the warnings of mutate calls end (`Warn`); the
script's own console is another.

### RequestDraft and the rules

A caller drafts the body of a write, asks `validate` (`Validate`), repairs one of
the issues reported (`Repair`), and so on; it may send the request whatever the
report says (`Send`: mutate mode warns of the issues of a body and refuses only
those of the form of a call), and may later take the stored object and send it
back to post or update (`Reopen`).  `Tick` moves the clock past a timestamp of the
body.  `Compile` is `compileOperation`: the form of the call in the order of its
checks, the first that fails being the report, then normalisation, schema and
rules, then the Moids of path and body.

`BodySchema` is `schema_validation.go` and `BodyRules` is `sdk_rules.go`, both over
the tagged JSON values of `JsonValues`: `Normalize`, `ValueIssues`, `FieldValues`
and `Broken` are its functions, and an issue is a record of the paths it is about,
its type and what was expected.  `RuleForms` has the constructors of rules,
`RuleResolution` which methods a template means (`Resolve`), and `RuleCatalog` what
the generator and the loader make of that: `BuildRuleCatalog` lets the last template
of a method replace the others and leaves out what the schema requires already, and
`ArtifactAccepted` is the check at start-up, an assumption that TLC evaluates
(`ArtifactAssumption`).

`RequestDraft` takes the catalog, the normaliser and the validator of bodies as
parameters (`Catalog`, `Normalization`, `SchemaIssues`), so that what it says of the
modes, the clock and the rules can be proved whatever they are; `MCRequestDraft`
gives it those of `RuleCatalog` and `BodySchema`.  What is asked of the catalog is
`CatalogAssumption`: its methods take bodies, its rules are of the known kinds, and
no rule of the table is missing but those in `Lost`.  TLC evaluates it for the
table of the provider.
`sdk` is what `loadSDKRuntime` keeps of the artifacts, as far as the callers of one
resource use it; it never changes.  `RuleTable` is the table of the Intersight provider, all of it, in the order of the code.  A
string is a word of a small vocabulary, which says of each word whether it is blank,
how long it is and which patterns it matches; a timestamp is one of two moments.

The spec with the body schemas is generated and not in the repository.
`IntersightCatalog` takes the weakest schemas the table fits: each field a rule
names is there with the type the rule uses it at, objects have their two
discriminators, elements of arrays have several possible types.  Which methods
there are is read from the generated catalog (`generated/sdk_catalog.json`).
`generated/rules.json` omits no required rule, so the schemas require nothing beyond
the discriminators.

## Runs

| Run | What it shows | Bounds |
|---|---|---|
| `oauth_race` | tokens never go backwards, a token returned without a refresh was live when last looked at, a request inside a backoff was checked before the last failure, a token that is not due is requested only by a goroutine that looked before the last refresh; `TokenSource` is implemented | 2 callers, 1 call each, one wake-up of the loop, clock to 3, lifetimes 2 and 6 with `HalfRange` 4 |
| `oauth_degraded` | degraded mode, the pruned failure list and the backoff agree with the whole failure history; an error only once the token expired | 1 caller, 5 calls, clock to 7, window 3 |
| `oauth_live` | every call returns unless the manager locks up | 2 callers, clock to 1 |
| `oauth_lockup` (violation) | it does lock up | 1 caller, no failure at all |
| `oauth_shared` (violation) | two callers with one expired token may fetch two tokens | 2 callers, no loop |
| `bootstrap` | one manager, attempts spaced by the backoff, no error older than the call but inside its backoff or from a flight that held it out, every call returns; `LazyClient` is implemented | 2 callers, 2 calls each, clock to 3, backoff 1 then 2 |
| `nexus` | a refusal is reported only after two sessions, calls return; `SessionUse` is implemented | 2 callers, 2 calls each, 3 logins |
| `sdwan` | cookie and XSRF token of one login, a session is missing only if another call forgot it, calls return; `SessionUse` is implemented | 2 callers, 1 call each, 3 logins |
| `bridge` | the preflight holds but for its own race; which failures keep their class, and what becomes of the others; `ToolCall` is implemented | 2 executions, 1 call of 3 requests each, 1 profile, 2 policies, 2 platforms |
| `bridge_create` (violation) | a create with policies and no platform is rejected unsent | 1 execution |
| `tool_server` | slots are given back on every way out, the last requests are read before the end of the input cancels anything, an ended context is answered as such, warnings reach the answer, accepted calls are answered; `ExecutionPool` is implemented | 2 calls, 2 workers, 1 slot, log limit 1, 2 bytes written |
| `rules` | a report of no issues means the rules of the table hold, mutate sends what validate called valid, stored objects can be sent back, one alternative of a one-of rule is enough, repairs converge | all templates and their 374 methods; per method every pair of the parts the rules name, spoiled parts, careless arguments |

Why the bounds are enough. The lifetime 6 wraps around (to -2) and the lifetime 2 is
due and expires within the clock of `oauth_race`. In `oauth_degraded` the clock
passes more than two windows, and five calls are enough to trip the mode, to fail
again when the first failures have left the list while the flag stays, and to
recover by a success. In `bootstrap` the second failure reaches the cap of the
backoff, a third attempt comes after it, and an attempt can take longer than the
backoff. Three logins let both callers log in and one session be renewed. In
`bridge` three requests put the limit on each of target, policy, write and
verification; the two policies make the policy loop go round; the profile starts
without policies or with both (`AtStart`); with one call per execution the other
execution provides the changes in between. An ended context brings timeouts and
network failures at every request, but the answer is then that of the context; so
`Failures` has a class with a kind, the timeout, and one without, the answer that is
too large, for the requests that fail while it is open. In `tool_server` two calls
compete for one slot while the second worker is free to refuse one; with a log limit
of 1, writes of up to 2 bytes fill the buffer exactly, pass the limit in the middle
of a write, or find it full. In `rules` the methods are those of the provider. A
rule of the table relates at most two fields a caller sets independently (a
condition and what it asks for, two alternatives), so the pairs of parts meet each
rule kept and broken, and the repairs, which change the body step by step, reach the
larger bodies.

All runs set `CHECK_DEADLOCK FALSE`: with bounded calls, clock and logins the
system stops when the bounds are used up.

## Fairness

Safety runs have none.  For liveness, every step of a goroutine that has something
to do is weakly fair, since the Go scheduler runs every runnable goroutine.  The
answer of a fetch, of a login and of a request is fair because the HTTP client of
the server has a timeout (`src/internal/bootstrap/bootstrap.go:155-163`), and a
bootstrap attempt runs under its own timeout (`api_caller.go:172`).  Nothing is
assumed of what need not happen: calls, the end of a caller's context, the wake-up
or the stop of the loop for its own sake, the passing of time, the expiry of
sessions.  In `tool_server` the workers, the handlers and the timer are fair, and a
script only once its context ended, because QuickJS is closed under it then
(`CloseOnContextDone`, qjs_executor.go:97); before that it may run for ever.  In
`rules` the caller is fair: the property is about callers that keep doing what the
reports ask.  `[]<>(phase # "draft")` there is weak fairness of `Validate` written
without `ENABLED`: `Validate` is the only action of a draft, is always enabled in
one, and leaves it.  In particular no lock is assumed to be granted in the end,
because the lock-up is the absence of that.

## What the violations say

1. `oauth_lockup`: `nextRefreshDelay` (oauth.go:220) calls, with the read lock
   held, `delayUntilRefreshAllowed` (oauth.go:232, 421), which takes it again.  A
   flight that asks for the write lock in between (372, 386) waits for the first
   lock and bars the second; from then on no `Token` call returns.
2. `oauth_shared`: `oauth_test.go:171` speaks of "one shared refresh" for callers
   that find the same expired token.  Token and backoff are looked at before the
   flight is joined (oauth.go:162, 269) and not again in it, so a caller that
   joins just after the flight ended fetches another token.  What holds instead is
   `ExtraRequestWasRaced` (run `oauth_race`): such a request comes only from a
   goroutine that looked before the token in service was put there, a caller at the
   token and `refreshLoop` at its delay, which may be a whole window old.
3. `bridge_create`: the catalog requires only a name and an organization for a
   new server profile.  One with a policy bucket and no `TargetPlatform` is
   rejected before it is sent: the last segment of the collection's path,
   "Profiles", is taken for the Moid of a profile to read.

## What is proved

All theorems hold for every value of the constants that meets the named
assumptions of the module: any number of callers, any durations (ordered as the
code's constants are), any bounds.

*OAuthManager.*  Types (`TypeCorrect`).  Tokens in order: the flight's token is
newer than the one in service until it is recorded, and what a call holds lies
between its floor and the token in service (`FlightOrder`, `CallOrder`); hence
`NoTokenRegressionHolds`, and with it `Refines`: the manager implements
`TokenSource`.  Times in order (`CallTimes`): `now` of a call is not in the future,
and the branch a call is on says how the token it saw compares with it; hence
`CachedTokenWasLiveHolds`, also for lifetimes that wrapped around, and
`ErrorOnlyOnceExpiredHolds`.  Failures in order (`RaceOrder`): they are numbered
without gaps and a goroutine past the backoff check has seen as many as it
remembers; hence `EarlyRequestWasRacedHolds`.  What a goroutine looked at was due
when it went on to refresh, time does not run back, and as long as that token is in
service it stays due (`DueWhenSeen`: `CallerDue` for a call, `LoopDue` for the loop,
whose delay ends no earlier than the token it was computed for is due, or a window
later); hence `ExtraRequestWasRacedHolds`.  The list that is pruned at every
failure holds all of the history that is within a window of its last entry
(`PrunedLog`), and times only grow, so a window of the history that holds three
failures was seen whole when it ended: `DegradedIffTrippedHolds`.  The backoff in
place is the closed form for the failures since the last success
(`BackoffFollowsFailuresHolds`, by `BackoffDoubles`).  And the lock-up of
`oauth_lockup` is final (`LockedUpForGoodHolds`): the loop holds the read lock and
asks for it again, the writer waits, and every section that could change the token
or let a call through needs the lock; this needs no more of the state than its types.
It is also the only one: in any other state each call under way has a step to take,
or the flight it waits for, or that bars its read, has one (`StuckOnlyByLockUpHolds`,
since a goroutine that waits has a flight to wait for, `WaitersHaveFlight`).  That is
the part of `CallsReturnOrLockUp` that is about single states.  These two are proved
and in no run, as are the type invariants of `NexusSession` and `SdwanSession`.

*BootstrapClient.*  Types; at most one manager, because a manager is made only by
a flight and the next flight looks for the client first (`ManagerCount`);
`LazyClient` is implemented (`ClientKnown`: a call that began after the client was
stored can find nothing else).  The backoff recorded is the one for the number of
attempts, whose flights have all failed (`AfterAttempts`), and the next attempt is
barred until that long after the last one started (`Spacing`): hence
`AttemptsSpacedHolds`.  For the errors (`ErrorAges`): they are numbered by attempts
and the one of a running attempt is known to nobody (`KnownErrors`); a call past its
look at the cache is older than the cached error or saw it run out (`MissedErrors`);
when a flight is about to deliver an error, whoever knew that error is still at its
look and will find it in the cache, or began while the flight held it out already
(`OutcomeErrors`), so a waiter only gets errors younger than its call, or that one
(`DeliveredErrors`): hence `ErrorIsCurrentHolds`.  And a call
never waits for nothing (`AnswerComesHolds`): its channel is filled or a flight is
under way, and one that is over has an outcome (`FlightsEnd`); it is the part of
`CallsReturn` that is about single states, and in no run.

*InductionTheorems.*  The library states induction over a predicate, which the
provers here cannot instantiate; over a set they can, from the well-foundedness of
`<` (`LeastElement`, `NatSetInduction`).  From it that the recursive function
`PowerOfTwo` exists (`PowerOfTwoDef`), and that doubling and capping the backoff
after k failures gives the one after k + 1 (`BackoffDoubles`).

*Sessions.*  The invariant of both modules: a session a call has just logged in
is known to nobody else until it is stored, and stored once, so a session that was
refused cannot come back (`Unshared`); the first attempt has tried nothing, the
second exactly one session that is not the one in hand (`TriedSoFar`).  From it
`RefusedTwiceHolds`, `PairOfOneLoginHolds`, `NothingOnlyIfForgottenHolds`, and that
both implement `SessionUse`.

*SdkBridge.*  The invariant says of every execution what its preflight has
established so far: a write keeps the platform its caller named, a create that
names a bucket names its platform (`Named`), the policies already read fit the
target (`RunOK`, `Checked`), the target that was read is still the platform of the
profile unless that was changed since the call began (`BasedOK`); and the same of
the writes without an answer, which are requests of different numbers (`LateOK`).
A platform changes only together with the count of its changes (`StoreGrows`), so
every step of another execution keeps this.  From it `WrittenAsCheckedHolds`,
`ClassSurvivesHolds`, the call limit as part of `TypeCorrect`, and `Refines`: the
bridge implements `ToolCall`.  For the classes the invariant keeps what the error in
the script's hands says of its cause (`Traceable`): the limit has its phrase, a
direct failure with a kind has that kind, and no error names a class that is not
its cause.  It holds for every set of `Failures` that leaves the limit to the bridge.

*ToolServer.*  The number of slots is the number of executing calls, the buffer and
the answer of each call fit what was written to it, and a cancellation at the end
of the input finds nothing unread.  Every way out of an execution is an `Answer`,
which takes one call out of `Executing` together with one slot.  From it
`SlotsMatchExecutionsHolds`, `ReadBeforeCanceledHolds`, `ScriptNotBlamedHolds`,
`WarningsReachHolds`, and `Refines`: limiter and handlers implement
`ExecutionPool`, whose "full" speaks of distinct calls on all seats and not of a
number.

*RequestDraft.*  The invariant (`ValidInv`) says what a report "valid" leaves true
until the call is sent: the form of the call is right, the Moids agree, and at some
moment that has been nothing was found in the body (`Settled`, `FoundNothing`); and
that the rules and schemas loaded are those of the method's resource (`Scope`).
Moving the clock keeps it, because only a rule about the future looks at the clock
(`OnlyFutureAges`).  From it `ValidIsSentHolds` and, with the assumption on the
catalog, `ValidMeetsTheTableHolds`; the step between them is that a call with rules
that passes the checks of its form has a body (`CallHasBody`).  The hypotheses are
named where they are used: `RefusesNonObjects`, that a body which is no object has a
schema issue (so with the code's validator for schemas of type "object"; TLC
evaluates it for one value of each kind, `ObjectsOnly`), and `FormsKept`, that the
caller keeps to the form of a call and the validator to that of an issue, marked as
one of the schema, for `TypeCorrect`.  With the latter, a report is sound
(`ReportInv`, `ReportsAreSoundHolds`): an issue that names a rule is that of a rule of
the method, and the body as it was normalised breaks it.  An issue of a one-of rule
tells which alternatives it is about (`OneOfIssue`), so it is not reported once one of
them is given (`ChoiceNotReported`), if normalisation keeps them
(`KeepsAlternatives`); and if no other demand of the table concerns an alternative
(`ChoicesApart`), `ChoiceIsFreeHolds`.  TLC evaluates both hypotheses: the second for
the whole table of the provider (`TableChoices`), the first for its normaliser on all
drafts of the run (`AlternativesKept`).  `AliasesAgree` says of the table that the
templates that state rules for an operation are the same under all its names.

Only model-checked: what `Normalize` and `ValueIssues` compute, because values,
schemas and paths are recursive data and recursive operators are beyond the provers;
`AcceptedStaysAccepted`, which is true of the table of the provider and not of any
table (`rules` checks that table whole): schemas, rules of the three verbs and repairs
are data there, and hypotheses that name what it needs of them would say little less
than it does; and everything
about liveness, since the provers do not do `ENABLED` and fairness (`CallsReturn`,
`CallsReturnOrLockUp`, `AcceptedIsAnswered`, `RepairsConverge`).

## What else the modelling found

None of this contradicts a line of the repository, so it is no violation run; a
reader of the code may want to know it.

- Two rules of the Intersight table never reach the catalog, because a later
  template of the same methods replaces the earlier one (contracts/rules.go:105):
  that the native VLAN is allowed (`implementations/intersight/rules.go:769-795`,
  lost to 2567-2604) and the organization of an Ethernet network policy (668-688,
  lost to 2524-2566).  `ValidMeetsTheTable` excepts these two by name (`LostRules`
  of `MCRequestDraft`) and holds of all others.
- Templates whose object and resource name no method of the catalog are dropped
  without an error (those of `NotInCatalog`).
- `AlarmRules[].Property` is asked of an alarm suppression also when it has no
  `AlarmRules`: a parent that is not found counts as a missing child
  (sdk_rules.go:386).  So the alternative `Entity` alone is always refused, and
  `ChoiceIsFree` excepts this resource.
- A create whose body names a Moid is refused, since the last segment of the
  collection is taken for the Moid of the path (dry_run.go:387-397).
- A schema that refers back to itself is validated one level deep
  (schema_validation.go:264).
- A response beyond the size limit (client.go:131) and an error inside the client
  have no kind in `rejectionValue` (api_helper.go:174), so a read or a write that
  fails by them is answered as a validation error; so is any failure of a preflight
  or a verification read but the call limit.
- A flight of the bootstrap that is at its end and not dropped yet still takes in
  callers.  Such a caller may be given an error whose backoff has run out since, by
  the attempt itself or by a flight that only found the error in the cache
  (api_caller.go:80); that is the exception `ErrorIsCurrent` makes.
- Mutate sends a body that fails the local validation, with a warning; the warning
  is lost when the script logs lines of its own (qjs_executor.go:127-142).

## What is not modelled

`PROJECT.json` lists every part with its reason.  Of the modelled ones these are
left out: request texts, error wording and decoding; the modes without state of the
session clients; in `SdkBridge` the compilation of a call beyond accepted or
rejected (it is `RequestDraft`'s), errors the script invents with a kind of its own
or keeps and throws later, the dependencies of deletions, the presentation hint (the
Intersight provider sets none), and the logs (they are `ToolServer`'s).  A GET of
".../Profiles/Profiles" is taken to be answered by an HTTP error.

Of the parts that are not, the Meraki client, the HTTP client and the small
provider clients are sequential code without shared state; the Catalyst Center
client keeps one token for ever and promises nothing about it; the generator, the
scaffold tool, configuration and registry run once, in one goroutine, before or
without the server; the search catalog and the building of the SDK catalog are
functions of generated files.  In `RequestDraft` the custom methods and the
values of queries and headers beyond well-formed or not are left out, and so is the
check for a missing required header (`compileHeaderArgs`, validator.go:583): which
header is required is in the embedded spec of Intersight, which is not in the
repository.  `Omitted` is there because the code has it, but no schema here requires
what a rule does, so the run does not exercise it, and no rule is missing in
`generated/rules.json` for that reason.

## Plan

Done, each against its abstract module: `OAuthManager` / `TokenSource`,
`BootstrapClient` / `LazyClient`, `NexusSession` and `SdwanSession` / `SessionUse`,
`SdkBridge` / `ToolCall`, `ToolServer` / `ExecutionPool`; and the validation of
requests, `RequestDraft` on the rule table.  Twelve questions are asked, one per
run, and every safety property of the passing runs is proved but the one that is about the
data of the rule table (`AcceptedStaysAccepted`).  What is left:

1. Composition: a tool call through the bridge, the bootstrap client and the
   manager to a token, on their abstract modules: `ToolCall` with the answers of
   `LazyClient`.
2. `CatalystCenterToken`, once the repository says what should happen when the
   token ends.
