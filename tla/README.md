# Warden exporter: specification and verification

TLA+ modules, TLC models and TLAPS proofs for the Prometheus exporter of the
Warden protocol (`src/`). Every scrape of `/metrics` makes the exporter query a
node and a number of web APIs, live, and turn the answers into metrics. The
program keeps no state between scrapes; what is hard about it is that each
answer describes a different moment, that any call can fail or hang, and that
the result must be complete, consistent and on time all the same.

## Inventory

| Component | State it keeps | Operations | Talks to |
| --- | --- | --- | --- |
| `main` (`cmd/warden-exporter`) | the registry of collectors, the HTTP server | register each enabled collector in a goroutine, serve `/metrics` and `/healthz` | every collector, through `Gather` |
| Validators collector (`validator_collector.go`) | one context and the rows of one scrape | `Collect` | `SigningValidators`, `BlockProposers`, `AverageBlockTime` |
| `grpc.SigningValidators` (`grpcValidator.go`) | pagination keys, two accumulated lists, one connection | two paginated queries, a join | node: x/slashing, x/staking |
| `grpc.BlockProposers`, `grpc.AverageBlockTime` | window, loop height, counts, one connection | latest height, blocks by height | node: block service |
| Wallet, Base and BNB collectors, `utils.go` | a status, one context, one connection (wallet) | one balance query an address, in sequence | node: x/bank; JSON-RPC endpoints |
| Mint collector | one context, one connection | three queries in sequence | node: x/mint, x/bank |
| Venice, OpenRouter, Composio collectors, `pkg/http` | a status, one context | one to three requests a key | web APIs |
| XAI, OpenAI, CoinGecko, Messari, Tavily collectors | a status, one context | one to four requests | web APIs |
| Configuration (`config.go`) | the configuration record | `LoadConfig`, `GRPCConn` | environment, file |
| Warden and auth queries (`grpcWarden.go`, `grpcAuth.go`) | a pagination key | counting queries no collector calls | node |
| Logger | the log level | formatting | - |

How they interact: `Gather` runs the `Collect` of every registered collector in
a goroutine of its own, for every request; two requests can run the same
collector at once. A collector shares nothing with another but the
configuration, which is read only. It sends samples on a channel and returns;
`Gather` waits for all of them, refuses the whole answer when two samples of
one family carry the same labels, and `http.Server` drops an answer that is
not written by its write timeout.

What is hard, and what makes each component correct:

* **Signing validators.** The two queries are paginated and each page is read at
  another height. Correct: no address twice, no contradictory row, nobody left
  out who was there all the time, no connection leaked by any early return.
* **Block scan.** Some 200 calls on a growing chain, single failures skipped.
  Correct: exact counts up to the skipped heights, a defined average.
* **Validators collector.** Three calls under one deadline. Correct: it ends, it
  always asks for the average, and truncated counts do not pass for whole ones.
* **Balance collectors.** Addresses in sequence under one deadline, an error
  status that lasts for one address (Base, BNB) or for the rest of the list
  (wallet). Correct: one sample an address, a success is a real value, done by
  the deadline.
* **Exporter.** Registration races with the first requests; requests overlap and
  are not cancelled when their client leaves. Correct: every answer in time,
  whole or empty, and a bounded number of requests in flight.
* **API collectors.** One to four requests a key, each with a timeout of its own
  under the deadline of all, labels made from keys or taken from answers. Correct:
  no two keys with the same series, a status that speaks of its own value, a call
  that hangs costs no other its answer while the deadline has room.
* **Mint collector.** Three queries on one connection, each with its own status.
  Correct: one failure does not cost the other two values.
* **Configuration.** Environment, file and defaults. Correct: the documented
  precedence, and seconds that are seconds.

PROJECT.json lists the hazards one by one, each at its line, with the properties
that watch over it.

## How the modules fit together

| Module | Models | Proofs | Runs |
| --- | --- | --- | --- |
| `SigningValidators` | `grpc.SigningValidators` against a changing chain | `SigningValidatorsProofs` | `signing` |
| `BlockScan` | `grpc.BlockProposers`, `grpc.AverageBlockTime` on a growing chain | `BlockScanProofs` | `scan`, `scan_window` |
| `ValidatorsCollector` | `ValidatorsCollector.Collect`, composed of the two above | `ValidatorsCollectorProofs` | `scrape`, `scrape_missed` |
| `BalanceCollectors` | `Collect` of the wallet, Base and BNB collectors | `BalanceCollectorsProofs` | `balances` |
| `ApiCollectors` | `Collect` of the collectors of eight web APIs, `pkg/http` | `ApiCollectorsProofs` | `apis` |
| `UsageWindows` | the billing windows of OpenAI, X.AI and Composio, while usage goes on | `UsageWindowsProofs` | `windows` |
| `MintCollector` | `MintCollector.Collect` on a growing chain, and the keepalive of its connection | `MintCollectorProofs` | `mint`, `keepalive` |
| `Configuration` | `LoadConfig`, as `main` calls it | `ProcessProofs` | `config` |
| `CollectorContract` | what every collector promises `Gather` | in the collectors', and `ProcessProofs` | `scrape`, `balances`, `apis`, `mint` |
| `Exporter` | `main` and the requests to `/metrics` | `ProcessProofs` | `exporter` |

`ValidatorsCollector` instantiates `SigningValidators` and `BlockScan` and steps
them; both are checked and proved to be implemented by it.

`CollectorContract` is the abstract specification of a collector: a `Collect`
begins, sends samples and takes none back, lasts no longer than its context, and
returns. Each of the four collector modules instantiates it under a refinement
mapping (`phase` from `pc`, `now` from the clock of the scrape, `sent` from the
samples; the validators collector's context is a flag, so its clock goes from
0 to 1) and has it as the property `KeepsContract`. `Exporter` keeps of a collector
the contract and nothing else: what its properties need of the thirteen
collectors is that each is over by its deadline. That it does keep it, for each
collector and each request that runs it, is proved in `ProcessProofs`. The `MC` modules
hold the values the configurations need and the statements of the documentation
that are shown not to hold (the keepalive's is in `MintCollector`). Definitions marked *seeded bug* are
never part of a specification: each replaces its neighbour when the properties
are tested for their power to find a bug.

## The models

### SigningValidators

The chain (`staked`, `jailed`, `siginfos`, `tombstoned`) may create, bond, jail,
unjail, tombstone and remove a validator between any two steps of the call. It is
external, modelled from what the two queries return: a signing info is made when
a validator first bonds and outlives it, and a tombstoned validator stays jailed.

| State and action | Code (`grpcValidator.go`) |
| --- | --- |
| `key`, `page`, `infos`, `vals` | the `key` and the slices of `SignigInfos` (28-61) and `Validators` (63-108) |
| `NewClient`, `conn` | 133-138; the close deferred at 142 is `CloseConn` in every later return |
| `SignigInfos`, `ValidatorsQuery`, `Turn` | one iteration of a pagination loop |
| `QueryFails` | every error return of the two queries, the deadline's among them |
| `InValsMap`, `Join` | `valConsMap` (110-128) and the join with its skip (161-203) |

The two lists are sets of records tagged with the page that brought them, which
is what makes a duplicate visible without keeping an order that reaches no
result. A page is any run of consecutive keys the node can serve: full when
another key follows, shorter only at the end. The operator account of a
validator is not modelled apart from its consensus address.

### BlockScan

One module for both functions, since they share the connection, the context and
the chain: `op` says which is running. `GetLatestBlock` fixes the window,
`StartHeight` is the clamp to the first block, `ScanBlock` one iteration of the
loop with its two outcomes `CountBlock` and `Skip`, and `GetStartBlock` and
`GetEndBlock` are the two fetches of the average. `skipped` is a history variable:
the program does not remember which heights it missed, which is why the property
has to. Blocks are a proposer and a time; the time unit is a tick. An answer is
assumed to carry a block: `AverageBlockTime` does not check this (341) and would
end the process with a panic, see the hazards.

### ValidatorsCollector

`Collect` (`validator_collector.go:111-168`) as a sequence of phases: `signing`,
then `proposers` if that succeeded, then `average` in any case. The four
per-validator metric families are one set `rows`, since they are sent for the same
rows; `sent` says whether the average was. `SkipToAverage` is the path of a
failed `SigningValidators`, and `Proposed` the empty map that replaces the counts of
a failed `BlockProposers`. `absent` and `missed` model the chain's own counter of
missed blocks, read with the signing infos. `Unreliable` and `Restless` name the
validators that may miss blocks and those whose staking may change: sets a run can
make smaller, and the theorems hold for all of them.

### BalanceCollectors

The wallet collector and the twins Base and BNB differ in three lines, so one
module has both and `kind` says which is scraping: only the twins trim an entry
and skip a blank one (`Trim`, `Skips`), only they begin an address with a fresh
status (`FreshStatus`), only the wallet collector has a connection. An entry of
the list is an account and whether it is padded with space. `Answer`, `Fail` and
`TimeOut` are the outcomes of `Balance` and `getBalance`. `now` and `deadline` are
the context: time passes only while a call waits, and at the deadline the
waiting call, and at once each later one, ends. The client's own timeout is equal
to the context's (`base_collector.go:55`) and so never comes first. A balance is
its value; the division by a power of ten is not modelled.

### ApiCollectors

The eight collectors of web APIs are one program with five differences, and the
module is about those: which requests are made for a key (`Requests`), whether there
is a list of keys (`Accounts`), which request goes on with the status of the one
before it (`FreshStatus`: only Venice's usage), where the account label comes from
(`LabelOf`), and whether the HTTP client has a timeout (`GivenUp`: CoinGecko's has none).

| Action | Code |
| --- | --- |
| `Collect`, `SkipBlank`, `Ask`, `Return` | `Collect` and its loop over `splitCommaList` |
| `Answer` | the request succeeded, was decoded and sent; a listing may have no rows |
| `Fail`, `TimeOut` | every error return of `GetRequest`, `PostRequest`, `composioRequest` and the decoding; `ReportError` is what `Collect` makes of it |
| `Tick` | a call waits, until its client or the context gives it up |

`label` is the account label, fixed by a key's first request and used by the second.
A request sends one sample here, where the code sends up to six of the same label
and status; a listing (Venice's usage, Composio's two usage queries) has a row or
none. `value` is whether the sample holds something read from an answer or a zero
that stands for nothing: that of an empty response, or, for the requests whose
answers have their amounts as text (`Textual`), that of an amount that is no number,
which the code puts there without an error (`xai_collector.go:368`,
`composio_collector.go:292`; OpenAI leaves such an amount out of its sum, which is a
zero here if all are left out; the sums in between are in `UsageWindows`).
`calls`, `failed` and `garbled` are history variables.

### UsageWindows

What `ApiCollectors` leaves out of three of its collectors: for which time they ask.
A clock counts ticks, and in each tick a tool is used or none (`usage`). A request
computes its window when it is made (`Ask`), or for Composio when the scrape begins
(`Collect`, `composio_collector.go:105`), and is answered any time later with what
was used in the window as far as it has passed. What the answer has that cannot be
read is lost without an error, and the sample is sent as a success (`AnswerCosts`,
`AnswerSummary`, `AnswerRows`):

| Action | An amount that is no number |
| --- | --- |
| `AnswerCosts` | is left out of OpenAI's sum (`openai_collector.go:127-131`): any part of the window's usage may be |
| `AnswerUsage` | fails X.AI's request when the JSON is decoded (`xai_collector.go:319`), which is `Fail` |
| `AnswerSummary`, `AnswerRows` | is 0 for Composio (`ParseFloatOrZero`, `composio_collector.go:292-301`): the total, or any of the rows |

A sample keeps the units lost to it in `illegible`, which is history: the code logs
OpenAI's and forgets them, and does not even log Composio's. So the properties say
how wrong an amount can be: it is short of the period's usage by what was illegible
and by no more, and a difference between Composio's total and its rows has no other
reason than illegible quantities or more tools than rows. `Buckets` are OpenAI's daily buckets,
`Days` of them (`openai_collector.go:105`), a window that ends with the day and not with
the request. Composio's breakdown has at most `BreakdownLimit` rows. All months are
alike, and the APIs are external: they count what happened, at once and for good.

### MintCollector

`Collect` (`mint_collector.go:67-95`) is a loop over the three `Families`: the three
`collect` functions differ in what they ask and in the exponent they divide by. A
value is the height it was read at, which is what shows that the three may be of
different blocks.

| State and action | Code |
| --- | --- |
| `NewClient`, `conn`, `CloseConn` | 75-85, `grpc.go` |
| `Ask`, `Answer`, `Refuse`, `TimeOut` | `Inflation`, `AnnualProvisions`, `TotalSupply` and their outcomes; an answer may be no number (122, 176, 238) |
| `link`, `Dial`, `LinkLost` | the transport under the connection, made by the first call that needs it and closed by the keepalive |
| `silent`, `Acknowledge` | time since the server was last heard, and the answer to a ping |
| `KeepaliveTime` | `time.Duration(c.Timeout)` (`config.go:132-133`), a number of seconds taken as nanoseconds |

gRPC's side of the keepalive is external: it raises the time between pings to a
minimum (`MinPing`), and closes the connection when a ping waits longer than
the timeout for its answer. With a timeout of nanoseconds, no tick can pass
between the two: at `silent = PingTime` the acknowledgement is there at once or the
link is lost. Both are steps of the model.

The error path after `big.Float.SetString("1e<n>")` cannot be taken, the text being a
number for every exponent, and is left out.

### Configuration

`LoadConfig` (`config.go:68-114`) as two passes over the keys, each in any order and
each remembering in `bad` that it met a malformed value: `env.Parse` (`Parse`), and, if
`ENV_FILE` is set, `viper.Unmarshal` (`Unmarshal`) over the keys of the file, for each of
which viper looks into the environment first (`Get`, `AutomaticEnv`). `Fatal` is
the empty `Config` returned with the error and the exit of `main`. `Restart`
starts the process again in any other environment. The process loads its
configuration and then is the exporter, so the initial states, the next-state
relation and the specification have names of their own here (`LoadInit`, `LoadNext`,
`LoadSpec`), beside those of `Exporter`. What a key's type can be
parsed from is taken to be the same for both libraries, and a variable that is set
to the empty string is not modelled: both are matters of the libraries, and
neither is used in this repository's documentation.

### Exporter

`main` forks one `MustRegister` for each enabled collector (28-118) and serves
meanwhile (120-137). A request is `Arrive` (Gather takes the registry as it is),
one `Finish` for each collector, and `Respond`. `age` is the time since the request
was read, the clock of both the collectors' contexts and the write timeout;
the time of a request stops at `Timeout` until its collectors have returned and its
answer is written, which is what "over by the deadline" means. Gather and the
handler are the library's, modelled as `main` uses them: Gather waits for all,
one repeated series makes it fail, and the default handler then answers 500
with nothing else. The scraper is external: at most one request an interval,
abandoned or not, since `Collect` never sees the request's context. Writing the
answer takes no time. `/healthz` answers a constant and has no state.

## What the runs check

| Run | Instance | What it shows |
| --- | --- | --- |
| `signing` | 3 validators, pages of 2, the two stores in different order | over any number of calls and any changes of the chain between pages: no address twice (`UniqueSeries`), nobody tombstoned and not jailed (`TombstonedAreJailed`), nobody left out who was there throughout (`SteadyCovered`), no connection leaked (`ConnectionBalance`), and every call returns (`Termination`) |
| `scan` | window 2, sample 3, chain of up to 5 blocks | the counts are exact up to the skipped heights (`CountsExact`), the average is a possible block time (`AverageInRange`) |
| `scrape` | 2 validators, pages of 1, the two stores in opposite order, one validator coming and going; window 1, sample 2, up to 3 blocks | one connection at a time (`OneConnection`), the average always asked for (`AverageAlwaysAsked`) and never beside counts cut short (`AverageCertifiesCounts`), rows that repeat no series and have counts that are all 0 or all of one window of the chain, less the heights skipped (`RowsTruthful`), both components implemented (`ImplementsCalls`), and the contract of a collector, that the scrape ends among it (`KeepsContract`) |
| `balances` | the list `a, b,,a`: an address twice, one padded, one entry empty; 2 balances; a deadline of 3 | a success is a balance of this scrape (`SuccessIsReal`), what an error means (`ErrorMeansFailure`), every entry once (`EveryEntryReported`), the contract kept (`KeepsContract`) |
| `apis` | keys `k1,,k2`, the label OpenRouter names equal to the redacted key for one and not for the other; HTTP timeout 2, deadline 5 | what zero and error mean (`StatusTruthful`), no series repeated (`UniqueSeries`), the calls that fit into the deadline have their whole timeout (`FullTimeout`), every request reported but failed listings (`EveryRequestReported`), the contract kept (`KeepsContract`) |
| `exporter` | 2 of 3 collectors enabled, one ambiguous; deadline 3, write timeout 4, interval 2, room for 3 requests | no answer lost to the write timeout (`AnsweredInTime`), at most 2 in flight (`InFlightBounded`), answers whole or empty (`WholeAnswers`), complete in the end (`EventuallyComplete`), every request answered (`RequestAnswered`) |
| `mint` | deadline 5, pings after 2, a chain of up to 3 blocks | a status is the query's own and a value of this scrape, later families never from older blocks (`SamplesTruthful`); each family once, whatever fails (`OneSampleEach`); the contract kept (`KeepsContract`) |
| `config` | a number and a string, three values each, set or not in environment and file | the environment before the file before the default, and an exit exactly for a value that counts and is malformed, or a file that cannot be read (`Precedence`) |
| `windows` | 2 tools, 1 row, months of 2 days of 2 ticks, 6 ticks; any part of an answer's text illegible | nothing of a period left out up to the request, nothing from outside it (`PeriodCovered`); Composio's rows stay within its total and add up to it (`RowsAddUp`); each up to what was illegible in the answers |
| `scan_window` | window 2 | the scan covers one block more than `BLOCK_WINDOW` |
| `scrape_missed` | block window 1, signed-blocks window 2 | missed blocks are not counted over `BLOCK_WINDOW` |
| `keepalive` | deadline 5, pings after 2 | a link is given up without waiting for the answer to a ping |

Why the bounds are enough. Three validators and pages of two give a first page, a
last page and a boundary that a validator can cross in each store. A chain of five
blocks has windows that reach the first block and windows that do not, and
room for blocks committed while a scan runs. The composed run has two validators
and pages of one, so that a scrape reads both of its lists in several pages, between
which one validator may join, be jailed or tombstoned and leave, and sends two rows,
which could repeat a series or count different windows. It is the largest run, and
so its other bounds are the smallest that still show this: the second validator is
bonded throughout and proposed the first block (`Restless`, `MCInit`), and three blocks
are room for one window that reaches the first block, one that does not, and a
commit during a scan. `scrape_missed` has one validator, which is enough to miss
blocks. The list of addresses has each kind of entry, with good
ones before and after the bad. Two keys with two requests each and a deadline of two and a half HTTP
timeouts let hanging calls use up the deadline at each position, and leave calls
that are given up by their client, by the context, and before they begin. The mint
collector's deadline has room for two pings, so that a link can be lost, dialled and
lost again within one scrape, and a chain of three blocks lets the three values
be of three heights. Six ticks of usage are a month and the first day of the next: every
request can have the end of a day, or of the month, before or after it. One key whose
type refuses a value and one whose type does not are all a library tells apart. The
exporter has one request more than can be in flight, so that the bound is the code's
and not the model's. The safety properties are proved besides, where no bound is left.

Deadlock is checked everywhere but in `exporter`, where `ListenAndServe` may fail
and the process exits.

### Fairness

* `WF(Step)` or `WF(Local)`: a goroutine that can go on goes on.
* `WF(Expire)`, or `WF(Tick)` and the step that ends an expired call: the
  deadline of a context passes whatever a node does, and a call under it returns
  then. This is what `context.WithTimeout` gives every collector, and each call
  is handed the context.
* `WF(Local)` of `MintCollector` includes the loss of a link whose ping went
  unanswered.
* Nothing is assumed of the environment: the chain need not move, no call need be
  answered, no request need come. In `SigningValidators` and `BlockScan` the steps
  in `WF(Step)` include a failure, so the termination shown is that of a call
  whose fetches may all fail.
* `Exporter` also has `WF` for each forked goroutine and for writing an answer.

## What is proved

All for every value of the constants, from the assumptions the modules name
(ranks of store keys are distinct, page size and timeouts are positive, and so
on), each as `THEOREM Spec => []...` from an inductive invariant.

* `SigningValidatorsProofs`. `UniqueSeries`, `TombstonedAreJailed`, `SteadyCovered` and
  `ConnectionBalance`. None is inductive: the invariant adds that all keys
  read so far lie below the next one (`PagesInv`), which is why pages read at
  different heights cannot repeat a key; that a tombstone once read is on the chain
  for good (`TombInv`), which is why the order of the two queries matters; and that
  no steady validator below the key is missing (`CoverInv`).
* `BlockScanProofs`. `CountsExact` and `AverageInRange`. The invariant says what the
  loop has counted at each height (`ScanInv`), that block times grow by 1 to
  `MaxGap` a block (`TimesInv`), and that both ends of the sample belong to one latest
  height (`SampleInv`).
* `ValidatorsCollectorProofs`. Types, `OneConnection`, `AverageCertifiesCounts`,
  `AverageAlwaysAsked`, `RowsTruthful`, and that the collector implements
  `SigningValidators`, `BlockScan` and `CollectorContract`: every step of it is one of
  theirs or a stutter. The receipt rests on `CutInv`: a height lost to the deadline
  means an expired context, and nothing is fetched for the average after that. `RowsTruthful` is
  where the composition pays: the theorems of the two components are cited through
  instances of their proof modules (`SVP`, `BSP`) under the refinement
  (`CallsSafety`), and what is left to show is that the counts handed over by a scan,
  and the blocks they count, are the same when the rows are read.
* `BalanceCollectorsProofs`. Types, `SuccessIsReal`, `ErrorMeansFailure`,
  `EveryEntryReported`, and that the contract is implemented. The invariant says that the samples are those of the entries
  before the current one (`SamplesInv`), what the status variable remembers
  (`StatusInv`), and that present balances have been seen (`ValueInv`).
* `ApiCollectorsProofs`. Types, `StatusTruthful`, `UniqueSeries`, `FullTimeout`,
  `EveryRequestReported`, and that the contract is implemented. The invariant says that samples and failures belong to requests
  before the current one and are the only ones there (`SampleInv`, `OnceInv`,
  `ReportedInv`), that a label is one of its own key's (`LabelInv`), what the status
  variable still says of an earlier request (`StatusInv`), and that each call so far
  has taken at most one HTTP timeout (`TimeInv`). `UniqueSeries` assumes keys that can
  be told apart by their labels: where two keys share one, the code does repeat a
  series.
* `MintCollectorProofs`. Types, `SamplesTruthful`, `OneSampleEach`, and that the contract
  is implemented. The invariant says that the samples are, in order, those of the
  queries before the current one, and that the connection is open exactly while
  there are queries left.
* `ProcessProofs`, about `Configuration` and `Exporter`, which run one after the other in
  the same process. `Precedence`: the invariant says for each of the two passes
  what the keys passed hold and that the others are as before, and that `bad` is
  set exactly if a value passed is malformed; it rests on all values of the environment
  being well-formed once the first pass has succeeded. Types, `AnsweredInTime`, `WholeAnswers`
  and `InFlightBounded`: the invariant adds that no request is older than the deadline
  and that any two are an interval apart (`AgeInv`); the bound follows since requests then
  fall into different intervals of the clock, an injection into
  `0 .. Timeout \div Interval`. `ContractsKept`: of each collector, for every request
  that runs it, the exporter models what `CollectorContract` specifies, which is what
  the collectors are proved to keep. `NoneLost` and `StaysComplete`: registration loses
  no collector, and once it has ended every new request gets all that are enabled; this is
  what `EventuallyComplete` needs besides fairness.
* `UsageWindowsProofs`. `PeriodCovered` and `RowsAddUp`, for any length of days and months,
  any usage, and any illegible part of an answer. The invariant says that a window is
  the one computed at the moment it was asked for, Composio's the same for both its
  requests (`WindowInv`), and that Composio's samples are the total and the rows of that
  one window, each with what was illegible of it (`SamplesInv`, `Adds`, `Shown`); nothing
  used later reaches a window that has ended. What is legible and what is not split
  the window's ticks in two, and their units add up (`UnitsSplit`). A sum over tools is a fold,
  recursive in the library: `SumOfUses` gives the function that counts uses, shows that
  it solves the fold's equation, and that no other does, a smallest set on which two
  differ being impossible.

That a collector implements the contract is proved for its steps
(`ContractKept == Spec => Contract!Spec`). That it returns is liveness, and rests on two
things. One is fairness, which is model-checked with the rest of `KeepsContract`. The
other is that no behaviour goes on for ever without returning, which is proved: each
of the six modules of collectors and calls has a function `StepsLeft` that is
bounded by the constants and goes down in every step but those of the last column.

| Theorem | Steps at most | Aside from |
| --- | --- | --- |
| `BlockScanProofs!CallBounded` | `BLOCK_WINDOW` + 5 a call | new blocks and the clock |
| `SigningValidatorsProofs!CallBounded` | two a validator and 4, for finitely many validators: each page moves the key | the chain and the clock |
| `ValidatorsCollectorProofs!ScrapeBounded` | 2 * `BLOCK_WINDOW` + 15, from the deadline or from the return of `SigningValidators`, whichever is first | the chain and the clock |
| `BalanceCollectorsProofs!ScrapeBounded` | the deadline, two an entry, and 2 | transfers |
| `ApiCollectorsProofs!ScrapeBounded` | the deadline, eight a key, and 1 | - |
| `MintCollectorProofs!ScrapeBounded` | twice the deadline and 12, lost links included | new blocks |

Only model-checked: what needs fairness (`Termination`, the returning half of
`KeepsContract`, `EventuallyComplete`, `RequestAnswered`), since neither `ENABLED` nor
liveness is within the prover's reach, and the three runs that end in a violation,
which are counterexamples.

## Where the documentation disagrees

* `BLOCK_WINDOW = 200` scans 201 blocks: both ends of the loop are inclusive
  (`grpcValidator.go:273`; run `scan_window`).
* "Missed blocks within the last `BLOCK_WINDOW` blocks" (`src/README.md:55`): the
  value is the chain's counter over its own signed-blocks window
  (`grpcValidator.go:193`; run `scrape_missed`).
* `GRPC_TIMEOUT_SECONDS` (`config.go:32`, `src/README.md:15`) is used as nanoseconds for
  the keepalive (`config.go:132-133`): a server silent for gRPC's minimal ping time
  loses the call, long before the configured seconds (run `keepalive`).

## What is not modelled

* One node answers: a load balancer in front of nodes at different heights could
  serve an older state to a later page.
* Panics: an answer without a block ends the process (`grpcValidator.go:341`).
* Values as floats, token amounts, labels other than those that identify a series.
* The queries no collector and no test calls (`grpcAuth.go`, all of `grpcWarden.go`), and
  the logger, which has no state another part reads.
* That `TTL` is larger than `GRPC_TIMEOUT_SECONDS`, and any other relation between
  configured values: nothing in the code checks one. `AnsweredInTime` says what
  depends on it.
* Usage that an API books late, and months of different lengths.

## Plan

Done, in this order: `SigningValidators`, `BlockScan`, `ValidatorsCollector`,
`BalanceCollectors`, `Exporter`, `ApiCollectors`, `CollectorContract`, `MintCollector`,
`Configuration`, `UsageWindows`, all with proofs. Next:

1. A scrape of `SigningValidators` that is bounded from its beginning: the bound of
   `CallBounded` in `ValidatorsCollector`, for finitely many validators.
2. That a step can always be taken: the guards of each collector's own actions, written
   out, cover every reachable state of a scrape. With `StepsLeft` this leaves nothing
   of its end to model checking but fairness itself.

Runs are few by design: a component gets one, unless the documentation says
something else than the code does.
