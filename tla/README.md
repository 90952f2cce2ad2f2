# Specifications of binance-app

TLA+ models of the market-data pipeline in `src/`: an ETL process that collects
one-minute candles and aggregate trades from Binance into PostgreSQL, a web
process that shows them, the pages in the browser, and the scripts that back the
database up. The models are checked with TLC on small instances;
the main safety results are proved with TLAPS for every value of the constants.

    tlc -config MCCollector_one.cfg MCCollector.tla     # one run, see "Runs"
    tlapm CollectorProofs.tla                           # one proof module

`PROJECT.json` lists components, runs, mutants, findings, hazards and theorems,
and maps each definition to the lines of code it translates.

## The system

| Part | Code | State it keeps | Operations | What makes it correct |
|---|---|---|---|---|
| Collector | `app/etl/collector.py` | one coroutine, one reader task, a queue of at most 20 000 events, the locals of a recovery, the deadline of the next reconciliation | `run_forever`, `_run_connected`, `_recover_all_symbols`, `_recover_candles`, `_record_successful_reconciliation`, `_persist_live_batch`, `_mark_all_live`, `_mark_all_disconnected` | no completed minute is lost or vouched for by mistake; it comes back after a failure |
| Repository | `app/etl/repository.py`, `app/core/models.py` | `market_candles`, `aggregate_trades`, `ingestion_checkpoints`, `ingestion_runs` | upserts, inserts, checkpoint and run updates, `closed_open_times` | candles only advance; runs and checkpoints agree with the data they commit with |
| Coverage arithmetic | `collector.py`, `web/dashboard.py` | none | `first_missing_open_time`, `count_missing_completed_minutes`, `missing_completed_open_times` | collector and pages agree on what is missing |
| Binance client | `app/etl/binance.py` | an HTTP client, the attempt of the call in progress | `fetch_klines`, `stream`, `_get` with retries | pages in order; every call ends, a failure is raised; `Retry-After` is waited for |
| ETL process | `app/etl/main.py` | a stop event | start, stop | a stop cancels the collector; a crash is followed by a restart |
| Health check | `app/etl/health.py` | none | `checkpoint_health_issues` | agrees with what the dashboard shows |
| Dashboard queries | `app/web/dashboard.py` | none (one session per request) | `build_dashboard`, `build_market_detail` | a page assembled from several statements does not contradict itself or the tables |
| Web routes | `app/web/main.py` | none | the pages, `/api/...`, `/health`, `/events` | a notification reaches the pages that are subscribed |
| Redis publications | `app/core/events.py` | none | `publish` | Redis is not needed for correctness |
| Browser pages | `app/web/static/*.js` | `refreshTimer`, `refreshInFlight`, the `EventSource`, what is shown | refresh on notification, error, timer or click | the page converges to the tables and never goes back in time |
| Backup and restore check | `scripts/*` | lock directory, partial file, dump, checksum, restore container | backup, retention, verification | a file with its final name is a whole dump; retention never removes the last good one |
| Configuration | `app/core/config.py` | settings | validation | the ranges the rest relies on |
| Sessions, migrations | `app/core/database.py`, `alembic/` | engine, schema | none of its own | one session per transaction |
| Compose | `compose.yaml` | containers | restart, health checks | a process that ended is started again |

**Interaction.** Inside the ETL process the reader task and the coroutine share
only the queue and the reader's outcome. The ETL and the web process share only
PostgreSQL (READ COMMITTED, one statement after the other) and, for
notifications, Redis: a publication reaches the subscriptions of the moment and
is kept for nobody. A page has a REST call and an event stream to the web
process. Nothing but the database survives a restart. The backup scripts meet
each other only in the backup directory.

**What is hard.** (1) The recovery of several symbols, one after the other and
page by page, runs while the clock moves and the reader fills a bounded queue.
(2) Every `await` can raise: the collector has a handler inside a handler
(`_recover_candles` inside `_run_connected` inside `run_forever`), and which
handler sees an exception decides what is recorded. (3) REST, open updates and
closing events write the same rows in any order. (4) A page is put together
from several statements with commits between them. (5) A process can be killed
between any two commits, a backup script between any two commands. (6) Two retry
loops, one inside the other, share the exchange's patience. (7) A page asks for
new data on notifications that may be lost, behind guards that drop requests.
The 40 places where this bites are the hazards of `PROJECT.json`.

## Modules

    Coverage        MarketRepository                CandleContract
        \                 /                              |
         +-- Collector --+                               |
                 |                                       |
        CollectorProperties -------- INSTANCE -----------+
         /       |        \             \
    MCCollector  Dashboard  MarketDetail  CollectorProofs (also EXTENDS CoverageProofs)
                     \        /              /         \
                      WebServer        TableProofs   ServiceProofs
                     /        \             \         /
            MCWebServer        +----------- WebProofs

    RestClient         Backup --- INSTANCE --- BackupArchive      Pages
     /      \          /    \                                    /     \
    MC..  RestProofs  MC..  BackupProofs                     MCPages  PagesProofs

Each `MC` module gives TLC its model values; the `.cfg` files give the constants.
The collector, the web server, the REST client, the pages and the scripts are
modelled apart where they share no state: `Collector` abstracts a REST call to
one step that succeeds or raises, which `RestClient` takes apart; `Pages`
abstracts the tables to a version number, which `WebServer` takes apart.

**MarketRepository** has no variables: a statement of `repository.py` is an
operator from the table it reads to the table it leaves, and the action that
uses it is the transaction. A candle row is three flags: `stored`, `is_closed`
and `final`, which says whether the OHLCV columns hold the completed minute's
values (a closing event and a REST candle carry them, an open update does not).
`UpsertCandles` replaces the values and ORs `is_closed`, as
`repository.py:82` does.

**Collector** is the ETL process. `pc` is the await the coroutine of
`run_forever` is suspended in:

| `pc` | Where the coroutine is | Leaves by |
|---|---|---|
| `down` | the process is not running | `Start` |
| `check` | `_recover_candles`: reads the closed minutes of the coverage window | `SkipCovered`, `RecordSuccessfulReconciliation`, `OpenRun` |
| `page` | the loop over `fetch_klines`, one transaction per page | `FetchPage`, `FetchPageWithGap` |
| `verify` | reads the window again, finishes run and checkpoint in one transaction | `VerifyAndFinish`, `FindIncomplete` |
| `publish` | publishes to Redis, still inside the `try` | `PublishBackfill` |
| `fail` | the `except` of `_recover_candles` | `RecordFailure` |
| `golive` | `_mark_all_live` | `MarkAllLive` |
| `wait` | `asyncio.wait` on the reader and the next event | `NoticeStreamEnd`, `TakeEvent`, `StartReconciliation` |
| `gather` | the 50 ms sleep, then the rest of the batch | `GatherBatch` |
| `persist` | `_persist_live_batch`'s transaction | `PersistLiveBatch` |
| `announce` | its publications | `Announce` |
| `disconnect` | `run_forever`'s handler, `_mark_all_disconnected` | `MarkAllDisconnected` |
| `backoff` | asleep until the next attempt | `Reconnect` |
| `dead` | `run_forever` raised; `main` waits for a signal | `Crash` |

The failures of each step are `RecoveryStepFails` (inside the `try`),
`RecoveryBookkeepingFails` (outside it, or in its handler), `LiveStepFails`,
`MarkAllDisconnectedFails`, `StreamFails` and `Crash`. `RecoveryRaised` is what
an exception does that leaves `_recover_candles`: it tears the connection down
in the first recovery and is logged in a periodic one. `reader`, `inFlight` and
`queue` are the reader task, the closing events the exchange has sent and the
process has not received, and the queue. `since` and `joined` are history
variables: the minutes in which the last connection attempt began and its
WebSocket opened. Nothing reads them but the properties.

**CollectorProperties** states what the collector must do, and, in its last
part, what the documents say and the code does not do. **CandleContract** is the
abstract specification: candles go from absent to open to closed, the run
history vouches only for closed candles, and vouching and storing are different
steps. The refinement mapping is `Contract` in `CollectorProperties`.

**Dashboard** is one request of the overview, one action per `SELECT` of
`build_dashboard`, run beside the whole collector; the statements of
`_recent_runs`, the prices and the trade list do not feed a decision and are
left out. It also holds `derive_checkpoint_status` and
`checkpoint_health_issues`. **MarketDetail** is one request of the detail page:
the range is computed (`AskDetail`), then the candles are read in one statement
(`ReadChart`); the page keeps the chart while the collector goes on.
**WebServer** composes the two with the collector: one browser tab that shows
the overview or a detail page, refreshes it and moves from one to the other; for
a market that is not configured it gets a 404 and shows neither. Pages share
nothing but the tables they read, so one tab is any tab.

**RestClient** is `BinanceMarketClient._get` inside the recovery inside
`run_forever`:

| `phase` | Where the coroutine is |
|---|---|
| `start` | `run_forever` is about to connect |
| `send`, `sent` | `_get` before and during a request |
| `asleep` | the sleep after a failed attempt, the last one included |
| `live` | in service |
| `disconnect` | the handler of `run_forever`, in `_mark_all_disconnected` |
| `backoff` | the sleep of `run_forever` |
| `dead` | `run_forever` has ended |

The answers are a success, a failure without `Retry-After` (a timeout, a
refusal, a body that is no JSON, a 4xx whose `Retry-After` nobody reads), a throttling answer with `Retry-After` in
seconds, and one with a date, which `float()` cannot read. An exception of the
first recovery tears the connection down; one of a periodic recovery goes on to
the next symbol at once, with no pause but the last sleep of `_get`. The handler
of a lost connection awaits a database write before it sleeps
(`MarkAllDisconnected`); when that fails, `run_forever` has ended for good. Time is
counted in units of 50 ms (the backoffs are multiples of 250 ms) and only
relative to the last answer, so that outages of any length are covered.
`run_forever` never sets `attempt` back; from 7 on the delay depends on
`attempt % 3` alone, and 10 stands for 7.

**Backup** is `backup_postgres.sh` with `--retention-days` and, or
not, `--verify-restore`, and `verify_postgres_restore.sh` inside it, run several times
over one directory. A command is a step; a command that writes for long
(`docker cp`, the restore) is two, so that it can be cut short in the middle.
The lock is taken (`Acquire`) before the trap is set (`SetTrap`): INT or TERM in
between ends the script by default, with its lock left (`StopBeforeTrap`). From
then on `set -e` ends the script when a command fails (`Fail`), and the EXIT trap
removes the partial file and the lock. `Interrupt` is INT or TERM: the shell runs
the trap when the command in progress is over (`RunTrap`); the trap does not exit,
so the script goes on without its lock and without its partial file. `Kill` is KILL
or the end of the host: nothing is cleaned up. A removal in a trap may fail too: a
failing `rm -f` ends the trap before its `rmdir` (`LeavePartial`), a failing `rmdir`
is passed over (`CleanUp`), and so is a `docker rm` or `docker volume rm` of
`verify_postgres_restore.sh`, whether the restore was right or not
(`RemoveTemporary`). `unremoved` remembers what was left that way. Scripts are
numbered in the order they start. Days pass between commands.
**BackupArchive** is the abstract specification: a usable backup (whole, with a
verified checksum) is removed only while a usable newer one is there.

**Pages** is the way of new data to an open page. `version` stands for the data
of the detail page's market, which a commit may advance; publications follow the
commit one by one, reach the subscriptions that are open, and are lost for the
others. The overview refreshes on every notification, on errors and on its
interval; the detail page on notifications of its own market, three seconds
after an error, and on clicks. `timer` is `refreshTimer`, `requests` the request
that `refreshInFlight` guards: a timer that fires while one is out does nothing.
A request reads the tables and is answered later, or fails.

**Abstractions.** A symbol is its position in `settings.symbols`. Time is in
minutes, event times in half minutes (opening, inside, end). There is one clock
for the process, the exchange and the database. Prices, volumes and messages
are left out except for `final`. One trade a minute stands for any number. A
failing statement or commit leaves the tables as they were (a commit that is
applied and then raises leaves what a commit followed by a failure of the next
step leaves). Delays (backoff, 50
ms, 300 s) are nondeterministic: a timer may fire once its wait is entered,
except that the reconciliation deadline lies at least one `Tick` after it is
set. The exchange always has every completed minute to offer unless the fault
`gap` leaves one out of a page.

Each module with a mapped definition also has operators headed `Mutant:`: the
definition below with one plausible bug. Nothing uses them; substituted for the
definition they must break the property `PROJECT.json` names, which shows that
the property depends on that piece of code.

## Runs

`CHECK_DEADLOCK FALSE` appears where the system may really stop: a `dead`
collector has no successor once the clock is at its bound and no crash is left to
inject (`collector_one`, `v_retry`), and backup scripts end (`backup`,
`v_verified`). Everywhere else deadlock is checked.

| Run | What it asks | Result |
|---|---|---|
| `collector_one` | one symbol, two faults of any kind, a trade: do the tables stay true (`SuccessMeansCovered`, `CheckpointIsBacked`), does every streamed minute reach them with its final values (`StreamedMinutesSurvive`), is the run history append-only (`RunHistoryOnlyGrows`), is the run being finished the right one (`RunMatchesJob`), does a recovery fail only for a reason from outside (`NothingFailsByItself`) and never turn in a circle (`RecoveryMakesProgress`)? | holds |
| `collector_two` | two symbols, one fault of any kind, under fairness: is LIVE reported only when all are recovered (`ServiceMeansRecovered`), are checkpoints marked together (`ReconnectsAreRecordedTogether`), is `CandleContract` implemented, does the collector return to service (`ReturnsToService`), does every run being worked on end unless the process does (`RunsSettle`)? | holds |
| `web_tab` | a tab on either page beside the collector: is "0 missing" true and does it stay true, has LIVE fresh data behind it, do page and health check agree, do the statements of the reconciliation watch fit together, does a chart never hide a gap, never contradict a SUCCESS run, and in service shade only recent minutes? | holds |
| `rest` | any sequence of answers to any calls: is `Retry-After` waited for whoever calls next, is the pause bounded, does every call end (`EveryCallEnds`) and a recovery use up its calls one after the other (`CallsMakeProgress`), does the collector come back after every outage it survives, the end of `run_forever` in its disconnect handler being the one it does not (`ComesBackAfterOutage`, see `v_retry`)? | holds |
| `backup` | three scripts that overlap, fail, are stopped, interrupted or killed, with traps that may fail to remove something: is a file with a final name whole, does the lock exclude, is it given back unless `LeftItsLock` says why not, does an ended script leave nothing behind but what it tried to remove and one that ended well a dump that can be restored (`SuccessMeansRestorable`), is `BackupArchive` implemented? | holds |
| `pages` | both pages behind a relay that loses notifications and breaks, requests that fail or answer late: does no page go back in time, does the overview converge, and the detail page as long as its market is traded? | holds |
| `v_*` | the disagreements below | violated |

**Bounds and why they are enough.**

- `MaxMinute` 2 to 4 with a bootstrap window of 1 or 2 minutes: the clock passes
  at least one minute boundary during every phase of a connection, also after a
  first recovery and a reconnection. `collector_one` has two boundaries after
  the start and two minutes to recover, so that a page may fail after one has
  been stored.
- `PageLimit` 1 makes a recovery take several pages, 2 makes a page cover the
  window; `Overlap` 1 reaches back before the first missing minute and is cut
  at the window's start.
- `QueueMax` 1 or 2 and `BatchMax` 1 or 2: a full queue (the reader blocks), a
  batch that leaves events queued, two updates of one candle in a batch.
- `NumSymbols` 2 where the question is about the order of symbols, else 1.
- `TradeMinutes`: at most one trade, in `collector_one` after the first recovery.
- `MaxFaults` 2 in `collector_one`: a fault in the handling of a fault, a
  crash during the recovery after a crash. `collector_two` has 1, which is too
  few to kill the collector in its disconnect handler; so it must not deadlock.
  `web_tab` has one gap in a REST page and no other fault: a collector that has
  stopped, for whatever reason, is one that takes no step while the clock and the
  tab go on, which the interleavings contain.
- `StaleAge` = `HealthAge` = 1 half minute, the smallest setting `config.py`
  permits to be equal, where the two thresholds meet; `HourWindow` 1 and
  `DetailWindows` {2}, one minute more than the bootstrap window. `config.py:14` also permits a
  bootstrap window of one day under the chart of seven; such a chart would only
  reach further into minutes nobody recovers, below the model's first minute.
- `rest`: two symbols, so that a call follows one that failed, two pages, and
  `Retry-After` of 1 s, 60 s and 10 min, below and above every backoff.
- `backup`: three scripts, so that retention of one meets a second at work and a
  third's old dump; `Retention` 1 and `MaxDay` 3 let the first dump expire; two
  faults, each a signal or a removal that fails, so that one may follow the
  other. `NextDay` has a bound of its own: a script is over before its own dump
  expires, and its retention loop is over within the day. The proofs have the
  last two, and any number of scripts, days and faults.
- `pages`: `MaxVersion` 1. A page either shows the last commit or an older one;
  convergence asks for one change to arrive. Commits that change nothing, and
  notifications, are unbounded.
- Neither `runs` nor `reconnect_count` has a bound of its own: each new entry
  costs a tick or a fault.

Symbols are numbers because the code recovers them in order; they are not
symmetric, and no run uses symmetry.

**Fairness.** `Fairness` in `Collector`: weak fairness of `Recover \/ GoOn`:
the event loop resumes a coroutine whose await has ended, and every await there
has a timeout or an answer. Weak fairness of `Start`: `restart: unless-stopped`
in `compose.yaml`. Weak fairness of `Connect` and of `ReceiveFinal(s)`: a
WebSocket that does not fail opens and delivers what was sent. The clock need
not tick, updates need not arrive, and faults need not happen.

`RestSpec`: weak fairness of the client, because the HTTP client has a timeout
and `asyncio.sleep` ends. `BackupSpec`: weak fairness of each script's next
command, trap or failure; nobody has to start a script or to signal it.
`PagesSpec`: weak fairness of timers, of the browser's reconnection, of a
notification on its way and of a publication (which may fail); strong fairness of
`Query` and `Answer`, since a request may be overtaken by failures or reloads but
an API that is asked again and again does not fail every time. Nothing makes the
collector commit or the user click.

## Where documents and code disagree

Each is a run that must be violated, with one property that states the sentence.

| Run | The document | What the run shows |
|---|---|---|
| `v_final` | `README.md:61`: the row is completed with the OHLCV of the final event | REST closes a candle; an update sent while it was open, queued since, is stored over it; the stream ends before the closing event. The row counts as closed in every later check and keeps partial values. |
| `v_join` | comment at `collector.py:83`: the reader starts first and buffers | the range is computed before the reader has run; a minute that ends before the WebSocket opens is in neither, and LIVE is reported over the gap until the next pass |
| `v_retry` | `README.md:435`: reconnection with backoff | a database failure in the disconnect handler ends `run_forever`; the process stays up idle |
| `v_running` | `docs/metrics.md:20`: RUNNING is shown, not counted | a request while the latest run is RUNNING raises (`finished_at` is None), also for ever after a crash in a pass until a newer run ends |
| `v_verified` | `docs/postgresql-backup-restore.md:34`: the final name is given only after the checksum was written and verified | a script killed after the `mv` at `backup_postgres.sh:80` leaves a dump under its final name without a checksum |
| `v_periodic` | `README.md:209` and the comment at `market_detail.js:310`: the page queries again periodically | the only notification is lost, or its refresh fails: the detail page shows old data until its market's next notification |

These explain the shape of the properties that hold: `ServiceMeansRecovered`
speaks of the minutes before `since`, and `StreamedMinutesSurvive` of those after
`joined`, because of `v_join`; `StreamedMinutesSurvive` ends with the stream
because of `v_final`; `ReturnsToService` excludes database faults and `ComesBackAfterOutage` excepts
a dead collector because of `v_retry`, and `RunsSettle` because the handler may not be able to record the
end; `FinalIsComplete` says nothing of the checksum because of `v_verified`;
`DetailFollowsItsMarket` presumes notifications because of `v_periodic`.

Smaller differences were met on the way. They are plain from the lines named, so
no run repeats them:

- `docs/project-rules.md:32` makes Redis no basis of recovery; the publication
  after the commit raises inside the same `try`, so a SUCCESS run becomes FAILED
  and the connection is torn down (`collector.py:232`). `RunHistoryOnlyGrows`
  permits this step and no other rewriting.
- `docs/metrics.md:8` calls the event time the most recent one Binance sent; a
  recovery sets it to the open time of the last completed minute whatever was
  recorded (`collector.py:229`).
- `docs/metrics.md:9` counts the reconnections of the current execution; the
  count is incremented from the table and survives restarts
  (`repository.py:132`).
- `README.md:426` has the periodic check run every interval; its deadline is
  looked at only when a wait ends with no event (`collector.py:96`).
- `docs/metrics.md:19` counts the failures of a FAILED latest run; the two are
  read by different statements, so one refresh may show 0
  (`dashboard.py:364`).
- `README.md:187` shows a stopped ETL as STALE; only LIVE is derived to STALE,
  RECOVERED stays (`dashboard.py:40`).
- `docs/project-rules.md:40` retries what may pass and honours `Retry-After`; a
  permanent 4xx is retried five times as well (`binance.py:80`), and a
  `Retry-After` that is a date ends the call with a `ValueError`
  (`binance.py:83`).
- AD-009 (`docs/decisions.md:71`) keeps backups from running at the same time;
  the INT and TERM trap removes the lock and the script goes on
  (`backup_postgres.sh:63`), so a second one may start beside it. `LockExcludes`
  holds until the first interruption; `FinalIsComplete` and `ImplementsArchive`
  hold regardless.
- A script ended by KILL leaves its lock, and every later backup refuses to start
  until somebody removes it (`backup_postgres.sh:54`). So does one stopped by INT
  or TERM before its trap is set (line 63), and one whose trap fails to remove the
  partial file or the lock (lines 60 and 61). `StaleLocksAreExplained` shows that
  nothing else does.
- `docs/postgresql-backup-restore.md:91` has the restore check clean up whether it
  succeeds or fails; a `docker rm` or `docker volume rm` that fails is passed over
  (`verify_postgres_restore.sh:23`), and the script ends, with success too, while
  its container or volume stays. `EndedScriptsLeaveNothing` excepts what a removal
  failed to remove, and nothing else.
- A script that fails between the dump and its removal leaves the staged file in
  the container (`backup_postgres.sh:81`).
- The overview goes on to say that it receives events while its own requests fail
  (`dashboard.js:93`): the text is that of the last answer.

## Proofs

The assumptions are those named in the modules: `RepositoryAssumption`
(at least one symbol), `CollectorAssumption` (positive limits, a bootstrap window
within the clock's range, any set of faults and any number of them),
`DashboardAssumption` (the health check's threshold is not below the page's, the
hour lies within the bootstrap window, as `config.py` and the constants have it),
`MarketDetailAssumption` (charts no longer than the bootstrap window plus the
current minute), `RestAssumption` and `BackupAssumption` (positive counts;
scripts are numbers).
`MaxMinute`, `MaxFaults`, `MaxDay` and the number of scripts are arbitrary.

| Theorem | Module | Argument |
|---|---|---|
| `TypeCorrect`, `RunAlwaysMatchesJob` | `CollectorProofs` | `Typed == TypeOK /\ RunMatchesJob` is inductive. Neither conjunct is alone: `FinishRun(runs, Len(runs), ..)` and `checkpoints[job.symbol]` are typed only if a run is open and `job` names a symbol, which is what `RunMatchesJob` says of each `pc`. |
| `SuccessAlwaysCovered` | `CollectorProofs` | `CandlesOnlyAdvance` (no step reopens a candle), `HistoryStep` (how any step changes `runs`), and that `VerifyAndFinish` looks at a window that contains the run's range. |
| `RunHistoryIsAppendOnly` | `CollectorProofs` | from `HistoryStep` under `Typed`. |
| `RecoveryAlwaysMovesOn` | `CollectorProofs` | each step of a recovery raises the pair of symbol and stage, or the first minute of the next page; a page that brings nothing ends the loop. |
| `VerificationSucceeds`, `NothingEverFailsByItself` | `CollectorProofs` | `PagedSoFar`: while REST answers in full, every minute of the window before `job.next` is closed, by the check that found the first gap for the minutes before it and by the pages after. At `verify` the window ends before `job.next`, so nothing is missing. `Undisturbed` adds that nobody has reached a handler. |
| `FinishedRunsStay` | `CollectorProofs` | lemma `WhoFails`: the handler finds a finished run only after a publication failed. |
| `OneRowPerCandle`, `StoringAgainChangesNothing`, `CompletedCandlesCommute` | `TableProofs` | from the statements alone, for every table: an insert names a candle once, with its newest update; repeating it changes nothing; completed candles may come in either order. |
| `CollectorImplementsContract` | `TableProofs` | `ContractInv` adds `ClosedIsStored`; steps that write candles map to `Store`, steps that settle a run to `Vouch` or `Withdraw`, all others stutter. |
| `ServiceIsRecovered` | `ServiceProofs` | `ServiceInv` adds `Progress`: during the first recovery every symbol before the current one is covered up to `since`, at `golive` all are; a moving clock only shortens what has to be covered. |
| `StreamedMinutesAlwaysSurvive` | `ServiceProofs` | `StreamInv` looks at the pipe, the batch followed by the queue: an update in it is of the open minute or has its closing event behind it. Taking and gathering events move them within the pipe; persisting lets the last event of a candle win, so a closed row can only be overwritten by an update whose closing event is still to come. |
| `OnlyTheJoinIsMissed` | `ServiceProofs` | from `ServiceInv` for the minutes before `since` and `StreamInv` for those from `joined` on; the minutes between the two are what `v_join` shows. |
| `NothingIsClosedEarly` | `ServiceProofs` | `OnlyThePastIsClosed`: rows, batch, queue and messages in flight speak of an ended minute wherever they say closed. |
| `ClosedRowsGetFinalValuesUnlessDisconnected` | `ServiceProofs` | `FinalValuesCome`: while no connection in service is lost (only REST fails), a closed row without its final values was overwritten by an update whose closing event is behind it in the pipe (`StreamInv`) and comes. |
| `ReconnectsAlwaysTogether` | `TableProofs` | `WhoChecks` lists the writers of checkpoints; only `MarkAllDisconnected` changes a count, and it changes all. |
| `CheckpointsAreBacked` | `TableProofs` | rows are never removed, and a batch's checkpoint is the time of one of its events, whose row commits with it (`BackedStep`). |
| `FirstMissingIsFirst`, `DashboardAgreesWithCollector` | `CoverageProofs` | least elements of finite integer ranges; then the three coverage functions agree on every range and every set of closed minutes. |
| `ChartStaysTruthful`, `ChartNeverContradictsHistory`, `ServiceShades` | `WebProofs` | `WebInv == TablesInv /\ ChartInv /\ ReportInv`: what the collector promises about the tables, and what each page holds given that. A chart is read from closed rows that stay closed. |
| `NoneMissingStays`, `LiveIsFresh`, `HealthAgrees` | `WebProofs` | `ReportInv`: a report's coverage speaks of closed minutes before its clock; LIVE is derived from a checkpoint whose data are in the tables (`CheckpointsAreBacked`). |
| `ObservationAlwaysFits` | `WebProofs` | while Redis answers. `ObservationIsRead` says what each of the four statements leaves of the history it saw; `FinishedRunsStay` keeps it true until the last one has run, and `CountIsBounded` relates the count of failures to the newest SUCCESS. |
| `DashboardTypeCorrect`, `DetailTypeCorrect` | `WebProofs` | every partial report is typed for the statement the request is at (`WatchedInv`). |
| `RestTypeCorrect`, `RetryAfterAlwaysRespected`, `PauseAlwaysBounded` | `RestProofs` | `RestInv` adds `Owing` (only a sleeping call owes the exchange a pause, at most the one it sleeps), `Recovering` and `Pausing` (the sleeps of a call and of `run_forever` follow each other at most once before the next request). |
| `RecoveriesUseUpTheirCalls` | `RestProofs` | from `RestInv`, one case for each answer; an exception ends the recovery or leaves the symbol. |
| `OnlyWholeDumps`, `OneBackupAtATime`, `NewestIsKept`, `NothingIsLeft` | `BackupProofs` | `BackupInv` adds `Copied` (what is about to be renamed is whole or gone) and `Verified` (a script that goes on to retention has a usable dump, a dump in work is too young to expire, lemma `YoungIsKept`); so what expires is older than a usable backup, which is the guard of `Remove` in `BackupArchive`. `Tidy` says where a script has a restore container or may have a partial file, and that anything else is in `unremoved`. |
| `BackupTypeCorrect`, `SuccessIsRestorable` | `BackupProofs` | from `BackupInv`: the retention loop is reached with a verified dump only, and expires none that is young. |
| `StaleLocksAreExplained` | `BackupProofs` | `LockHasOwner`: behind a lock is a script at work or one that `LeftItsLock`: killed, stopped before its trap was set, or with a removal that failed. It is inductive as it stands, because every other end runs the trap to its end. |
| `PagesTypeCorrect`, `PagesNeverRegress` | `PagesProofs` | `PagesInv`: a page has one request out at most, and what that request has read is no older than what the page shows and no newer than the tables. |

Three of these bound a disagreement of the list above. The code does not keep
what the document says, and the theorem says how far it does: the only minutes
`v_join` can lose are those between the start of a connection and the opening of
its WebSocket (`OnlyTheJoinIsMissed`); the partial values of `v_final` need a lost
connection, a failure of the database or Redis, or the end of the process
(`ClosedRowsGetFinalValuesUnlessDisconnected`); a finished run is rewritten only
when Redis fails (`FinishedRunsStay`).

`RedisAnswers` and `ConnectionHolds`, the hypotheses of the last two and of
`ObservationAlwaysFits`, say that no fault has happened or that the constant
`Faults` leaves out those that matter. The first makes them true of a prefix of
every behaviour, the second of whole behaviours.

**Only model-checked.** The properties of the disagreements, which are false.
Liveness under fairness (`ReturnsToService`,
`RunsSettle`, `EveryCallEnds`, `ComesBackAfterOutage`, `LockIsReleased`,
`OverviewConverges`, `DetailFollowsItsMarket`) and anything with ENABLED are
beyond the installed provers, as are induction over data and RECURSIVE operators;
no module here uses the latter two. `RecoveryMakesProgress` and
`CallsMakeProgress` are the part of `RunsSettle` and `EveryCallEnds` that is a
safety property, and are proved. Every other property of a passing run is proved.

## Not modelled

- A clock of the process that differs from the exchange's: REST candles are stored
  as closed whatever their close time (`binance.py:110`), so a clock that is
  ahead stores the open minute as a closed row with partial values. The row is
  the one `v_final` shows; the models have one clock.
- A lost acknowledgement of a commit, except as a commit followed by a failure of
  the next step; the one in `_mark_all_disconnected` is not among them.
- Two scripts started within the same second: backup names have that resolution
  (`backup_postgres.sh:47`), so a second one let in by the first one's trap could
  share its `.partial` file. Each script of the model has files of its own.
- An answer to `/events` other than 200, after which a browser would not reconnect:
  `app/web/main.py` answers 200 always and subscribes inside the stream.
- The PowerShell variants of the two scripts: the same commands in the same
  order, without signals.
- `--retention-days 0`, the script's default: the retention loop is then skipped,
  which is what the model does when nothing has expired.
- `/health`, whose answer nothing in the program uses; the 422 for a window the
  pages never ask for.
- Prices, the trade list, the list of recent runs, formatting and drawing: shown
  as read, decided on by nothing.
- Parsing of settings, migrations, the start order of containers: no behaviour
  after the start.
- `latest_closed_candle` and `fetch_aggregate_trades`, which nothing calls, and
  the key `cache_snapshot` writes (`collector.py:296`), which nothing reads; its
  failure is part of `LiveStepFails`.

## Plan

Done, in this order: `Coverage`, `MarketRepository`, `Collector`,
`CandleContract`, `Dashboard`, `MarketDetail`, because everything else reads what
the collector writes; then `RestClient`, `Backup` with `BackupArchive`, `Pages`,
the composition `WebServer`, and the proofs over them.

Left:

1. A second clock in `Collector`, to state when a REST candle may be stored as
   closed; and event ages in seconds for RECOVERED against the health check's
   limit.
2. A lost acknowledgement as a fault of its own in `MarkAllDisconnected`.
