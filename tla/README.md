# Verification of hermes-secmon

TLA+ models of secmon, TLC runs that check them on small instances, and TLAPS
proofs of what holds for every instance. `PROJECT.json` lists the parts of the
system, the runs, a mutant for each property of a passing run, the source lines
behind every definition, the findings, the hazards and the theorems. Paths below
are relative to the repository; `state.py` stands for `src/secmon/state.py`, and
so on.

    tlc -workers 2 -config StateFileOutage.cfg MCStateFile.tla
    tlapm StateFileProofs.tla

## 1. The system

secmon is a host monitor without a daemon. Every mode (`--tick`, `--check`,
`--record`, `--daily`, `--detect-botnet`, `--status`, `--audit`, `--bpf-watch`,
`--bpf-baseline`, `--bpf-watchlist`) is a short process started by cron through a
delivery script, by the Hermes plugin, or by hand. It loads one JSON document,
works on it in memory, and saves it. All coordination between modes goes through
that document and the lock file beside it, and through the host itself (the
firewall); there are no threads or callbacks inside a process.

| Component | State it keeps | Operations | What is hard | What makes it correct |
|---|---|---|---|---|
| state store (`state.py`) | `state.json`, its lock, its `.tmp`, one snapshot a day | `load_state`, `save_state`, pruning, migrations | overlapping processes, kills, disk errors, power loss | a load sees one document stored as a whole; nothing is lost silently; pruning keeps the newest |
| modes (`modes/*`, `__main__.py`) | the document in memory | one run per process | up to three saves per run, kills by the timeout | what a run saves agrees with what it has reported |
| alert pipeline (`alerts.py`) | `dedup_store`, the log file | `is_duplicate`, `mark_dispatched`, `dispatch` | windows, a crash between log and save | reported once per window; never marked without being reported |
| threat checks (`checks/*`) | `known_ports_output`, `active_ssh_sessions`, bans, outbound trackers | one function per check, isolated by `run_checks` | a failed probe looks like an empty host | a change of the host is reported before it is taken for known |
| baselines, anomalies (`baseline.py`, `anomaly.py`, `metrics.py`) | samples, averages, stale counts, cooldowns, the cached measurement | record, compute, detect | three clocks that silence, gates with zero deviation, outages | the baseline is that of the kept samples; nothing unannounced is silenced |
| BPF monitoring (`bpf/*`) | watchlist, baseline, last alert state, auditd counters | watch, audit, promote, clear | identity across reload and reboot, repeat alerts, failed listings | the watchlist tells what is loaded; an unchanged kernel causes no finding |
| botnet blocking (`botnet.py`) | the chain BOTNET, `rules.v4`, `last_botnet_check` | detect and block, unblock | overlapping runs, half-applied blocks, failed commands, boots | what is dropped was reported; the saved rules are the chain; an attack is blocked |
| remediation (`remediate.py`) | the host | one handler per finding | the host changes after the audit, calls fail | only what was found is touched; only what is fixed is silenced |
| deep audit (`audit/*`) | ports, file hashes, SUID files, users, groups, keys, persistence, services; score trend | `run_audit` | baselines that swallow changes, failed probes, `/proc` that changes while it is read | a change is told before it becomes the baseline; what stays is found |
| plugin (`secmon_plugin/*`) | none of its own | `run_mode` | a second save after the mode's own | the same as for the store |
| delivery scripts (`scripts/*.py`) | none | run a mode, filter its output, send it | timeout, silenced lines, requests that fail after the mark was saved | what lasts is sent in the end; no line is dropped by a job that ends well |
| configuration, output, installers | none at run time | | | |

`PROJECT.json` gives the status of each and lists the hazards, each at its line.

## 2. Modules

| Module | Of | Uses |
|---|---|---|
| `StateRegister` | abstract specification of the store | |
| `StateFile` | `state.py`, mode starts of `__main__.py`, the plugin's extra save | `INSTANCE StateRegister` |
| `TickAlerts` | `modes/tick.py`, `modes/check.py`, `checks/ports.py`, `checks/ssh_session.py`, `alerts.py` | |
| `Blocking` | `botnet.py` in `--tick` and `--detect-botnet` | |
| `AuditBaselines` | the baselines of `audit/*`, `modes/audit_mode.py`, the audit inside `modes/tick.py` | |
| `Anomaly` | `baseline.py`, `anomaly.py`, `metrics.py`, `modes/record.py` | |
| `Remediate` | `remediate.py`, the checks it answers, the `--audit` run around it | |
| `Delivery` | `scripts/tick.py`, `scripts/audit.py`, printing and marking in `alerts.py` | |
| `ProcessScan` | `audit/process.py` | |
| `BpfClassifier` | `bpf/classifier.py`, pure operators | |
| `BpfWatch` | `bpf/watcher.py`, `bpf/watchlist.py`, `bpf/audit.py`, `modes/bpf.py`, the scan of `bpf/collector.py` | extends `BpfClassifier` |

`MCX` gives the constants of `X` their values, `XProofs` holds the theorems about `X`; those about
`BpfWatch` and `Anomaly` are in `BaselineProofs`, which share the induction over numbers.

How they fit together: the modules other than `StateFile` work above a store whose
load and save are single steps. That is what `StateRegister` says, and what
`RefinesRegister` shows of `StateFile`. What overlapping runs do to the document is a
question of `StateFile` alone; `Blocking` lets runs overlap because the firewall is
shared outside the document. `TickAlerts` treats deduplication within `dispatch`;
`AuditBaselines`, `Anomaly` and `Delivery` have the windows of their own keys,
`Remediate` and `Blocking` end where an alert is handed to `dispatch`.

Definitions whose comment begins with "Mutant" are not part of any specification.
Each is a plausible mistake in the operator it precedes, and TLC finds the property
named in `PROJECT.json` violated when it takes that operator's place.

### StateRegister

A register whose content is replaced as a whole: `Load` copies it to the process,
`Store` writes the loaded document plus any updates of its own, `Forget` ends the
process. `Flush`, `Outage` and `Damage` are the medium. It promises no atomic
read-modify-write, because the code does not have one (section 4).

### StateFile

A document is the set of updates recorded in it, so that a lost update is a
missing element. A file is a record: whether the name exists, its document, whether the
JSON text is complete, whether the bytes were synced. `files` is what names refer to
now, `durable` what they refer to after a power loss. Initially nothing is stored, or
just a document.

| Action | Code |
|---|---|
| `Start` | `main` picks the mode; `load_state` tests for the file before it locks |
| `LockShared`, `Read` | `load_state` under `LOCK_SH`; a text that is not JSON becomes `default_state()` |
| `Work` | the mode changes its document and calls `save_state`; `SavesOf` counts the calls per mode |
| `LockExclusive` | `save_state` under `LOCK_EX` |
| `OpenTmp`, `WriteTmp`, `SyncTmp`, `Replace` | `_atomic_write`, first for `state.json`, then for the snapshot |
| `BeginSnapshot` | the snapshot's name, from the clock, after the state write |
| `Prune` | `_prune_snapshots`; any subset of the removals may fail |
| `SaveError`, `Unlock` | an `OSError` at any of these steps; `finally` releases the lock |
| `Finish`, `Kill` | the process ends, or dies or raises at any step; the kernel drops its flock |
| `Flush`, `PowerLoss`, `Damage`, `NextDay` | the operating system, the medium, the calendar |

Power loss is the usual model of a journalling file system: a name refers to what it
referred to when its directory entry was last committed, and a file that was
renamed without fsync may come back incomplete.

### TickAlerts

A run goes `idle`, `ports`, `ssh`, (`digest` in a tick), `dispatch`, `save`, `idle`, and may be
killed between any two steps. It changes `mem`, its copy of the document; only
`Digest` and `Finish` write `disk`. The document is the part the pipeline reads:
the last output of `ss`, the active sessions, the dedup times and the day of the
last digest. The host opens and closes ports and connections while a run goes on or
between runs; the operator edits the whitelist between runs.

`FirstIps` is worth a note. `_peer_ips` takes the first address on each line of
`ss -tnp`, which is the *local* end of the connection. The dedup key, the active
session and the message are then all about an address of the host itself. The
model follows the code: `SessionReported` and `NoRepeat` speak of the address the code
extracts, and what the specification says of peers is `PeerAlerted`, which is violated.

A new alert is told by a line in the log (`Report`) or, if the log cannot be written, which
`dispatch` ignores, when all new alerts are printed (`Show`); until then it is in `unlogged`.
`reported` and the history variables describe what was told: `accounted` (ports in
the first snapshot or reported as opened), `unheard` (addresses not reported since
a saved run saw them absent), `repeated` (keys reported again too early), and `lapsed`
(keys taken for known in one of the two ways in which the code loses an alert: the
digest saved the document before the alert was dispatched, or the document before
held the empty output of a failed `ss`). `session` counts appearances of an address
among the sessions, so that "the same session" has a meaning.

### Blocking

The chain is a sequence of subnets, as iptables lists it, so that a rule can be in
it twice. A run lists the journal and the chain once (`List`), takes the subnets over
the thresholds one by one (`Skip`, `Block`, `Raise`), and after each rule saves the rules
in three steps (`Dump`, `Write`, `Persist`); then it dispatches and saves the document.
`run_cmd` does not look at the exit code, so a refused `iptables -A` is reported as a
block. `Raise` is the `IndexError` of `_is_whitelisted` on an IPv6 address, which nothing
catches. `Reboot` restores the chain from the file; `Unblock` is the
operator who calls `unblock_subnet` or `flush_botnet_chain` (nothing in the program does), in one step of which any part may fail.

### AuditBaselines

Eight kinds of baseline share one module: `kind` is chosen at the start of a
behaviour, and `Reports`, `NewBase`, `Comparable`, `Hidden`, `Raises` and `Alerts` say for each
kind what is news, whether the baseline is replaced or merged, what a probe that
fails looks like and what becomes an alert. `told` is what the operator was last
told each item is: by an alert when its severity is HIGH or above, by the saved
findings otherwise. `excuse` names the items whose baseline may differ from it, and
each way to get there is one line of the code: a baseline that is not compared with
while it is empty, a key file seen for the first time, the exception of the layer
`auth`, an alert suppressed as a duplicate, a kill or failed save after the dispatch
or after the digest.

### Anomaly

One metric. Mean and deviation are kept as count, sum and sum of squares, and the gates
compare integers exactly. A run is one step: it measures or takes the cached value,
detects, dispatches and perhaps records. Three mechanisms silence an anomaly, each with
its own clock: the count of values within a tenth of each other, the cooldown that
`last_flagged_anomalies` starts, and the dedup window. `outcome` is what the last
detection came to, and `announced` says whether its direction had been alerted. `bridged`
remembers that a `--record` came before the first tick after an outage, which is what hides the gap from the
rule of 72 hours.

### Remediate

Things are what paths, packages and units name, whatever is there at the moment. They are in
places (`/tmp`, `/etc`, `sudoers.d`, a home, ...), and `Finds` says which checks can find what there; `Seen` adds that a
private key in a temporary directory is found as that unless it is found world-readable. An audit
collects the findings; then `Handle` takes them in the order of the layers, while the host changes at any time: a thing
gets a flaw (`Spoil`), comes, is replaced or put right (`Appear`), or goes (`Vanish`). A handler skips a
finding, cannot act on it, removes, changes the mode, installs, or rewrites a file of
`sudoers.d` in three steps (`ReadRules`, `TruncateRules`, `WriteRules`), between which the name may come to mean another
file (`held`); `Return` files the finding under what the code makes of it.
The finding on `authorized_keys` names `/home/<user>`; in the place `shadowed` the home is elsewhere and another file has
that name, whose mode the handler sets (`Misnamed`). `Alerts` is what is left for `dispatch`. The history variable
`excused` holds the files whose last rewrite was killed or failed after the open, or overwrote a change made since the read.

### Delivery

A job of cron: `Start` runs secmon up to its output, `Save` saves the marks, `Deliver` is the
script (`SilentTick`, `NoToken`, `NothingToSend`, `Send`), `Timeout` the kill. Alerts differ in
how they are printed: `Line` on one line with the hint that `DISPATCH_PATTERN` looks for,
`Routine` the same but matched by the list of routine patterns, `Block` on two lines with an
explanation between. `setup` is where the token is: both scripts take that of the `.env` file
or else that of the environment.

### ProcessScan

The audit lists `/proc`, runs `ps`, and then goes through the list in loop after loop
(names, parents, children, memory maps, executables, users), one process per step,
while processes fork, execute and exit. `family` is the ancestor below init a process came
from, `steady` whether it has stayed as it was since the listing. `was` are pairs of what the
loop over the table could have read of a process (parent and kind) and what it was then or
later, since that loop and the one over the users judge a process together. Opening `stat`,
`cmdline` and `exe` of a process is one read, and secmon's `comm` and command line are one name.

### BpfClassifier and BpfWatch

`BpfClassifier` is the score, the state the score leads to, the systemd whitelist
and the guard of promotion, with strings reduced to what the patterns look for.

`BpfWatch` makes one step of each run of the watcher (`Watch`), of the audit (`Audit`), of
`--bpf-baseline promote` (`Promote`) and of `--bpf-watchlist clear` (`Clear`). The
kernel's objects change between runs: load, unload, attach, detach, pin, another
holder, maps created, held and freed, reboot, after which identifiers start again.
These actions are external: they are modelled from what bpftool and `/proc` show to
`collect_bpf_scan`. A listing that fails (programs, maps, links, cgroups, devices) looks like
an empty one, as it does in the code, and so do the lookups for a single program: without `systemctl`
its loader has no unit, without `dpkg` no package, and without a dump of the bytecode the
key is made of tag, name and the schema of the maps, in which their identifiers take part.

Inside `Watch` the order of the code is kept: `Inspect` is the loop body for one
entry with the `last_alert_state` it reads and sets, `Renamed` stores the inspected
entries under the key their program has now (in any dictionary order), and
`UpdateFromScan` then absorbs every listed program by key or, failing that, by
identifier, and marks the rest vanished. `findings` holds what the run returns; a
finding is about the object its message names (`AuditFindings` are those of the audit).
Two history variables say what a run can know: `unchanged`, that no object changed and no call but
the listing of programs failed since some complete scan; `current`, that nothing changed at all since the last
complete scan. The finding of `check_audit_gap`, which a run of the watcher adds when the counters of auditd grew, is left out.

## 3. Runs

| Run | Instance | Properties |
|---|---|---|
| `StateFileOutage` | 2 processes, one run each of an audit (1 save) or status (0 saves), 2 days, `Keep` = 1, 2 power losses, 1 damage, fairness | `NeverTorn`, `StaleOnlyByOverlap`, `Exclusion`, `SnapshotMatchesState`, `RefinesRegister`, `PruneSparesNewest`, `RunEnds` |
| `StateFileLostUpdate` | a tick and an audit | `NoLostUpdate`, violated |
| `TickAlerts` | ticks, 1 port, 1 local address, 1 remote, 2 sessions, 2 days, 2 faults (whitelist edits, kills, failed saves, probes and log writes), fairness | `NewPortReported`, `SessionReported`, `DedupImpliesReported`, `NoRepeat`, `PortNoticed` |
| `TickPeers` | ticks and checks, 2 remote addresses, no fault | `PeerAlerted`, violated |
| `Blocking` | a tick and a run of `--detect-botnet`, an IPv4 and an IPv6 source, 2 hits for a block, 3 events (kills, failures, boots, unblocks, runs by hand), fairness | `SilentOnlyByDeath`, `TwiceOnlyByRace`, `BootRestoresChain`, `AttackBlocked` |
| `AuditBaselines` | 2 items, one of which is HIGH and the other of a kind without content, 2 values, all eight kinds, 1 fault (probe, kill or save), fairness | `RemovalIsNews`, `BaselineIsTold`, `NothingToldTwice`, `ChangeTold` |
| `Anomaly` | values 0, 20 and 22, 2 samples for a baseline, windows of 2 slots, outage of 3, 4 kept, fairness | `TypeOK`, `BaselineOfSamples`, `SilenceAnnounced`, `StaleEnds` |
| `Remediate` | 1 thing in any of 16 places and 1 in `/tmp` or `sudoers.d`, all handlers, all but one, none; 3 changes of the host at any time, 1 fault, fairness | `RulesKept`, `HostProtected`, `SilencedIsFixed`, `FixedInTheEnd`, `FixedOrTold` |
| `Delivery` | one alert of each shape, windows of 1 and 2 slots, the token in any place, 1 check by an operator, 1 fault, fairness | `MarkedIsSent`, `LineNotDropped`, `RepeatOnlyIfUnsaved`, `LastingIsSent` |
| `DeliverySilenced` | the same alerts, no fault | `SilencedIsRoutine`, violated |
| `ProcessScan` | 3 processes of nine kinds in any tree, maps of 2 of them, 1 hidden process named, 1 change of the process table | `SteadyIsFound`, `FoundWasSo`, `AuditSpared` |
| `BpfLifecycle` | 3 variants (a tracer, one that uses a `prog_array`, `sd_devices`), 1 link, 1 kind of map, 2 program and 2 map identifiers, 4 kernel events, 1 scan in which a listing fails (programs, maps, or links and cgroups) or the lookups for a program do (dump, or `systemctl` and `dpkg`) | `BpfTypeOK`, `WatchlistTracksKernel`, `WatchIdempotent`, `PromotionGuarded` |

Why the bounds are enough:

* *StateFile.* Every conflict is between two processes: one that holds or waits for
  the lock and another. Two days and `Keep` = 1 make pruning remove something; two
  power losses let the second one hit the recovery from the first. The modes with two
  or three saves differ from the audit in the number of saves only; what the run shows
  of its safety properties is proved for all modes and bounds (section 6).
* *TickAlerts.* Keys are independent: the code treats each port and each address on
  its own, except that the sessions of one address share an entry, which one local
  and one remote address with two appearances already show. A day later the window
  is over. Two faults, of one kind or two, can hit the same alert in successive runs; a
  whitelist edit undone is two. `--check` differs from a tick in that it has no digest,
  which `SkipDigest` shows of a tick.
* *Blocking.* Two runs are all that cron and one operator start at once; a third finds
  the chain as the second does. Subnets do not interact except through the `IndexError` of an
  IPv6 address, so one of each kind is enough; with two hits for a block one source can
  be over the threshold twice.
* *AuditBaselines.* Items of one kind interact in two ways: a failing listing hides all
  of them, and some baselines are not compared with while they are empty. Two items show
  both. One fault is what each exception in `BaselineIsTold` needs.
* *Anomaly.* Metrics do not interact. 20 and 22 are within a tenth of each other and 0 is
  far from both; a baseline of two samples already has deviation zero or not; `Outage` lies
  between the slot of a sample and `Keep`.
* *Remediate.* Findings interact only when they are about one thing; the second thing is
  there for handlers that touch what they should not, and the two places it may be in are those where handlers
  remove and rewrite. Three changes spoil a thing in two ways and replace it, or fall between each two steps of a rewrite.
* *Delivery.* What is sent depends on which shapes of alerts were printed together, not on how many of each.
* *ProcessScan.* Three processes make the longest chain that matters: a process, its
  parent and its grandparent. Two maps leave one process beyond the limit, and so does one name of hidden ones. One change
  already falls between any two of the reads.
* *BpfWatch.* Two program identifiers are needed for an entry and a program that
  takes its place, or for twins with one key, and two map identifiers for twins of which
  one has the entry; four events for load, change, reboot
  (or unload), load again. One bad scan may lose a listing or what is looked up for the first program; the proofs are about any set of failing calls. Watch, audit, promote and clear are not bounded.

Deadlock is not checked where the bounds let everything stop: all runs used up,
all events spent. No run uses symmetry.

Fairness. In every module only steps of the program that the scheduler owes and the passing of time are
fair; faults, changes of the host, runs by hand and the operator never are.

* `StateFile`: weak fairness of each process's own steps. A started process is scheduled,
  and a flock request waits only for holders that are scheduled, too, or die.
* `TickAlerts`: the process never stays as it is for ever. Cron starts a tick every few minutes and a run
  that is not killed goes on. The faults are finite in number; that the port reaches the
  snapshot after the last of them is what `PortNoticed` says.
* `Blocking`: a tick starts again and again, each started run goes on, six hours pass.
  `AuditBaselines`, `Anomaly`: time passes and ticks run; in `AuditBaselines` it passes however often an operator starts
  `--audit`, hence strong fairness of `PassTime`. `Remediate`: `--audit` is run
  again and again, as its cron job is.
* `Delivery`: each of the two jobs has its hour again and again although the other may be
  running when it comes, hence strong fairness of `Start` and of `PassTime`; a started
  job goes on.

## 4. What the properties say

*Store.* `Exclusion`: the flock keeps writers from readers and from each other,
also after a kill or an error. `NeverTorn`: no name ever refers to half a document,
now or after a power loss, unless the medium damages the file. `SnapshotMatchesState`: the
snapshot is the very document just saved. `StaleOnlyByOverlap`: the only thing a run
can be missing is what overlapping runs saved after it loaded. `PruneSparesNewest`:
a snapshot disappears only when `Keep` newer ones stay. `RunEnds`: no run blocks for
ever. `RefinesRegister`: seen from a mode, all of it is the register.

*Alerts.* `NewPortReported` and `SessionReported`: what the saved document takes for
known or active has been reported, with a kill, a failed save or a failing probe
anywhere, but for what `lapsed` names. `DedupImpliesReported`: no crash, and no log that cannot be written, leaves a dedup
entry for an alert that is neither in the log nor printed. `NoRepeat`: without crashes, no port is repeated
within the window and no session while it lasts. `PortNoticed`: a port that stays open
reaches the snapshot in spite of the faults.

*Blocking.* `SilentOnlyByDeath`: what is dropped, now or after a boot, was reported or is
about to be, unless its run died. `TwiceOnlyByRace`: no rule is doubled except by
a run that could not see the first. `BootRestoresChain`: with `netfilter-persistent`, and
nothing failed or killed on the way, the file is the chain whatever overlaps.
`AttackBlocked`: an attack that goes on is blocked, unless an IPv6 address raises.

*Baselines of the audit.* `BaselineIsTold`: what is taken for known is what the
operator was last told, with the exceptions of `excuse`. `NothingToldTwice`: no alert repeats
what was told; a failing probe alone is no exception to either. `ChangeTold`: a
change that stays is told in the end, unless the saved baseline already holds it and the item is one of `excuse` or a file that was
missing (`TakenOver`): no run that dies loses a change as long as the baseline on disk is the old one, but the losses that `excuse` names are
not made good. `RemovalIsNews`: no port of the saved baseline is among those whose
removal counts as reported.

*Anomalies.* `BaselineOfSamples`: whichever modes record, trim or clear, the baseline is that of
the samples kept, which are a slot apart and not too old, and span no outage unless a `--record` bridged it. `SilenceAnnounced`: the three mechanisms
together never silence an anomaly that was not alerted. `StaleEnds`: a metric that stays
where it is becomes its own baseline.

*Remediation.* `HostProtected`: a handler changes only the thing its finding names; it removes only
in `/tmp`, and only what still is what was found or has changed since the audit (`os.remove` does not look, so a file that replaced
the one found is deleted); it takes away no flaw but what the new mode ends, and brings no file back but one of `sudoers.d` that was
removed after it was found. `SilencedIsFixed`: resolved means gone, but for the finding that names another file and for a file
of `sudoers.d` that was replaced while it was written. `RulesKept`: whatever the
host does meanwhile, a file of `sudoers.d` is without its owner's rules only during the rewrite, or if this very rewrite was killed or failed after
the open, or overwrote a change made after the file was read.
`FixedInTheEnd`, `FixedOrTold`: when the host leaves off changing, what can be fixed is, and
what is HIGH and is not is in the alerts of every run, unless its finding names another file.

*Delivery.* `LineNotDropped`: a job that ends well has sent every line that is not routine, and
an audit every finding. `RepeatOnlyIfUnsaved`: no message repeats an alert within its window, unless a mark was lost.
`MarkedIsSent`: a mark stands for a message; only a fault, an operator's `--check`, a missing token or the shape of the
line lets an alert be silenced that was not sent. `LastingIsSent`: what lasts is sent although a failed request is not repeated, because the mark expires.

*Process scan.* `SteadyIsFound`: what is suspicious and stays so is found, whatever other processes do. The exceptions are in the
property: mappings are found in the first `MaxMaps` processes that are not of the family of a secmon process, and of
hidden processes only the first `MaxNamed` are named. `FoundWasSo`: what a finding says was so during the audit, and a shell was a
child of the very process that is named as its parent. Not all of it was so at one moment: a process of another user in `/tmp`
that then executes a program of root's is reported as root's process in `/tmp`, a shell's parent may have been a web server at another moment,
and a hidden process may have exited or `ps` failed. `AuditSpared`: the audit, what it descends from and
their children are not taken for hollowed. It is about that loop only: the check of parents and children spares nobody, and a
shell that the audit descends from is reported if its parent's name is that of a web server (`python` is one).

*BPF.* `WatchlistTracksKernel`: after any run with a complete listing the watchlist
is exactly what the kernel holds, whatever keys and identifiers did before.
`WatchIdempotent`: once the watcher has seen an unchanged kernel in full, it finds nothing about programs and maps, also when the
program listing failed in between, when entries were promoted or cleared, or when boots moved
identifiers before. Any other call that fails makes objects look changed, and is the exception the property names. `PromotionGuarded`: right after a complete scan, neither a program of a guarded type nor one that
uses a `prog_array` gets into the baseline, unless the map was promoted or has a newer twin.

Each violated run is a disagreement between the code and what the repository says
of it:

* `NoLostUpdate` (`StateFileLostUpdate`). The docstring of `_state_lock` says the lock
  prevents concurrent instances from clobbering each other's updates through
  read-modify-write. Lock and unlock happen inside `load_state` and again inside
  `save_state`, so an audit that loads before a tick saves and saves after it
  removes everything the tick saved. `StaleOnlyByOverlap` is what does hold.
* `PeerAlerted` (`TickPeers`). SECURITY-AUDIT-SPEC.MD:659-663 promises an alert with the peer's
  IP for any connection from an address that is not whitelisted, once per peer. `_peer_ips` extracts the local
  address, so the alert names the host, a second peer is no new session, and a
  whitelisted peer is never recognised as such. `SessionReported` is what does hold.
* `SilencedIsRoutine` (`DeliverySilenced`). The comment at `scripts/tick.py:136` says that only
  routine findings are silenced there. An audit finding is printed with a line break before its
  hint, which `DISPATCH_PATTERN` does not match; beside a routine line the branch is taken,
  and the finding, already marked, is not sent.

## 5. Seen while modelling

Not violated runs, because they follow from one step of the code, because a property
names them as its exception, or because no document says otherwise.

*Store*

* A state file with bytes that are not UTF-8 raises `UnicodeDecodeError`, which `load_state` does not catch
  (`state.py:147`): unlike a file that is not JSON it ends every mode, until it is repaired by hand. In `StateFile` that is a `Kill`.

*Checks and dispatch*

* The digest saves the document before the alerts of the tick are dispatched
  (`modes/tick.py:82`); a kill in between loses them. `--check` has no such save.
* A failing `ss` is stored as the snapshot; the next run has nothing to compare with
  and takes every port for known (`checks/ports.py:51`).
* A whitelisted address leaves `active_ssh_sessions` but keeps its dedup entry
  (`checks/ssh_session.py:33`), which suppresses its next session once it is taken off the list.
* An alert that cannot be written to the log counts as dispatched all the same (`alerts.py:108`); it is
  printed, so a kill before that loses it until the next run, which starts from the saved document.
* `ss 'dport = :22'` lists the connections whose remote port is 22, those that the host opens itself.
* "New listening port" and "Listening port closed" share one dedup key.

*Blocking*

* An IPv6 address over the thresholds raises `IndexError` (`botnet.py:54`); the whole tick ends with it,
  with the alerts of every check, until the address leaves the journal.
* The whitelist is asked about the address `.1` of a subnet only, and
  `bulletproof_prefixes` is part of the whitelist.
* `unblock_subnet` matches text, so 1.2.3.0 also matches 21.2.3.0/24; nothing in the program calls it.
* A refused `iptables -I` or `-A` counts as success. `rules.v4` is truncated before it is written, and an error of the write is
  logged only (`botnet.py:79`); without `netfilter-persistent` the next boot then starts without the chain's rules.

*Deep audit*

* An item that entered a baseline unseen: an `authorized_keys` file seen first, services and timers after
  a `systemctl` that failed and left the baseline empty. A second change of one item within six hours has the
  key of the first and is suppressed. Deleted users and keys stay in the baseline; a critical file that is back as it was is silent.
* `reported_removed_ports` never suppresses anything, since a removed port leaves `known_ports` at once.
* `--audit` does not stamp `last_audit_check`. A deep audit longer than the 180 s of the tick job
  would be started again by every tick, because the stamp is saved at the end.
* The self-protection checks of SECURITY-AUDIT-SPEC.MD:693-703 are not in the code.
* `/proc` is listed before `ps` runs, so a process that exits between the two is reported as hidden, as is
  every process when `ps` fails; the finding names the ten lowest identifiers. A failing `sysctl` reads as `modules_disabled` relaxed. The executable and the user of a process
  are read at two moments. Children of any ancestor of a secmon process are spared; grandchildren only in some orders of the set.

*Anomalies*

* The rule of 72 hours looks at the last sample: a `--record` before the first tick after an
  outage hides the gap. Checks within the cache time count one measurement twice. A lasting anomaly
  is not alerted again, nor is a larger one within the hour; anomalous samples become the baseline. A value inside the gates does not reset the stale count.

*Remediation and delivery*

* A kill or a failed write between truncating and rewriting a file of `sudoers.d` leaves it empty (`remediate.py:230`). A change
  made between the read and the open is overwritten, and a file removed there comes back. A second NOPASSWD line
  of the same file stays open until the next audit, and a comment that says NOPASSWD is no rule but keeps `remediate.py:225` from returning
  early: it is then rewritten, without the word, when the file has been found for a rule that is gone.
* `os.remove` deletes what has the name when it runs, also what replaced the file that was found (`remediate.py:78`, `:91`, `:159`).
* After `chmod 600` a world-readable private key in a temporary directory is found as `secret_key_tmp` by the next audit (`audit/threat_intel.py:228`).
* The finding on failed units names no unit, so the handler that restarts units never acts;
  the one on `authorized_keys` names `/home/<user>` whatever the home is: if another file is there, its mode is set and the finding counts as resolved.
* The tick does not remediate, `--audit` does when configured.

*BPF*

* A program the watcher sees for the first time in an alert state is stored without
  a finding; the next deep audit reports it.
* `last_alert_state` is one field for links, loaders and scores: a link sets it to `alert_high`, and a
  later rise of the score to that state is silent (`bpf/watcher.py:33`).
* An entry whose key is gone is matched by identifier (`bpf/watcher.py:154`), and identifiers start again at boot:
  it may be a program of the baseline, which is then reported.
* Programs with one stable key share one entry. The last listed decides its state,
  and a whitelisted one removes the entry of the others.
* A `prog_array` map can be promoted, and leaves the watchlist by that; from then
  on nothing holds back a program that uses it. `PromotionGuarded` names this case.
* Two `prog_array` maps of one name and size share one entry, that of the newer. A program that uses the older one
  can be promoted, since the guard looks for the identifier in the entry. `PromotionGuarded` names this case, too.
* A failing listing of the links stores programs without links, and the next run reports the old links as
  new; one of cgroups, devices or links, or a failing dump, changes the keys; one of the maps stores programs with the score they have without maps, and the next run reports the rise.
  A `systemctl` or `dpkg` that fails or takes too long adds 25 or 20 points and reports a rise at once (`bpf/classifier.py:142`). `unchanged` excepts these runs from `WatchIdempotent`;
  a failing listing of the programs needs no exception.
* `/proc/<pid>/status` has no line `Cgroup` (`bpf/provenance.py:50`), so the loader's cgroup is empty and its unit is always that of `systemctl`.
  An executable that was deleted also counts as one of no package.
* A map never scores more than 30, so the branch of the watcher that reports a high-risk
  map (`bpf/watcher.py:207`) is never taken. Every line of `auditctl` with "backlog" in it sets one counter.

## 6. Proofs

Each `XProofs` proves its theorems for any values of the constants that satisfy the named
`ASSUME`s of `X`, and from nothing else: sets of processes, items, alerts and things of
any size, any windows and thresholds, any bounds on faults.

| Module | Theorems | State the property |
|---|---|---|
| `StateFileProofs` | `TypeCorrect`, `ExclusionHolds`, `NeverTornHolds`, `SnapshotMatches`, `LossOnlyByOverlap`, `FileRefinesRegister`, `NewestSpared` | `TypeOK`, `Exclusion`, `NeverTorn`, `SnapshotMatchesState`, `StaleOnlyByOverlap`, `RefinesRegister`, `PruneSparesNewest` |
| `TickAlertsProofs` | `TypeCorrect`, `NewPortsReported`, `SessionsReported`, `EntriesReported`, `NothingRepeated` | `TypeOK`, `NewPortReported`, `SessionReported`, `DedupImpliesReported`, `NoRepeat` |
| `BlockingProofs` | `TypeCorrect`, `BlocksReported`, `DoublesRaced`, `FileIsChain` | `TypeOK`, `SilentOnlyByDeath`, `TwiceOnlyByRace`, `BootRestoresChain` |
| `AuditBaselinesProofs` | `TypeCorrect`, `RemovalsAreNews`, `BaselinesAreTold`, `AlertsAreNew` | `TypeOK`, `RemovalIsNews`, `BaselineIsTold`, `NothingToldTwice` |
| `BaselineProofs` | `BpfTypes`, `WatchlistTracks`, `WatchIsIdempotent`, `PromotionIsGuarded` | `BpfTypeOK`, `WatchlistTracksKernel`, `WatchIdempotent`, `PromotionGuarded` |
| `BaselineProofs` | `AnomalyTypes`, `BaselineIsOfSamples`, `SilenceIsAnnounced` | `TypeOK`, `BaselineOfSamples`, `SilenceAnnounced` of `Anomaly` |
| `RemediateProofs` | `TypeCorrect`, `HostIsProtected`, `SilencedAreFixed`, `RulesAreKept` | `TypeOK`, `HostProtected`, `SilencedIsFixed`, `RulesKept` |
| `DeliveryProofs` | `TypeCorrect`, `LinesSent`, `RepeatsUnsaved`, `MarksSent` | `TypeOK`, `LineNotDropped`, `RepeatOnlyIfUnsaved`, `MarkedIsSent` |
| `ProcessScanProofs` | `TypeCorrect`, `FindingsWereSo`, `SteadyFound`, `AuditIsSpared` | `TypeOK`, `FoundWasSo`, `SteadyIsFound`, `AuditSpared` |

Hardly any of the properties is inductive by itself. The strengthenings, and why they are needed:

*StateFile.* `IInv == LockInv /\ TmpInv /\ FilesInv /\ StaleOnlyByOverlap`.
`LockInv` ties the lock to the program counters (who is saving holds `LOCK_EX`, who
reads holds `LOCK_SH`) and says that an exclusive holder is alone; `Exclusion` follows.
`TmpInv` describes the tmp file at each step of `_atomic_write`: after `WriteTmp` it
is complete and holds the document of the process, after `SyncTmp` it is synced. It
needs `LockInv`, since all writers use one tmp name. `FilesInv` says that what a name
refers to is complete and synced; `Replace` preserves it because of `TmpInv`, and `PowerLoss`
because a synced file survives. `NeverTorn` follows, and so does the refinement: a
load reads a complete document, `Replace` on the state file is the register's
`Store`, and every other step of a save is a stutter. Snapshots need two more parts:
`ClockInv` says that no snapshot is from the future and the one being written is the
newest, so pruning spares it; `SnapshotInv` follows the document from the state file
through the tmp file of the snapshot to its name. For `NewestSpared`, the newest of the
expired snapshots (it exists because the days have a greatest element with any property
some day has, which the lemma `Latest` gets from the well-foundedness of the naturals)
has `Keep` newer ones, and none of those is expired.

*TickAlerts.* `ControlInv` says what a run has in memory at each program counter. `PortInv` and `SessionInv`
extend the two "reported" properties to the document in memory, where the alerts still pending or not printed yet count;
`SessionInv` needs to know besides that only active sessions have dedup entries. `DedupInv` extends
`DedupImpliesReported` to the document in memory, where an entry may also be that of an alert still to be printed (`Untold`). `RepeatInv`: as long as no run was killed and
every save worked, the entry of a port is the time of its last report, and the entry of an address lasts as long
as the session it was reported in.

*Blocking.* `SilentInv` asks of the rules a run has dumped what `SilentOnlyByDeath` asks of chain and file, since they are on
their way to the file; `ReportedInv` says which runs have no alerts pending. `RaceInv` does the same for doubled rules, with
`KnownInv`: a run that blocks knows the chain but for what it could not see, hence a second rule is a race.
`BootInv`: if the file differs, a run is about to save the rules.

*AuditBaselines.* `RemovedInv`: a port reported as removed is not in the baseline. `RunInv`: an item of
the new baseline has been told, is in an alert not dispatched yet, or will be told by the save.
`DiskInv`: the saved baseline agrees with the operator, except for alerts that were dispatched or whose baseline
the digest saved. `NewsInv`: an alert of the run says something new, and no save says it instead. It does so
without an exception for failed probes, which shows that such a probe makes no audit repeat itself.

*Anomaly.* `FlagInv` ties two clocks: a direction in cooldown for some slots was alerted less than an hour
before that. So a value in cooldown, or suppressed as a duplicate, was announced within a cooldown and an hour,
and no count of equal values begins with an anomaly nobody was told of (`AnnouncedInv`). `BaselineInv` is
about the samples: any two are a slot apart (`Spaced`), the last record is no older than the last sample (`Paced`), a
list that ends in a fresh sample is within the time kept (`Recent`), the baseline is computed from just these samples, and a gap
was bridged. As the samples are in order of age, what `Trimmed` leaves is a suffix (`TrimmedIs`), so trimming
removes a gap or keeps its two ends together and never makes one.

*BpfWatch.* `BpfInv` has the invariants of kernel and document, and two that tell what the watchlist owes to the last scan.
`Tracks` is `WatchlistTracksKernel` stated for any watchlist and scan. `Describes` is weaker and survives more, namely
promotions, clears and scans without programs: an entry that has not vanished has the metadata and
the class of the last object with its key. It is what `WatchIdempotent` needs, since a link, a pin, a loader or a class that
the entry has already is no news. The heart is that `UpdateFromScan` establishes `Tracks` from
whatever watchlist there was (`UpdateTracks`): after each program absorbed, the entry of every key whose last program up to there has
been seen stands for that program, because an entry that stands has the identifier of its own program, so no later program takes it over by identifier. `PromotionGuarded` follows, since the metadata the guard reads are then those of the loaded objects.

*Recursion in BaselineProofs.* `AbsorbPrograms`, `AbsorbMaps` and `Trimmed` are recursive functions over the numbers up to a bound.
`Recursion` shows that such a function exists, `CountUp` that what holds of 0 and goes from `n` to `n + 1` holds up to the
bound; both get their induction from the well-foundedness of the order of the naturals.

*Remediate.* `HostInv`: what is wrong with a thing is what is found at such a place (`Sound`), and what is not there has nothing
wrong. `TodoInv`: the findings still to handle could be found where they are, and what a handler would remove is what was found
unless it changed. `RewriteInv`: one file of `sudoers.d` is rewritten at a time, it is there unless it changed, and once it was opened and is still the
file of that name it has no such rule. Two theorems are about single steps of the handlers, from this invariant;
`RulesInv` adds to `RulesKept` that as long as the file is the one that was read, the rules read are the owner's or the file is excused.

*Delivery.* `AgeInv`: a mark is at least as young as the message it belongs to, so what is not a duplicate was
not sent within the window. `PrintInv`: what a tick prints it also marks, and it had no mark. `MarkInv`: the marks of
a job are stored, or all of them count as unsaved. `QuietInv`: as long as nothing disturbed the jobs, the mark of an alert
is as old as its last message, but for those a tick has just stored and will send.

*ProcessScan.* `TableInv` is about the process table and what is remembered of it, `ListInv` says that the listing holds the
steady processes, `ClusterInv` that the cluster has only processes of families with a secmon process, `InfoInv` that what was
read of a process was so, `HiddenInv`, `LoopInv` and `FoundInv` what the comparison with `ps` and each loop have
found so far. `SteadyIsFound` is what `LoopInv` and `HiddenInv` say when the last loop is over. `SparedInv` is about the
line from the audit up to init, the least set that holds the audit and with each process its parent. As long as the line is steady it is the same
line (`LineStays`), the loop over the names brings the audit into the cluster, the climb brings in what is above: of the line, a part of
the cluster is closed under parents but for the process that is climbed next (`Climbed`), and when the climb ends at init that part is all of the line.

## 7. Only model-checked

* Liveness under fairness: `RunEnds`, `PortNoticed`, `AttackBlocked`, `ChangeTold`, `StaleEnds`,
  `FixedInTheEnd`, `FixedOrTold`, `LastingIsSent`.
* That fair steps stay enabled, on which each of these rests.

Every safety invariant and action property that a run checks is proved. The proofs are about
the models: what `BpfClassifier` takes from a name or a type, and the external actions of the kernel and the host, are as
section 2 describes them.

## 8. Not modelled, and what could come next

Not modelled for good: configuration, output and wording, argument parsing, the
shell installers, the skills (no state of the running system). Parsing of the output of `ss`,
`bpftool`, `fail2ban-client` and `/proc` is abstracted to what the parsers extract. The checks
of `checks/*` and `audit/*` that compare one output with a threshold or a constant keep no
state another step could contradict; neither do scores and `scripts/daily.py`, which sends a text.

What remains, in the order of what it would add:

1. The migrations v1 to v4 of `state.py`, as a function on documents with sections that may be missing.
2. The auditd counters of `bpf/auditd.py` across failed calls and reboots.
3. `checks/fail2ban.py` and `checks/outbound.py`, whose trackers age out of the document, and the trend of `audit/trends.py`.
4. The deep audit in line of a tick against the time-out of 180 s, in `Delivery`.
