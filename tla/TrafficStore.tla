----------------------------- MODULE TrafficStore -----------------------------
(***************************************************************************)
(* The traffic accounting of admin-api/src/traffic.rs: packet threads add  *)
(* to atomic counters, the flusher thread moves them into hourly rows of   *)
(* the database, and the admin thread reports over both.                   *)
(*                                                                         *)
(* A meter is one of the two counters of one device.  The counters are     *)
(* read one by one, so the packet threads run in between; the statements   *)
(* of a transaction are one step, the commit.  Bytes are counted in units  *)
(* and names are left out.                                                 *)
(***************************************************************************)
EXTENDS Integers, FiniteSetsExt

CONSTANTS
    Meter,           \* the counters: a device and a direction
    RetentionHours,  \* RETENTION_HOURS
    ReportHours,     \* the hours a report covers
    Legacy,          \* what the legacy TOML file holds: hour -> meter -> units
    MaxAdded,        \* bound: units added to one meter
    MaxHour,         \* bound: the clock
    MaxBoot          \* bound: starts of the daemon

Hour == 0..MaxHour

TrafficAssumption ==
    /\ RetentionHours \in Nat /\ ReportHours \in Nat \ {0}
    /\ MaxAdded \in Nat /\ MaxHour \in Nat /\ MaxBoot \in Nat
    /\ Legacy \in [Hour -> [Meter -> Nat]]

VARIABLES
    now,             \* the current hour
    up, boot,        \* whether the daemon runs, and for which time
    counter,         \* DeviceTrafficCounter, by meter
    rows,            \* traffic_hourly: hour -> meter -> units
    migrated,        \* the LEGACY_MIGRATION_KEY row of traffic_metadata
    flush,           \* the call of flush_at in progress
    report,          \* the call of report_at in progress, or the last one
    added,           \* history: units added to each meter
    lost,            \* history: units of each meter a crash lost
    expired          \* history: units that were past the retention when they were deleted

vars == <<now, up, boot, counter, rows, migrated, flush, report, added, lost, expired>>

Zero == [m \in Meter |-> 0]
Plus(f, g) == [m \in Meter |-> f[m] + g[m]]
Sleeping == [at |-> "sleep", todo |-> {}, hour |-> 0, pending |-> Zero]
NoReport == [at |-> "none", todo |-> {}, hour |-> 0, total |-> Zero]

\* The units of each meter in the rows of some hours.
SumRows(table, hours) ==
    [m \in Meter |-> MapThenSumSet(LAMBDA h : table[h][m], hours)]

Init ==
    /\ now = 0 /\ up = FALSE /\ boot = 0
    /\ counter = Zero
    /\ rows = [h \in Hour |-> Zero]
    /\ migrated = FALSE
    /\ flush = Sleeping /\ report = NoReport
    /\ added = Zero /\ lost = Zero /\ expired = Zero

HourPasses ==
    /\ now < MaxHour
    /\ now' = now + 1
    /\ UNCHANGED <<up, boot, counter, rows, migrated, flush, report, added, lost, expired>>

\* open; migrate_legacy_toml imports the old file in the transaction that
\* records the import.
open ==
    /\ ~up /\ boot < MaxBoot
    /\ up' = TRUE /\ boot' = boot + 1
    /\ rows' = IF migrated THEN rows ELSE [h \in Hour |-> Plus(rows[h], Legacy[h])]
    /\ migrated' = TRUE
    /\ UNCHANGED <<now, counter, flush, report, added, lost, expired>>

\* add_upload, add_download
add(m) ==
    /\ up /\ added[m] < MaxAdded
    /\ counter' = [counter EXCEPT ![m] = @ + 1]
    /\ added' = [added EXCEPT ![m] = @ + 1]
    /\ UNCHANGED <<now, up, boot, rows, migrated, flush, report, lost, expired>>

FlushStarts ==
    /\ up /\ flush.at = "sleep"
    /\ flush' = [at |-> "take", todo |-> Meter, hour |-> now, pending |-> Zero]
    /\ UNCHANGED <<now, up, boot, counter, rows, migrated, report, added, lost, expired>>

\* One swap of take_pending.
take_pending(m) ==
    /\ flush.at = "take" /\ m \in flush.todo
    /\ flush' = [flush EXCEPT !.todo = @ \ {m}, !.pending[m] = counter[m]]
    /\ counter' = [counter EXCEPT ![m] = 0]
    /\ UNCHANGED <<now, up, boot, rows, migrated, report, added, lost, expired>>

FlushEmpty ==
    /\ flush.at = "take" /\ flush.todo = {} /\ flush.pending = Zero
    /\ flush' = Sleeping
    /\ UNCHANGED <<now, up, boot, counter, rows, migrated, report, added, lost, expired>>

\* persist_pending commits: the upserts, and the delete of what is too old.
persist_pending ==
    /\ flush.at = "take" /\ flush.todo = {} /\ flush.pending # Zero
    /\ LET upserted == [rows EXCEPT ![flush.hour] = Plus(@, flush.pending)]
           old == {h \in Hour : h < flush.hour - RetentionHours}
       IN /\ rows' = [h \in Hour |-> IF h \in old THEN Zero ELSE upserted[h]]
          /\ expired' = Plus(expired, SumRows(upserted, {h \in old : h < now - RetentionHours}))
    /\ flush' = Sleeping
    /\ UNCHANGED <<now, up, boot, counter, migrated, report, added, lost>>

\* persist_pending failed and was rolled back.
PersistFails ==
    /\ flush.at = "take" /\ flush.todo = {} /\ flush.pending # Zero
    /\ flush' = [flush EXCEPT !.at = "restore", !.todo = Meter]
    /\ UNCHANGED <<now, up, boot, counter, rows, migrated, report, added, lost, expired>>

\* One addition of restore_pending.
restore_pending_overwrites(m) ==
    /\ flush.at = "restore" /\ m \in flush.todo
    /\ counter' = [counter EXCEPT ![m] = flush.pending[m]]
    /\ flush' = IF flush.todo = {m} THEN Sleeping
                ELSE [flush EXCEPT !.todo = @ \ {m}, !.pending[m] = 0]
    /\ UNCHANGED <<now, up, boot, rows, migrated, report, added, lost, expired>>

restore_pending(m) ==
    /\ flush.at = "restore" /\ m \in flush.todo
    /\ counter' = [counter EXCEPT ![m] = @ + flush.pending[m]]
    /\ flush' = IF flush.todo = {m} THEN Sleeping
                ELSE [flush EXCEPT !.todo = @ \ {m}, !.pending[m] = 0]
    /\ UNCHANGED <<now, up, boot, rows, migrated, report, added, lost, expired>>

\* report_at reads the database first ...
load_buckets ==
    /\ up /\ report.at # "peek"
    /\ report' = [at |-> "peek", todo |-> Meter, hour |-> now,
                  total |-> SumRows(rows, {h \in Hour : h <= now /\ h > now - ReportHours})]
    /\ UNCHANGED <<now, up, boot, counter, rows, migrated, flush, added, lost, expired>>

\* ... and then the counters, one by one.
peek_pending(m) ==
    /\ report.at = "peek" /\ m \in report.todo
    /\ report' = [report EXCEPT !.todo = @ \ {m}, !.total[m] = @ + counter[m]]
    /\ UNCHANGED <<now, up, boot, counter, rows, migrated, flush, added, lost, expired>>

ReportReturned ==
    /\ report.at = "peek" /\ report.todo = {}
    /\ report' = [report EXCEPT !.at = "done"]
    /\ UNCHANGED <<now, up, boot, counter, rows, migrated, flush, added, lost, expired>>

\* The daemon stops; a transaction that has not committed leaves no trace.
Crash ==
    /\ up
    /\ up' = FALSE
    /\ lost' = Plus(lost, Plus(counter, flush.pending))
    /\ counter' = Zero /\ flush' = Sleeping /\ report' = NoReport
    /\ UNCHANGED <<now, boot, rows, migrated, added, expired>>

Next ==
    \/ HourPasses \/ open \/ Crash
    \/ FlushStarts \/ FlushEmpty \/ persist_pending \/ PersistFails
    \/ load_buckets \/ ReportReturned
    \/ \E m \in Meter :
          add(m) \/ take_pending(m) \/ restore_pending(m) \/ peek_pending(m)

Spec == Init /\ [][Next]_vars

-------------------------------------------------------------------------------

\* No counter, row or total is ever negative, and each call is at one of its
\* own steps.
TypeOK ==
    /\ now \in Hour /\ up \in BOOLEAN /\ boot \in Nat
    /\ counter \in [Meter -> Nat]
    /\ rows \in [Hour -> [Meter -> Nat]]
    /\ migrated \in BOOLEAN
    /\ flush \in [at : {"sleep", "take", "restore"}, todo : SUBSET Meter,
                  hour : Hour, pending : [Meter -> Nat]]
    /\ report \in [at : {"none", "peek", "done"}, todo : SUBSET Meter,
                   hour : Hour, total : [Meter -> Nat]]
    /\ added \in [Meter -> 0..MaxAdded]
    /\ lost \in [Meter -> Nat] /\ expired \in [Meter -> Nat]

\* What was imported from the legacy file, once.
Imported(m) == IF migrated THEN SumRows(Legacy, Hour)[m] ELSE 0

\* Every unit that was counted or imported is in exactly one place: a counter,
\* the flush in progress, a row, or among those a crash took or that were past
\* their retention.  A failed or repeated flush, a repeated import and a flush
\* that began in an earlier hour change nothing.
TrafficConserved ==
    /\ TypeOK
    /\ \A m \in Meter :
        counter[m] + flush.pending[m] + SumRows(rows, Hour)[m] + lost[m] + expired[m]
            = added[m] + Imported(m)

\* A report never shows more than was counted, however the flusher runs while
\* the report reads the database and the counters.
ReportNeverOvercounts ==
    report.at = "done" =>
        \A m \in Meter : report.total[m] <= added[m] + Imported(m) - lost[m]
===============================================================================
