---------------------------- MODULE LoggerHistory ----------------------------
(***************************************************************************)
(* The history of one data logger: the raw rows and the accounting of its  *)
(* batches in PostgreSQL, the job that captures a batch when it is due,    *)
(* the retention that removes old batches, the API requests that change    *)
(* the logger, and the broker that announces committed batches.            *)
(*                                                                         *)
(* datalogger/postgres/history_repository.go, datalogger/service.go,       *)
(* datalogger/retention_runtime.go, datalogger/committed_batches.go.       *)
(*                                                                         *)
(* Every transaction that touches the history takes the row of the logger  *)
(* FOR UPDATE first, or deletes a row that such a transaction references,  *)
(* so a transaction is one action here.  What runs between transactions,   *)
(* the capture, an update in four steps, a cleanup with the time read      *)
(* before it, the publication after the commit, interleaves.  The unit of  *)
(* time is the interval of the logger; every row has size one.             *)
(***************************************************************************)
EXTENDS Integers, FiniteSets, FiniteSetsExt, Functions, Sequences, TLC

CONSTANTS
    Tags,         \* the tags that may be recorded
    Clients,      \* callers of the API that update the logger
    Policies,     \* the retention policies that may be set
    NoLimit,      \* a limit of a policy that is not set
    MaxTime,      \* bound of the clock
    MaxUpdates,   \* bound of the updates of the API
    MaxCrashes,   \* bound of the restarts of the process
    BatchLimit,   \* batches removed by one cleanup
    WriteLimit,   \* batches removed by the retention of a write or update
    Buffer        \* capacity of a subscription of committed batches

ASSUME HistoryAssumption ==
    /\ IsFiniteSet(Tags) /\ NoLimit \notin Nat /\ NoLimit \notin Policies
    /\ Policies \subseteq [size : Nat \cup {NoLimit}, age : Nat \cup {NoLimit}]
    /\ MaxTime \in Nat \ {0}
    /\ MaxUpdates \in Nat /\ MaxCrashes \in Nat
    /\ BatchLimit \in Nat \ {0}
    /\ WriteLimit \in Nat \ {0}
    /\ Buffer \in Nat \ {0}

VARIABLES
    now,       \* the clock
    tags,      \* the rows of the table tags
    logger,    \* the row of the logger and the tags it selects
    rows,      \* tag_values_raw, a set of <<tag, batch time>>
    accounts,  \* data_logger_batches: batch time -> row_count
    job,       \* the running capture job
    cleaner,   \* the retention runtime
    request,   \* the update each client has under way
    updates,   \* updates so far
    crashes,   \* restarts so far
    sub        \* a subscription of the broker

history == <<now, tags, logger, rows, accounts, job, cleaner, request, updates,
             crashes>>
historyVars == <<history, sub>>

Times == 1 .. MaxTime
NoRequest == [step |-> "idle", policy |-> NoLimit, selected |-> {}]

Updates == [step : {"idle", "found", "validated", "committed"},
            policy : Policies \cup {NoLimit}, selected : SUBSET Tags]

HistoryTypeOK ==
    /\ now \in Times
    /\ tags \subseteq Tags
    /\ logger \in [exists : BOOLEAN, policy : Policies, selected : SUBSET tags]
    /\ rows \subseteq tags \X Times
    /\ DOMAIN accounts \subseteq Times /\ accounts \in [DOMAIN accounts -> Nat]
    /\ job \in [phase : {"off", "waiting", "capturing", "publishing"},
                at : 1 .. now + 1, tags : SUBSET Tags]
    /\ job.phase \in {"capturing", "publishing"} => job.at <= now
    /\ cleaner \in [step : {"idle", "listed"}, at : 0 .. now]
    /\ request \in [Clients -> Updates]
    /\ \A c \in Clients : request[c].step # "idle" => request[c].policy \in Policies
    /\ updates \in 0 .. MaxUpdates /\ crashes \in 0 .. MaxCrashes
    /\ sub \in [open : BOOLEAN, lagged : BOOLEAN, queue : Seq(Times)]
    /\ Len(sub.queue) <= Buffer

HistoryInit ==
    /\ now = 1
    /\ tags = Tags
    /\ \E p \in Policies :
          logger = [exists |-> TRUE, policy |-> p, selected |-> Tags]
    /\ rows = {} /\ accounts = <<>>
    /\ job = [phase |-> "waiting", at |-> 1, tags |-> Tags]
    /\ cleaner = [step |-> "idle", at |-> 0]
    /\ request = [c \in Clients |-> NoRequest]
    /\ updates = 0 /\ crashes = 0
    /\ \E o \in BOOLEAN : sub = [open |-> o, lagged |-> FALSE, queue |-> <<>>]

-----------------------------------------------------------------------------
(* Reading the history.                                                     *)

SizeOf(acc, S) == MapThenSumSet(LAMBDA a : acc[a], S)

Expired(policy, acc, at) ==
    {a \in DOMAIN acc : policy.age # NoLimit /\ a < at - policy.age}

(* The newest batch that age leaves is larger than the size allowed.        *)
LimitTooSmall(policy, acc, at) ==
    LET kept == DOMAIN acc \ Expired(policy, acc, at)
    IN  policy.size # NoLimit /\ kept # {} /\ acc[Max(kept)] > policy.size

(* Faulty variant: a batch is not counted in the storage it is judged by.   *)
CandidatesOneShort(policy, acc, at) ==
    LET expired == Expired(policy, acc, at)
        kept == DOMAIN acc \ expired
        overflow(a) == /\ policy.size # NoLimit
                       /\ SizeOf(acc, {b \in kept : b > a}) > policy.size
    IN  expired \cup {a \in kept : overflow(a)}

(* Retention removes what is expired and then the oldest of the others,     *)
(* until what is left fits.                                                 *)
Candidates(policy, acc, at) ==
    LET expired == Expired(policy, acc, at)
        kept == DOMAIN acc \ expired
        overflow(a) == /\ policy.size # NoLimit
                       /\ SizeOf(acc, {b \in kept : b >= a}) > policy.size
    IN  expired \cup {a \in kept : overflow(a)}

(* Faulty variant: the newest candidates go first.                          *)
NewestFirst(S, n) == {a \in S : Cardinality({b \in S : b >= a}) <= n}

Oldest(S, n) == {a \in S : Cardinality({b \in S : b <= a}) <= n}

RowsAt(at) == {r \in rows : r[2] = at}

(* ListBatches: the accounted batches of a range and, if asked for, the     *)
(* closest one on each side of it.                                          *)
BatchesBetween(from, to, neighbours) ==
    LET before == {a \in DOMAIN accounts : neighbours /\ a < from}
        after == {a \in DOMAIN accounts : neighbours /\ a > to}
    IN  {a \in DOMAIN accounts : from <= a /\ a <= to}
            \cup (IF before = {} THEN {} ELSE {Max(before)})
            \cup (IF after = {} THEN {} ELSE {Min(after)})

-----------------------------------------------------------------------------
(* The transactions.                                                        *)

(* The rows of the batches go and their accounting with them.               *)
deleteRetentionBatches(rs, acc, S) ==
    /\ rows' = {r \in rs : r[2] \notin S}
    /\ accounts' = Restrict(acc, DOMAIN acc \ S)

enforceRetention(rs, acc) ==
    /\ ~LimitTooSmall(logger.policy, acc, now)
    /\ deleteRetentionBatches(rs, acc,
          Oldest(Candidates(logger.policy, acc, now), WriteLimit))

(* A captured batch may hold tags that are no longer selected.              *)
validateSelectedRawTags == job.tags \subseteq logger.selected

(* The rows of the batch that are not there yet; the others stay.           *)
insertRawBatch == {<<t, job.at>> : t \in job.tags} \ rows

refreshBatchStorage(rs) ==
    [a \in DOMAIN accounts \cup {job.at} |->
        IF a = job.at THEN Cardinality({r \in rs : r[2] = a}) ELSE accounts[a]]

captureDone == [job EXCEPT !.phase = "waiting", !.at = @ + 1]

(* WriteBatch checks the selection under the lock, inserts what is not      *)
(* there yet, accounts the batch, applies the retention, and reads back     *)
(* what it announces after the commit.                                      *)
WriteBatch ==
    LET rs == rows \cup insertRawBatch
    IN  /\ job.phase = "capturing"
        /\ logger.exists /\ validateSelectedRawTags
        /\ enforceRetention(rs, refreshBatchStorage(rs))
        /\ job' = IF insertRawBatch # {} /\ \E r \in rows' : r[2] = job.at
                  THEN [job EXCEPT !.phase = "publishing"] ELSE captureDone
        /\ UNCHANGED <<now, tags, logger, cleaner, request, updates, crashes, sub>>

(* The transaction fails and leaves nothing; the scheduler reports it and   *)
(* goes on to the next batch.                                               *)
WriteBatchFails ==
    /\ job.phase = "capturing"
    /\ \/ ~logger.exists
       \/ ~validateSelectedRawTags
       \/ LimitTooSmall(logger.policy, refreshBatchStorage(rows \cup insertRawBatch),
                        now)
    /\ job' = captureDone
    /\ UNCHANGED <<now, tags, logger, rows, accounts, cleaner,
                   request, updates, crashes, sub>>

(* The broker hands the batch to every subscriber, and closes the one whose *)
(* buffer is full.                                                          *)
closeSubscription(s) == [s EXCEPT !.open = FALSE]

PublishCommittedBatch ==
    /\ job.phase = "publishing"
    /\ sub' = CASE ~sub.open -> sub
                [] sub.open /\ Len(sub.queue) < Buffer ->
                      [sub EXCEPT !.queue = Append(@, job.at)]
                [] OTHER -> [closeSubscription(sub) EXCEPT !.lagged = TRUE]
    /\ job' = captureDone
    /\ UNCHANGED <<now, tags, logger, rows, accounts, cleaner, request,
                   updates, crashes>>

-----------------------------------------------------------------------------
(* The job of the logger.                                                   *)

(* The timer of the batch fires, late by any delay: what was missed is      *)
(* skipped.                                                                 *)
Wake ==
    /\ job.phase = "waiting" /\ job.at <= now
    /\ job' = [job EXCEPT !.phase = "capturing", !.at = now]
    /\ UNCHANGED <<now, tags, logger, rows, accounts, cleaner, request,
                   updates, crashes, sub>>

(* The runtime of the loggers replaces a job after the logger changed.      *)
Reconcile ==
    /\ job.phase \in {"off", "waiting"}
    /\ job.tags # logger.selected
    /\ job' = [job EXCEPT !.phase = IF logger.selected = {} THEN "off"
                                    ELSE "waiting",
                          !.at = now, !.tags = logger.selected]
    /\ UNCHANGED <<now, tags, logger, rows, accounts, cleaner, request,
                   updates, crashes, sub>>

-----------------------------------------------------------------------------
(* The requests of the API.                                                 *)

(* Update reads the logger and normalises what the caller changes; what the *)
(* caller leaves alone is written back as it was read.                      *)
UpdateFind(c) ==
    /\ updates < MaxUpdates /\ request[c].step = "idle"
    /\ logger.exists
    /\ \E p \in Policies, s \in {logger.selected, tags} \ {{}} :
          request' = [request EXCEPT ![c] =
                         [step |-> "found", policy |-> p, selected |-> s]]
    /\ updates' = updates + 1
    /\ UNCHANGED <<now, tags, logger, rows, accounts, job, cleaner, crashes,
                   sub>>

(* The newest batch, read without a lock, must fit.                         *)
ValidateStorageLimit(size) ==
    size = NoLimit \/ accounts = <<>> \/ accounts[Max(DOMAIN accounts)] <= size

UpdateValidate(c) ==
    /\ request[c].step = "found"
    /\ request' = [request EXCEPT
          ![c] = IF ValidateStorageLimit(request[c].policy.size)
                 THEN [@ EXCEPT !.step = "validated"] ELSE NoRequest]
    /\ UNCHANGED <<now, tags, logger, rows, accounts, job, cleaner,
                   updates, crashes, sub>>

(* The row and the selection are replaced, unless the logger is gone or a   *)
(* tag of the selection is.                                                 *)
UpdateCommit(c) ==
    /\ request[c].step = "validated"
    /\ IF logger.exists /\ request[c].selected \subseteq tags
       THEN /\ logger' = [logger EXCEPT !.policy = request[c].policy,
                                        !.selected = request[c].selected]
            /\ request' = [request EXCEPT ![c].step = "committed"]
       ELSE /\ request' = [request EXCEPT ![c] = NoRequest]
            /\ UNCHANGED logger
    /\ UNCHANGED <<now, tags, rows, accounts, job, cleaner, updates, crashes, sub>>

(* EnforceRetention applies the policy of the request, if it is still the   *)
(* stored one.                                                              *)
EnforceRetention(expected) ==
    IF /\ logger.exists /\ logger.policy = expected
       /\ ~LimitTooSmall(logger.policy, accounts, now)
    THEN enforceRetention(rows, accounts)
    ELSE UNCHANGED <<rows, accounts>>

(* Whatever it answers, what was committed stays.                           *)
UpdateEnforce(c) ==
    /\ request[c].step = "committed"
    /\ EnforceRetention(request[c].policy)
    /\ request' = [request EXCEPT ![c] = NoRequest]
    /\ UNCHANGED <<now, tags, logger, job, cleaner, updates, crashes, sub>>

(* The tables that reference the logger are emptied with it.                *)
Delete ==
    /\ logger.exists
    /\ logger' = [logger EXCEPT !.exists = FALSE, !.selected = {}]
    /\ rows' = {} /\ accounts' = <<>>
    /\ UNCHANGED <<now, tags, job, cleaner, request, updates, crashes, sub>>

(* Deleting a tag removes it from the selection and removes its rows; the   *)
(* accounting of the batches is not touched.                                *)
DeleteTag(t) ==
    /\ t \in tags
    /\ tags' = tags \ {t}
    /\ logger' = [logger EXCEPT !.selected = @ \ {t}]
    /\ rows' = {r \in rows : r[1] # t}
    /\ UNCHANGED <<now, accounts, job, cleaner, request, updates, crashes, sub>>

-----------------------------------------------------------------------------
(* The retention runtime: the loggers with a policy are listed, the time is *)
(* read once, and then each of them is cleaned.                             *)

ListRetention ==
    /\ cleaner.step = "idle"
    /\ logger.exists
    /\ logger.policy.size # NoLimit \/ logger.policy.age # NoLimit
    /\ cleaner' = [cleaner EXCEPT !.step = "listed", !.at = now]
    /\ UNCHANGED <<now, tags, logger, rows, accounts, job, request,
                   updates, crashes, sub>>

CleanupRetention ==
    /\ cleaner.step = "listed"
    /\ IF logger.exists /\ ~LimitTooSmall(logger.policy, accounts, cleaner.at)
       THEN deleteRetentionBatches(rows, accounts,
               Oldest(Candidates(logger.policy, accounts, cleaner.at),
                      BatchLimit))
       ELSE UNCHANGED <<rows, accounts>>
    /\ cleaner' = [cleaner EXCEPT !.step = "idle"]
    /\ UNCHANGED <<now, tags, logger, job, request, updates, crashes, sub>>

Tick ==
    /\ now < MaxTime
    /\ now' = now + 1
    /\ UNCHANGED <<tags, logger, rows, accounts, job, cleaner, request,
                   updates, crashes, sub>>

(* A consumer that does nothing but read.                                   *)
Receive ==
    /\ sub.queue # <<>>
    /\ sub' = [sub EXCEPT !.queue = Tail(@)]
    /\ UNCHANGED history

(* The process stops at any point and comes back: what is in memory is      *)
(* gone, the job and the cleaner start again.                               *)
CrashHistory ==
    /\ crashes < MaxCrashes
    /\ crashes' = crashes + 1
    /\ job' = [phase |-> IF logger.selected = {} THEN "off" ELSE "waiting",
               at |-> now, tags |-> logger.selected]
    /\ cleaner' = [cleaner EXCEPT !.step = "idle"]
    /\ request' = [c \in Clients |-> NoRequest]
    /\ UNCHANGED <<now, tags, logger, rows, accounts, updates>>

Crash == CrashHistory /\ sub' = [sub EXCEPT !.queue = <<>>]

Capturing == Wake \/ WriteBatch \/ WriteBatchFails \/ PublishCommittedBatch

Updating(c) == \/ UpdateFind(c) \/ UpdateValidate(c)
               \/ UpdateCommit(c) \/ UpdateEnforce(c)

HistoryNext ==
    \/ Capturing \/ Reconcile
    \/ \E c \in Clients : Updating(c)
    \/ Delete \/ \E t \in Tags : DeleteTag(t)
    \/ ListRetention \/ CleanupRetention
    \/ Tick \/ Receive \/ Crash

Storage == SizeOf(accounts, DOMAIN accounts)

(* The history is over the limit of its policy and can be brought below it. *)
OverLimit ==
    /\ logger.exists /\ logger.policy.size # NoLimit
    /\ Storage > logger.policy.size
    /\ ~LimitTooSmall(logger.policy, accounts, now)

(* The runtime cleans at every tick of its timer, for ever.                 *)
HistoryFairness == WF_historyVars(ListRetention) /\ WF_historyVars(CleanupRetention)

HistorySpec == HistoryInit /\ [][HistoryNext]_historyVars /\ HistoryFairness

-----------------------------------------------------------------------------
(* Properties.                                                              *)

(* The accounting that retention decides on covers the rows: no row is in a *)
(* batch retention does not know of, no batch is counted smaller than it    *)
(* is, and until a tag is deleted the count is exact (insertRawBatch,       *)
(* refreshBatchStorage and deleteRetentionBatches in one transaction).      *)
Accounted ==
    /\ HistoryTypeOK
    /\ {r[2] : r \in rows} \subseteq DOMAIN accounts
    /\ \A a \in DOMAIN accounts :
          /\ accounts[a] >= Cardinality(RowsAt(a))
          /\ tags = Tags => accounts[a] = Cardinality(RowsAt(a))

(* What a write, an update or a cleanup removes is older than everything it *)
(* leaves, and the newest batch only goes when it is past the age of the    *)
(* policy, however the steps interleave (selectRetention).                  *)
NewestKept ==
    LET gone == DOMAIN accounts \ DOMAIN accounts'
        seen == DOMAIN accounts \cup DOMAIN accounts'
    IN  logger'.exists =>
          \A g \in gone :
            /\ \A k \in DOMAIN accounts' : g < k
            /\ g = Max(seen) => /\ logger.policy.age # NoLimit
                               /\ g < now - logger.policy.age

(* The accounting is right, and retention removes the oldest.               *)
HistoryKept == []Accounted /\ [][NewestKept]_historyVars

(* A history over the limit of its policy, after an update that was cut off *)
(* before it enforced the policy, or with more batches to remove than one   *)
(* transaction takes, is brought below it (RetentionRuntime.run).           *)
LimitRestored == OverLimit ~> ~OverLimit
=============================================================================
