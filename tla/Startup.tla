------------------------------- MODULE Startup -------------------------------
(***************************************************************************)
(* The start of the server on the database that is there,                  *)
(* internal/models/db.go: migrations that were not applied are applied     *)
(* statement by statement, without a transaction; a repair follows for     *)
(* databases that an earlier version marked wrongly; rows that must exist  *)
(* are inserted; and the secret that device passwords are encrypted with   *)
(* is read or made.  The process may end between any two statements.       *)
(*                                                                         *)
(* The schema is the set of its tables and of the columns that migrations  *)
(* add: <<table>> and <<table, column>>.  Indexes are left out, as nothing *)
(* fails without them.  A generated secret is a number that was not used   *)
(* before; 0 is the empty text.                                            *)
(***************************************************************************)
EXTENDS Naturals, Sequences, FiniteSets

CONSTANTS
    Origins,     \* bound: the databases that may be there at first
    Rules,       \* ids of alert_rules
    Configured,  \* secrets that may be given at the start
    None,
    MaxStops,    \* bound: ends of the process
    MaxFaults    \* bound: statements that fail and whose error is ignored

NumFiles == 5

\* An origin has run the first files, and has marked the first as applied.  The
\* last file was never marked without being run.
ASSUME StartupAssumption ==
    /\ Origins \subseteq [ran : 0 .. NumFiles, marked : 0 .. NumFiles]
    /\ \A o \in Origins : o.marked = NumFiles => o.ran = NumFiles
    /\ None \notin Nat \cup Configured
    /\ Configured \cap Nat = {}
    /\ MaxStops \in Nat /\ MaxFaults \in Nat

-----------------------------------------------------------------------------
(* The statements.                                                         *)

Create(t) == [op |-> "create", on |-> <<t>>]
AddTo(t, c) == [op |-> "add", on |-> <<t, c>>]
Set(t, c) == [op |-> "set", on |-> <<t, c>>]
Use(t) == [op |-> "use", on |-> <<t>>]
Insert(t) == [op |-> "insert", on |-> <<t>>]
Mark(f) == [op |-> "mark", on |-> f]

Files_uncopied ==
  [f \in 1 .. NumFiles |->
     CASE f = 1 -> <<Create("users"), Create("devices"), Create("monitored_interfaces"),
                     Create("alert_rules"), Create("notification_config"),
                     Create("app_settings"), Create("traffic_samples"),
                     Create("alert_history")>>
       [] f = 2 -> <<Create("sessions")>>
       [] f = 3 -> <<AddTo("notification_config", "whatsapp_enabled"),
                     AddTo("notification_config", "telegram_bot_token"),
                     AddTo("notification_config", "telegram_chat_ids"),
                     AddTo("notification_config", "telegram_enabled"),
                     AddTo("alert_rules", "notify_channel"),
                     AddTo("alert_history", "notify_channel")>>
       [] f = 4 -> <<AddTo("alert_rules", "notify_whatsapp"),
                     AddTo("alert_rules", "notify_telegram"),
                     Set("alert_rules", "notify_whatsapp")>>
       [] f = 5 -> <<AddTo("devices", "reboot_schedule_enabled"),
                     AddTo("devices", "reboot_days"), AddTo("devices", "reboot_time"),
                     AddTo("devices", "reboot_last_run_at")>>]
\* The files in migrations/.
Files ==
  [f \in 1 .. NumFiles |->
     CASE f = 1 -> <<Create("users"), Create("devices"), Create("monitored_interfaces"),
                     Create("alert_rules"), Create("notification_config"),
                     Create("app_settings"), Create("traffic_samples"),
                     Create("alert_history")>>
       [] f = 2 -> <<Create("sessions")>>
       [] f = 3 -> <<AddTo("notification_config", "whatsapp_enabled"),
                     Set("notification_config", "whatsapp_enabled"),
                     AddTo("notification_config", "telegram_bot_token"),
                     AddTo("notification_config", "telegram_chat_ids"),
                     AddTo("notification_config", "telegram_enabled"),
                     AddTo("alert_rules", "notify_channel"),
                     AddTo("alert_history", "notify_channel")>>
       [] f = 4 -> <<AddTo("alert_rules", "notify_whatsapp"),
                     AddTo("alert_rules", "notify_telegram"),
                     Set("alert_rules", "notify_telegram"),
                     Set("alert_rules", "notify_whatsapp")>>
       [] f = 5 -> <<AddTo("devices", "reboot_schedule_enabled"),
                     AddTo("devices", "reboot_days"), AddTo("devices", "reboot_time"),
                     AddTo("devices", "reboot_last_run_at")>>]

-----------------------------------------------------------------------------
VARIABLES
    schema,  \* tables and added columns that exist
    marked,  \* files in schema_migrations
    config,  \* the row of notification_config, or None
    flags,   \* the rows of alert_rules that an earlier version left
    secret,  \* server_secret in app_settings: None if there is no row
    pc,      \* where Open is, or "down"
    file,    \* the file being applied, or 0
    left,    \* statements still to run
    cli,     \* the -secret of this start, or None
    key,     \* d.secret of the last start that got so far, or None
    issued,  \* secrets generated so far
    stops, faults,
    unsaved, \* history: a start went on with a secret it failed to store
    cut      \* history: files that an end of the process left half done, so
             \* that they cannot be run again

database == <<schema, marked, config, flags, secret>>
process == <<pc, file, left, cli, key, issued>>
history == <<stops, faults, unsaved, cut>>
startVars == <<database, process, history>>

Steps(f) == Append(Files[f], Mark(f))
Objects(files) ==
    {s.on : s \in UNION {{Files[f][i] : i \in DOMAIN Files[f]} : f \in files}}

Channels == {"whatsapp", "telegram"}

\* A rule is [channel, wa, tg]; what a column that does not exist yet would
\* hold is what it is added with.
NoChannel == [channel |-> "whatsapp", wa |-> TRUE, tg |-> FALSE]

\* A database that is new, or that an earlier version has left.  In a version
\* that had whatsapp_enabled, saving the settings wrote it to enabled too.
Init ==
    /\ \E o \in Origins :
         /\ schema = Objects(1 .. o.ran)
         /\ marked = 1 .. o.marked
         /\ IF o.ran = 0
            THEN /\ config = None /\ secret = None /\ issued = 0
                 /\ flags = [r \in Rules |-> None]
            ELSE /\ \E on \in BOOLEAN :
                      config = [enabled |-> on, whatsapp |-> on /\ o.ran > 2, telegram |-> FALSE]
                 /\ secret \in {0, 1} /\ issued = 1
                 /\ flags \in [Rules -> IF o.ran < 3 THEN {NoChannel} ELSE
                                 {[channel |-> c, wa |-> o.ran = 3 \/ c = "whatsapp",
                                   tg |-> o.ran > 3 /\ c = "telegram"] : c \in Channels}]
    /\ pc = "down" /\ file = 0 /\ left = <<>> /\ cli = None /\ key = None
    /\ stops = 0 /\ faults = 0 /\ unsaved = FALSE /\ cut = {}

-----------------------------------------------------------------------------
(* What a start does.                                                      *)

\* The service manager starts the process, with a secret or without one.
Start(c) ==
    /\ pc \in {"down", "refused"}
    /\ pc' = "bootstrap" /\ cli' = c
    /\ UNCHANGED <<database, file, left, key, issued, history>>

Bootstrap_all ==
    /\ pc = "bootstrap"
    /\ pc' = "files"
    /\ left' = IF marked = {} /\ <<"devices">> \in schema
               THEN [f \in 1 .. NumFiles |-> Mark(f)] ELSE <<>>
    /\ UNCHANGED <<database, file, cli, key, issued, history>>
\* bootstrapMigrations takes a database with devices but without marks for one
\* of a version that did not mark: the first two files are marked, not run.
Bootstrap ==
    /\ pc = "bootstrap"
    /\ pc' = "files"
    /\ left' = IF marked = {} /\ <<"devices">> \in schema THEN <<Mark(1), Mark(2)>> ELSE <<>>
    /\ UNCHANGED <<database, file, cli, key, issued, history>>

\* Open returns, or the process ends in it.
End == pc' = "down" /\ file' = 0 /\ left' = <<>>

\* A file of which a statement ran is run again from its first statement, which
\* only CREATE TABLE IF NOT EXISTS survives; and the first file is taken for
\* done once devices exists.
HalfDone ==
    \/ file = 1 /\ left # <<>> /\ <<"devices">> \in schema
    \/ file > 2 /\ Len(left) \in (IF file \in marked THEN 2 ELSE 1) .. Len(Files[file])

Needs(s) ==
    CASE s = Insert("notification_config") -> {s.on, <<"notification_config", "telegram_enabled">>}
      [] s.op = "set" /\ s.on[1] = "alert_rules" -> {s.on, <<"alert_rules", "notify_channel">>}
      [] s.op = "add" -> {<<s.on[1]>>}
      [] s.op \in {"create", "mark"} -> {}
      [] OTHER -> {s.on}
Fails_created(s) == ~(Needs(s) \subseteq schema) \/ (s.op \in {"add", "create"} /\ s.on \in schema)
\* A statement fails without what it names, and ADD COLUMN also if the column
\* is there.
Fails(s) == ~(Needs(s) \subseteq schema) \/ (s.op = "add" /\ s.on \in schema)

\* The two updates of 004, each of the rules with its channel.
Route(r, column) ==
    IF r = None THEN None
    ELSE IF column = "notify_telegram" /\ r.channel = "telegram"
         THEN [r EXCEPT !.wa = FALSE, !.tg = TRUE]
    ELSE IF column = "notify_whatsapp" /\ r.channel = "whatsapp"
         THEN [r EXCEPT !.wa = TRUE, !.tg = FALSE]
    ELSE r

Effect(s) ==
    /\ schema' = IF s.op \in {"create", "add"} THEN schema \cup {s.on} ELSE schema
    /\ marked' = IF s.op = "mark" THEN marked \cup {s.on} ELSE marked
    /\ config' = CASE s = Set("notification_config", "whatsapp_enabled") /\ config # None ->
                        [config EXCEPT !.whatsapp = config.enabled]
                   [] s = Insert("notification_config") /\ config = None ->
                        [enabled |-> FALSE, whatsapp |-> FALSE, telegram |-> FALSE]
                   [] OTHER -> config
    /\ flags' = IF s.op = "set" /\ s.on[1] = "alert_rules"
                THEN [r \in Rules |-> Route(flags[r], s.on[2])] ELSE flags
    /\ secret' = IF s = Insert("app_settings") /\ secret = None THEN 0 ELSE secret

\* One statement; an error of it ends the start.
Execute ==
    /\ pc \in {"files", "repair", "seed"} /\ left # <<>>
    /\ IF Fails(Head(left))
       THEN End /\ UNCHANGED database
       ELSE /\ Effect(Head(left)) /\ left' = Tail(left)
            /\ UNCHANGED <<pc, file>>
    /\ UNCHANGED <<cli, key, issued, history>>

Apply(f) ==
    /\ file' = f /\ left' = Steps(f)
    /\ UNCHANGED <<database, cli, key, issued, history>>

\* migrate applies the files without a mark in the order of their names.
NextFile ==
    /\ pc = "files" /\ left = <<>>
    /\ \E f \in 1 .. NumFiles \ marked :
         /\ \A g \in 1 .. f - 1 : g \in marked
         /\ Apply(f)
    /\ UNCHANGED pc

FilesDone ==
    /\ pc = "files" /\ left = <<>> /\ marked = 1 .. NumFiles
    /\ pc' = "repair"
    /\ UNCHANGED <<database, file, left, cli, key, issued, history>>

\* repairSkippedMigrations looks at the columns, not at the marks.
Repaired == <<"alert_rules", "notify_whatsapp">> \in schema

Repair ==
    /\ pc = "repair" /\ left = <<>> /\ ~Repaired
    /\ Apply(IF <<"alert_rules", "notify_channel">> \in schema THEN 4 ELSE 3)
    /\ UNCHANGED pc

\* PruneExpiredSessions, and the rows that must exist.
Seed ==
    /\ pc = "repair" /\ left = <<>> /\ Repaired
    /\ pc' = "seed" /\ file' = 0
    /\ left' = <<Use("sessions"), Use("users"), Insert("notification_config"), Insert("app_settings")>>
    /\ UNCHANGED <<database, cli, key, issued, history>>

-----------------------------------------------------------------------------
(* resolveSecret.                                                          *)

Resolving == pc = "seed" /\ left = <<>>
Opens(k) == pc' = "open" /\ key' = k

StoredSecret_overridden ==
    /\ Resolving /\ secret # 0
    /\ Opens(IF cli = None THEN secret ELSE cli)
    /\ UNCHANGED <<database, file, left, cli, issued, history>>
StoredSecret ==
    /\ Resolving /\ secret # 0
    /\ IF cli \notin {None, secret}
       THEN pc' = "refused" /\ UNCHANGED key
       ELSE Opens(secret)
    /\ UNCHANGED <<database, file, left, cli, issued, history>>

\* EnsureSecret makes a random secret if none is given.
EnsureSecret(s) ==
    /\ Resolving /\ secret = 0
    /\ s = IF cli = None THEN issued + 1 ELSE cli
    /\ issued' = IF cli = None THEN issued + 1 ELSE issued
    /\ Opens(s)
    /\ UNCHANGED <<schema, marked, config, flags, file, left, cli, stops, cut>>

NewSecret == \E s \in Configured \cup {issued + 1} :
    EnsureSecret(s) /\ secret' = s /\ UNCHANGED <<faults, unsaved>>

\* The error of the UPDATE is ignored.
NewSecretUnsaved == \E s \in Configured \cup {issued + 1} :
    /\ EnsureSecret(s) /\ UNCHANGED secret
    /\ faults < MaxFaults /\ faults' = faults + 1
    /\ unsaved' = TRUE

Crash ==
    /\ pc \notin {"down", "refused"} /\ stops < MaxStops
    /\ End
    /\ cut' = IF HalfDone THEN cut \cup {file} ELSE cut
    /\ stops' = stops + 1
    /\ UNCHANGED <<database, cli, key, issued, faults, unsaved>>

Progress ==
    \/ Bootstrap \/ Execute \/ NextFile \/ FilesDone \/ Repair \/ Seed
    \/ StoredSecret \/ NewSecret
StartNext ==
    \/ \E c \in Configured \cup {None} : Start(c)
    \/ Progress
    \/ NewSecretUnsaved \/ Crash

\* Statements run until the process ends, and the service manager starts it
\* again (Restart= in its unit).
StartFair == WF_startVars(Progress) /\ WF_startVars(\E c \in Configured \cup {None} : Start(c))
StartSpec == Init /\ [][StartNext]_startVars /\ StartFair

-----------------------------------------------------------------------------
(* Properties.                                                             *)

StartTypeOK ==
    /\ schema \subseteq Objects(1 .. NumFiles) /\ marked \subseteq 1 .. NumFiles
    /\ config \in [enabled : BOOLEAN, whatsapp : BOOLEAN, telegram : BOOLEAN] \cup {None}
    /\ flags \in [Rules -> [channel : Channels, wa : BOOLEAN, tg : BOOLEAN] \cup {None}]
    /\ {secret, key} \subseteq Nat \cup Configured \cup {None}
    /\ cli \in Configured \cup {None}
    /\ pc \in {"down", "bootstrap", "files", "repair", "seed", "open", "refused"}
    /\ file \in 0 .. NumFiles /\ Len(left) <= 9
    /\ pc = "open" => key # None
    /\ issued \in Nat /\ stops \in 0 .. MaxStops /\ faults \in 0 .. MaxFaults
    /\ unsaved \in BOOLEAN /\ cut \subseteq 1 .. NumFiles

\* Whatever database was there and wherever earlier starts ended, a server
\* that runs has every table and column its statements name; the exception is
\* an end in the middle of the repair's run of 004, after which the repair
\* sees nothing to do.
OpenIsComplete ==
    pc = "open" /\ cut \cap {3, 4} = {} =>
        /\ marked = 1 .. NumFiles
        /\ Objects(1 .. NumFiles) \subseteq schema

\* An upgrade keeps what was set: WhatsApp stays on or off, and a rule of one
\* channel notifies that channel, with the same exception.
UpgradeKeepsSettings ==
    pc = "open" /\ cut \cap {3, 4} = {} =>
        /\ config.whatsapp = config.enabled
        /\ \A r \in Rules : flags[r] # None =>
             /\ flags[r].tg = (flags[r].channel = "telegram")
             /\ flags[r].wa = (flags[r].channel = "whatsapp")

\* A database on which an early version marked 003 and did not run it, and did
\* not mark 004.
FourthWithoutThird ==
    3 \in marked /\ 4 \notin marked /\ <<"alert_rules", "notify_channel">> \notin schema

\* A server is started until it runs or its configured secret is refused,
\* unless an end of the process cut a file that cannot be run again.  The one
\* kind of database of which this is not true is named (LegacyOpens).
StartsAgain ==
    FourthWithoutThird \/ <>(cut # {}) \/ []<>(pc \in {"open", "refused"})

\* db.go:151, "repairSkippedMigrations fixes DBs where legacy bootstrap marked
\* 003+ as applied without running them": where 003 was, a server opens, if no
\* end of the process comes between.  The repair is looked for after all files
\* were applied, and 004 needs what 003 adds.
LegacyOpens ==
    FourthWithoutThird => <>(stops > 0) \/ <>(pc \in {"open", "refused"})
=============================================================================
