----------------------------- MODULE DeviceTables -----------------------------
(***************************************************************************)
(* The tables of devices, monitored interfaces and alert rules, while a    *)
(* server runs on the database that Startup opens: internal/models and     *)
(* the handlers of internal/api that write them.  A request runs its       *)
(* statements one by one without a transaction (saving the interfaces of a *)
(* device is the exception), so that requests interleave and the process   *)
(* may end inside one.                                                     *)
(*                                                                         *)
(* A password is the key it was encrypted with; ids are never used again   *)
(* (AUTOINCREMENT).  Channels are ready or not; their addresses are left   *)
(* out.                                                                    *)
(***************************************************************************)
EXTENDS Startup

CONSTANTS
    Names,        \* names of interfaces
    DeviceIds, IfaceIds, RuleIds,  \* bound: ids that may be given out
    All,          \* the interface of a rule for all interfaces
    MaxEdits      \* bound: requests that write

ASSUME TablesAssumption ==
    /\ \A Ids \in {DeviceIds, IfaceIds, RuleIds} : Ids = 1 .. Cardinality(Ids)
    /\ 1 \in DeviceIds /\ 1 \in IfaceIds /\ 1 \in RuleIds
    /\ {None, All} \cap (Names \cup Nat) = {} /\ None # All
    /\ None \notin [dev : DeviceIds, name : Names]
    /\ IsFiniteSet(Names) /\ MaxEdits \in Nat

VARIABLES
    device,   \* devices: the key of the password, None if there is no row
    iface,    \* monitored_interfaces: [dev, name], or None
    rule,     \* alert_rules: [dev, iface, wa, tg], or None
    given,    \* the last id given out in each of the three tables
    copy,     \* the request in CopyDevice, or Idle
    checked,  \* a rule whose channels were validated: [id, row, own], or None;
              \* own records whether it named its device's own interface
    edits,
    disturbed,\* history: something else happened while the copy was made
    astray    \* history: rules whose request named another device's interface

tables == <<device, iface, rule, given>>
handlers == <<copy, checked>>
tableVars == <<tables, handlers, edits, disturbed, astray>>
vars == <<startVars, tableVars>>

Idle == [at |-> "idle"]
\* Every channel the rule names is on.
Ready(r) == (r.wa => config.whatsapp) /\ (r.tg => config.telegram)

IfacesOf(d) == {i \in IfaceIds : iface[i] # None /\ iface[i].dev = d}
RulesOf(d) == {r \in RuleIds : rule[r] # None /\ rule[r].dev = d}

\* A database of this version may hold a device with an interface, another
\* without one, and a rule of the last, which may name the interface.
TablesInit ==
    /\ Init
    /\ \E d \in {0} \cup (DeviceIds \cap {1, 2}), n \in Names :
       \E r \in {None} \cup [dev : {d}, iface : {1, All}, wa : {TRUE}, tg : {FALSE}] :
         /\ d # 0 <=> marked = 1 .. NumFiles /\ secret # 0
         /\ d = 0 => r = None
         /\ device = [x \in DeviceIds |-> IF x <= d THEN secret ELSE None]
         /\ iface = [x \in IfaceIds |-> IF x = 1 /\ d # 0 THEN [dev |-> 1, name |-> n] ELSE None]
         /\ rule = [x \in RuleIds |-> IF x = 1 THEN r ELSE None]
         /\ given = [device |-> d, iface |-> IF d = 0 THEN 0 ELSE 1,
                      rule |-> IF r = None THEN 0 ELSE 1]
         /\ astray = IF r # None /\ r.dev = 2 /\ r.iface = 1 THEN {1} ELSE {}
    /\ copy = Idle /\ checked = None /\ edits = 0 /\ disturbed = FALSE

-----------------------------------------------------------------------------
(* The tables.                                                             *)

\* A row that refers to a row that is not there is refused (foreign_keys).
Refused(row) ==
    \/ device[row.dev] = None
    \/ "iface" \in DOMAIN row /\ row.iface # All /\ iface[row.iface] = None

\* The interfaces in I are deleted, and with them their rules.
WithoutRules(I) == [r \in RuleIds |->
    IF rule[r] # None /\ rule[r].iface \in I THEN None ELSE rule[r]]

\* The next id of a table goes to the row, if it is not refused.
InsertRule(row) ==
    IF Refused(row) THEN UNCHANGED <<rule, given>>
    ELSE /\ given.rule + 1 \in RuleIds
         /\ rule' = [rule EXCEPT ![given.rule + 1] = row]
         /\ given' = [given EXCEPT !.rule = @ + 1]

InsertDevice ==
    /\ given.device + 1 \in DeviceIds
    /\ device' = [device EXCEPT ![given.device + 1] = key]
    /\ given' = [given EXCEPT !.device = @ + 1]

\* AddMonitoredInterface replaces the row of the same device and name.
AddMonitoredInterface(row) ==
    LET old == {i \in IfacesOf(row.dev) : iface[i].name = row.name}
    IN  IF Refused(row) THEN UNCHANGED <<iface, rule, given>>
        ELSE /\ given.iface + 1 \in IfaceIds
             /\ iface' = [i \in IfaceIds |-> IF i = given.iface + 1 THEN row
                                             ELSE IF i \in old THEN None ELSE iface[i]]
             /\ rule' = WithoutRules(old)
             /\ given' = [given EXCEPT !.iface = @ + 1]

-----------------------------------------------------------------------------
(* Requests.                                                               *)

\* A request that writes; beside a copy it disturbs it.
Request ==
    /\ pc = "open"
    /\ edits < MaxEdits /\ edits' = edits + 1
    /\ disturbed' = (copy # Idle)

CreateDevice ==
    /\ Request
    /\ InsertDevice
    /\ UNCHANGED <<startVars, iface, rule, handlers, astray>>

\* The password is encrypted again if one is entered, and kept if none is.
UpdateDevice(d) ==
    /\ Request
    /\ device[d] # None
    /\ \E k \in {device[d], key} : device' = [device EXCEPT ![d] = k]
    /\ UNCHANGED <<startVars, iface, rule, given, handlers, astray>>

\* Interfaces and rules of the device go with it (ON DELETE CASCADE), and the
\* rules of other devices that name one of those interfaces.
DeleteDevice(d) ==
    /\ Request
    /\ device' = [device EXCEPT ![d] = None]
    /\ iface' = [i \in IfaceIds |-> IF i \in IfacesOf(d) THEN None ELSE iface[i]]
    /\ rule' = [r \in RuleIds |-> IF r \in RulesOf(d) THEN None
                                  ELSE WithoutRules(IfacesOf(d))[r]]
    /\ UNCHANGED <<startVars, given, handlers, astray>>

\* SetMonitoredInterfaces: in one transaction all rows of the device are
\* deleted and the chosen ones inserted, with new ids.
SetMonitoredInterfaces(d) == \E order \in [1 .. Cardinality(Names) -> Names] :
    \E n \in 0 .. Cardinality(Names) :
        LET new == [k \in 1 .. n |-> given.iface + k]
        IN  /\ Request
            /\ device[d] # None
            /\ \A j, k \in 1 .. n : order[j] = order[k] => j = k
            /\ given.iface + n \in IfaceIds \cup {0}
            /\ iface' = [i \in IfaceIds |->
                           IF i - given.iface \in 1 .. n
                           THEN [dev |-> d, name |-> order[i - given.iface]]
                           ELSE IF i \in IfacesOf(d) THEN None ELSE iface[i]]
            /\ rule' = WithoutRules(IfacesOf(d))
            /\ given' = [given EXCEPT !.iface = @ + n]
            /\ UNCHANGED <<startVars, device, handlers, astray>>

\* UpdateNotificationConfig writes whatsapp_enabled to enabled too.
UpdateNotificationConfig == \E wa, tg \in BOOLEAN :
    /\ Request
    /\ config' = [enabled |-> wa, whatsapp |-> wa, telegram |-> tg]
    /\ UNCHANGED <<schema, marked, flags, secret, process, history, tables, handlers, astray>>

\* The first statement of createRule and updateRule.  Nothing compares the
\* interface with the device, or looks whether either is there.
ValidateRuleNotifyChannels ==
    \E d \in DeviceIds, i \in IfaceIds \cup {All}, wa, tg \in BOOLEAN,
       id \in {0} \cup {r \in RuleIds : rule[r] # None} :
        LET row == [dev |-> d, iface |-> i, wa |-> wa, tg |-> tg]
        IN  /\ Request
            /\ checked = None
            /\ wa \/ tg
            /\ Ready(row)
            /\ checked' = [id |-> id, row |-> row, own |-> i \in IfacesOf(d) \cup {All}]
            /\ UNCHANGED <<startVars, tables, copy, astray>>

\* The row that the checked rule goes to, unless it is refused or has gone.
Saves(r) ==
    /\ r = IF checked.id = 0 THEN given.rule + 1 ELSE checked.id
    /\ ~Refused(checked.row)
    /\ checked.id # 0 => rule[r] # None

\* Then CreateAlertRule or UpdateAlertRule.
SaveRule ==
    /\ pc = "open" /\ checked # None
    /\ IF checked.id = 0 THEN InsertRule(checked.row)
       ELSE /\ rule' = IF rule[checked.id] = None \/ Refused(checked.row) THEN rule
                       ELSE [rule EXCEPT ![checked.id] = checked.row]
            /\ UNCHANGED given
    /\ astray' = {r \in RuleIds : IF Saves(r) THEN ~checked.own ELSE r \in astray}
    /\ checked' = None
    /\ disturbed' = (copy # Idle)
    /\ UNCHANGED <<startVars, device, iface, copy, edits>>

DeleteAlertRule(r) ==
    /\ Request
    /\ rule[r] # None
    /\ rule' = [rule EXCEPT ![r] = None]
    /\ UNCHANGED <<startVars, device, iface, given, handlers, astray>>

-----------------------------------------------------------------------------
(* CopyDevice.                                                             *)

\* A statement of the copy fails: the database is busy, or cannot be written.
Fault ==
    /\ faults < MaxFaults /\ faults' = faults + 1
    /\ disturbed' = TRUE
    /\ UNCHANGED <<database, process, stops, unsaved, cut, checked, edits, astray>>
NoFault == UNCHANGED <<startVars, checked, edits, disturbed, astray>>

At(where) == pc = "open" /\ copy.at = where

\* The source is read; its password must be readable.
CopyDevice(d) ==
    /\ pc = "open" /\ copy = Idle
    /\ edits < MaxEdits /\ edits' = edits + 1
    /\ device[d] = key
    /\ copy' = [at |-> "create", from |-> d]
    /\ disturbed' = FALSE
    /\ UNCHANGED <<startVars, tables, checked, astray>>

\* The new device is inserted and read back; an error of either ends the
\* request, and only the second leaves the row.
CopyCreate ==
    /\ At("create")
    /\ \/ /\ InsertDevice /\ NoFault
          /\ copy' = [at |-> "list", from |-> copy.from, new |-> given'.device]
       \/ /\ InsertDevice \/ UNCHANGED <<device, given>>
          /\ Fault /\ copy' = Idle
    /\ UNCHANGED <<iface, rule>>

\* An error of a list is ignored, and the list is empty.
CopyList ==
    /\ At("list")
    /\ \E found \in {IfacesOf(copy.from), {}} :
         /\ IF found = IfacesOf(copy.from) THEN NoFault ELSE Fault
         /\ LET names == [i \in found |-> iface[i].name]
            IN  copy' = [at |-> "add", from |-> copy.from, new |-> copy.new, names |-> names,
                         todo |-> found]
    /\ UNCHANGED tables

CopyInterface ==
    /\ At("add")
    /\ \E i \in copy.todo :
         /\ copy' = [copy EXCEPT !.todo = @ \ {i}]
         /\ \/ AddMonitoredInterface([dev |-> copy.new, name |-> copy.names[i]]) /\ NoFault
            \/ UNCHANGED <<iface, rule, given>> /\ Fault
    /\ UNCHANGED device

CopyListRules_early ==
    /\ At("add")
    /\ \E found \in {RulesOf(copy.from), {}} :
         /\ IF found = RulesOf(copy.from) THEN NoFault ELSE Fault
         /\ copy' = [at |-> "rules", from |-> copy.from, new |-> copy.new, names |-> copy.names,
                     todo |-> [r \in found |-> rule[r].iface]]
    /\ UNCHANGED tables
\* The rules are listed when the interfaces are there.
CopyListRules ==
    /\ At("add") /\ copy.todo = {}
    /\ \E found \in {RulesOf(copy.from), {}} :
         /\ IF found = RulesOf(copy.from) THEN NoFault ELSE Fault
         /\ copy' = [at |-> "rules", from |-> copy.from, new |-> copy.new, names |-> copy.names,
                     todo |-> [r \in found |-> rule[r].iface]]
    /\ UNCHANGED tables

FindInterface_same(i) == i
\* The interface of the new device that has the name of interface i of the
\* source; none is found if i was not there when the source was listed.
FindInterface(i) ==
    LET same == {j \in IfacesOf(copy.new) :
                   i \in DOMAIN copy.names /\ iface[j].name = copy.names[i]}
    IN  IF same = {} THEN All ELSE CHOOSE j \in same : TRUE

CopyFindInterface ==
    /\ At("rules")
    /\ \E r \in DOMAIN copy.todo :
         \E to \in {FindInterface(copy.todo[r]), All} :
            /\ IF to = FindInterface(copy.todo[r]) THEN NoFault ELSE Fault
            /\ copy' = [at |-> "insert", from |-> copy.from, new |-> copy.new,
                        names |-> copy.names, todo |-> copy.todo, cur |-> r, to |-> to]
    /\ UNCHANGED tables

\* CreateAlertRule of an input that names no channel: it gets WhatsApp.
CopyRule ==
    /\ At("insert")
    /\ \/ /\ InsertRule([dev |-> copy.new, iface |-> copy.to, wa |-> TRUE, tg |-> FALSE])
          /\ NoFault
       \/ UNCHANGED <<rule, given>> /\ Fault
    /\ copy' = [at |-> "rules", from |-> copy.from, new |-> copy.new, names |-> copy.names,
                todo |-> [r \in DOMAIN copy.todo \ {copy.cur} |-> copy.todo[r]]]
    /\ UNCHANGED <<device, iface>>

CopyEnds ==
    /\ At("rules") /\ DOMAIN copy.todo = {}
    /\ copy' = Idle
    /\ NoFault /\ UNCHANGED tables

Copying ==
    \/ CopyCreate \/ CopyList \/ CopyInterface \/ CopyListRules
    \/ CopyFindInterface \/ CopyRule \/ CopyEnds

\* What the process was doing for its clients is lost with it.
Starting ==
    /\ StartNext
    /\ UNCHANGED <<tables, edits, disturbed, astray>>
    /\ IF pc' = "down" THEN copy' = Idle /\ checked' = None ELSE UNCHANGED handlers

Next ==
    \/ Starting
    \/ CreateDevice \/ UpdateNotificationConfig \/ ValidateRuleNotifyChannels \/ SaveRule
    \/ \E d \in DeviceIds : UpdateDevice(d) \/ DeleteDevice(d) \/ SetMonitoredInterfaces(d) \/ CopyDevice(d)
    \/ \E r \in RuleIds : DeleteAlertRule(r)
    \/ Copying

Spec == TablesInit /\ [][Next]_vars /\ WF_vars(Starting /\ Progress)
        /\ WF_vars(Starting /\ \E c \in Configured \cup {None} : Start(c))

-----------------------------------------------------------------------------
(* Properties.                                                             *)

IfaceRows == [dev : DeviceIds, name : Names]
RuleRows == [dev : DeviceIds, iface : IfaceIds \cup {All}, wa : BOOLEAN, tg : BOOLEAN]
Partial(S, T) == UNION {[D -> T] : D \in SUBSET S}

\* The request in CopyDevice has read what the statement that it is at needs.
Copies ==
    {Idle}
    \cup [at : {"create"}, from : DeviceIds]
    \cup [at : {"list"}, from : DeviceIds, new : DeviceIds]
    \cup [at : {"add"}, from : DeviceIds, new : DeviceIds, names : Partial(IfaceIds, Names),
          todo : SUBSET IfaceIds]
    \cup [at : {"rules"}, from : DeviceIds, new : DeviceIds, names : Partial(IfaceIds, Names),
          todo : Partial(RuleIds, IfaceIds \cup {All})]
    \cup [at : {"insert"}, from : DeviceIds, new : DeviceIds, names : Partial(IfaceIds, Names),
          todo : Partial(RuleIds, IfaceIds \cup {All}), cur : RuleIds, to : IfaceIds \cup {All}]

TypeOK ==
    /\ StartTypeOK
    /\ device \in [DeviceIds -> Nat \cup Configured \cup {None}]
    /\ iface \in [IfaceIds -> IfaceRows \cup {None}]
    /\ rule \in [RuleIds -> RuleRows \cup {None}]
    /\ given \in [device : Nat, iface : Nat, rule : Nat]
    /\ \A d \in DeviceIds : device[d] # None => d <= given.device
    /\ \A i \in IfaceIds : iface[i] # None => i <= given.iface
    /\ \A r \in RuleIds : rule[r] # None => r <= given.rule
    /\ copy \in Copies
    /\ copy.at = "add" => copy.todo \subseteq DOMAIN copy.names
    /\ checked \in [id : RuleIds \cup {0}, row : RuleRows, own : BOOLEAN] \cup {None}
    /\ copy # Idle \/ checked # None => pc = "open"
    /\ edits \in 0 .. MaxEdits /\ disturbed \in BOOLEAN /\ astray \subseteq RuleIds

\* The server can decrypt every password, whatever starts with or without
\* -secret lie between its entry and now, unless it once failed to store the
\* secret.
PasswordsReadable ==
    pc = "open" /\ ~unsaved => \A d \in DeviceIds : device[d] \in {key, None}

\* The device and the interface of a rule exist, though interfaces are replaced
\* and devices deleted while rules are saved and copied; and the interface is
\* the device's own, unless the request that wrote the rule named another's.
\* The server takes such a request (the pages make none); a copy sets it right.
RulesWithinDevice ==
    \A r \in RuleIds : rule[r] # None =>
        /\ device[rule[r].dev] # None
        /\ rule[r].iface # All =>
              /\ iface[rule[r].iface] # None
              /\ r \notin astray => iface[rule[r].iface].dev = rule[r].dev

\* A copy that nothing disturbed has the interfaces of the source, and a rule
\* for each of its rules about the interface of the same name; one for all
\* interfaces stands for a rule about another device's.
NamesOf(d) == {iface[i].name : i \in IfacesOf(d)}
RulesAbout(d, n) ==
    {r \in RulesOf(d) : n = IF rule[r].iface \in IfacesOf(d) THEN iface[rule[r].iface].name
                            ELSE All}
CopyIsFaithful ==
    [][CopyEnds /\ ~disturbed =>
        /\ NamesOf(copy.new) = NamesOf(copy.from)
        /\ \A n \in Names \cup {All} :
             Cardinality(RulesAbout(copy.new, n)) = Cardinality(RulesAbout(copy.from, n))]_vars
=============================================================================
