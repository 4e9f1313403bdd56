-------------------------- MODULE DeviceTables_proofs --------------------------
(* Proofs about DeviceTables and the Startup it extends.                       *)
EXTENDS DeviceTables, Integers, FiniteSetTheorems, SequenceTheorems, TLAPS

-----------------------------------------------------------------------------
(* Constants.                                                              *)

LEMMA Ids ==
  /\ DeviceIds \subseteq Nat \ {0} /\ IfaceIds \subseteq Nat \ {0} /\ RuleIds \subseteq Nat \ {0}
  /\ 1 \in DeviceIds /\ 1 \in IfaceIds /\ 1 \in RuleIds
<1>1. \A c : 1 .. c \subseteq Nat \ {0}
  OBVIOUS
<1>. QED
  BY <1>1, TablesAssumption

LEMMA Apart ==
  /\ None \notin Nat /\ None \notin Configured /\ None \notin Names
  /\ All \notin Nat /\ All \notin Names /\ None # All
  /\ \A c \in Configured : c \notin Nat
BY TablesAssumption, StartupAssumption

-----------------------------------------------------------------------------
(* Keys.                                                                   *)

Keys == Nat \cup Configured \cup {None}
KeyTypes ==
    /\ secret \in Keys /\ key \in Keys
    /\ issued \in Nat /\ cli \in Configured \cup {None}

\* What a start does to the secrets.
LEMMA StartingKeys ==
  ASSUME KeyTypes, Starting
  PROVE  /\ KeyTypes' /\ UNCHANGED <<device, iface, rule, given, edits, disturbed, astray>>
         /\ IF pc' = "down" THEN copy' = Idle /\ checked' = None ELSE UNCHANGED <<copy, checked>>
         /\ pc = "open" => pc' = "down"
         /\ \/ pc' # "open" /\ UNCHANGED unsaved /\ (secret' = secret \/ (secret = None /\ secret' = 0))
            \/ pc' = "open" /\ UNCHANGED <<secret, unsaved>> /\ key' = secret /\ secret # 0
            \/ pc' = "open" /\ UNCHANGED unsaved /\ key' = secret' /\ secret = 0 /\ secret' # 0
            \/ pc' = "open" /\ unsaved' = TRUE /\ UNCHANGED secret /\ key' # 0
<1>. USE DEF database, process, history
<1>1. UNCHANGED <<device, iface, rule, given, edits, disturbed, astray>>
      /\ IF pc' = "down" THEN copy' = Idle /\ checked' = None ELSE UNCHANGED <<copy, checked>>
  BY DEF Starting, tables, handlers
<1>2. CASE \E c \in Configured \cup {None} : Start(c)
  BY <1>1, <1>2 DEF Start, KeyTypes
<1>3. CASE Bootstrap \/ NextFile \/ FilesDone \/ Repair \/ Seed \/ Crash
  BY <1>1, <1>3 DEF Bootstrap, NextFile, FilesDone, Repair, Seed, Crash, End, Apply, KeyTypes
<1>4. CASE Execute
  <2>1. /\ UNCHANGED <<cli, key, issued, unsaved>> /\ pc # "open"
        /\ pc' = "down" \/ pc' = pc
        /\ secret' = secret \/ (secret = None /\ secret' = 0)
    BY <1>4 DEF Execute, End, Effect
  <2>2. 0 \in Keys
    BY DEF Keys
  <2>. QED
    BY <1>1, <2>1, <2>2 DEF KeyTypes
<1>5. CASE StoredSecret
  BY <1>1, <1>5 DEF StoredSecret, Resolving, Opens, KeyTypes
<1>6. CASE NewSecret \/ NewSecretUnsaved
  <2>1. PICK s \in Configured \cup {issued + 1} :
          EnsureSecret(s) /\ \/ secret' = s /\ UNCHANGED unsaved
                             \/ UNCHANGED secret /\ unsaved' = TRUE
    BY <1>6 DEF NewSecret, NewSecretUnsaved
  <2>2. s \in Keys /\ s # 0 /\ issued' \in Nat /\ UNCHANGED cli
    BY <2>1, Apart DEF EnsureSecret, KeyTypes, Keys
  <2>3. pc' = "open" /\ key' = s /\ secret = 0 /\ pc # "open"
    BY <2>1 DEF EnsureSecret, Resolving, Opens
  <2>. QED
    BY <1>1, <2>1, <2>2, <2>3 DEF KeyTypes
<1>. QED
  BY <1>2, <1>3, <1>4, <1>5, <1>6 DEF Starting, StartNext, Progress

\* What a request leaves as it is.
LEMMA RequestKeys ==
  ASSUME Next, ~Starting
  PROVE  /\ UNCHANGED <<pc, secret, key, issued, cli, unsaved>>
         /\ pc = "open"
BY ZenonT(60) DEF Next, Copying, Request, Fault, NoFault, At, CreateDevice, UpdateDevice, DeleteDevice,
   SetMonitoredInterfaces, UpdateNotificationConfig, ValidateRuleNotifyChannels, SaveRule,
   DeleteAlertRule, CopyDevice, CopyCreate, CopyList, CopyInterface, CopyListRules,
   CopyFindInterface, CopyRule, CopyEnds, startVars, database, process, history

LEMMA NextKeys == KeyTypes /\ [Next]_vars => KeyTypes'
<1>1. ASSUME KeyTypes, UNCHANGED vars PROVE KeyTypes'
  BY <1>1 DEF KeyTypes, vars, startVars, database, process
<1>2. ASSUME KeyTypes, Starting PROVE KeyTypes'
  BY <1>2, StartingKeys
<1>3. ASSUME KeyTypes, Next, ~Starting PROVE KeyTypes'
  BY <1>3, RequestKeys DEF KeyTypes
<1>. QED
  BY <1>1, <1>2, <1>3

LEMMA InitKeys == TablesInit => KeyTypes
<1>. SUFFICES ASSUME Init
              PROVE  KeyTypes
  BY DEF TablesInit
<1>1. secret \in {None, 0, 1} /\ issued \in {0, 1}
  BY DEF Init
<1>. QED
  BY <1>1 DEF Init, KeyTypes, Keys

LEMMA KeyTypesInvariant == Spec => []KeyTypes
BY InitKeys, NextKeys, PTL DEF Spec

-----------------------------------------------------------------------------
(* Types of the tables.                                                    *)

RowTypes ==
    /\ device \in [DeviceIds -> Keys]
    /\ iface \in [IfaceIds -> IfaceRows \cup {None}]
    /\ rule \in [RuleIds -> RuleRows \cup {None}]
    /\ given \in [device : Nat, iface : Nat, rule : Nat]
HandlerTypes ==
    /\ copy \in Copies
    /\ copy.at = "add" => copy.todo \subseteq DOMAIN copy.names
    /\ checked \in [id : RuleIds \cup {0}, row : RuleRows, own : BOOLEAN] \cup {None}
    /\ copy # Idle \/ checked # None => pc = "open"
    /\ edits \in 0 .. MaxEdits /\ disturbed \in BOOLEAN
GivenOut ==
    /\ \A d \in DeviceIds : device[d] # None => d <= given.device
    /\ \A i \in IfaceIds : iface[i] # None => i <= given.iface
    /\ \A r \in RuleIds : rule[r] # None => r <= given.rule
TableTypes == RowTypes /\ HandlerTypes /\ GivenOut

\* The three writes that give out ids.
LEMMA GivenFields ==
  ASSUME given \in [device : Nat, iface : Nat, rule : Nat]
  PROVE  /\ given.device \in Nat /\ given.iface \in Nat /\ given.rule \in Nat
         /\ \A n \in Nat : LET g == [given EXCEPT !.device = @ + n]
                           IN  /\ g \in [device : Nat, iface : Nat, rule : Nat]
                               /\ g.device = given.device + n
                               /\ g.iface = given.iface /\ g.rule = given.rule
         /\ \A n \in Nat : LET g == [given EXCEPT !.iface = @ + n]
                           IN  /\ g \in [device : Nat, iface : Nat, rule : Nat]
                               /\ g.iface = given.iface + n
                               /\ g.device = given.device /\ g.rule = given.rule
         /\ \A n \in Nat : LET g == [given EXCEPT !.rule = @ + n]
                           IN  /\ g \in [device : Nat, iface : Nat, rule : Nat]
                               /\ g.rule = given.rule + n
                               /\ g.device = given.device /\ g.iface = given.iface
OBVIOUS

LEMMA InsertDeviceTypes ==
  ASSUME RowTypes, GivenOut, key \in Keys, InsertDevice, UNCHANGED <<iface, rule>>
  PROVE  /\ RowTypes' /\ GivenOut'
         /\ given'.device \in DeviceIds /\ given'.device = given.device + 1
         /\ given'.iface = given.iface /\ given'.rule = given.rule
         /\ device' = [device EXCEPT ![given'.device] = key]
<1>1. /\ given' \in [device : Nat, iface : Nat, rule : Nat] /\ given.device \in Nat
      /\ given'.device = given.device + 1 /\ given'.iface = given.iface /\ given'.rule = given.rule
  BY GivenFields DEF RowTypes, InsertDevice
<1>2. device' = [device EXCEPT ![given'.device] = key] /\ given'.device \in DeviceIds
  BY <1>1 DEF InsertDevice
<1>3. device' \in [DeviceIds -> Keys]
  BY <1>2 DEF RowTypes
<1>4. \A d \in DeviceIds : device'[d] # None => d <= given'.device
  BY <1>1, <1>2, Ids DEF RowTypes, GivenOut
<1>. QED
  BY <1>1, <1>2, <1>3, <1>4 DEF RowTypes, GivenOut

LEMMA InsertRuleTypes ==
  ASSUME RowTypes, GivenOut, NEW row \in RuleRows, InsertRule(row), UNCHANGED <<device, iface>>
  PROVE  /\ RowTypes' /\ GivenOut'
         /\ given'.iface = given.iface /\ given'.device = given.device
         /\ \A r \in RuleIds : rule'[r] = rule[r] \/ (rule'[r] = row /\ ~Refused(row))
<1>1. CASE Refused(row)
  BY <1>1 DEF InsertRule, RowTypes, GivenOut
<1>2. CASE ~Refused(row)
  <2>1. /\ given' \in [device : Nat, iface : Nat, rule : Nat] /\ given.rule \in Nat
        /\ given'.rule = given.rule + 1
        /\ given'.iface = given.iface /\ given'.device = given.device
    BY <1>2, GivenFields DEF RowTypes, InsertRule
  <2>2. rule' = [rule EXCEPT ![given.rule + 1] = row] /\ given.rule + 1 \in RuleIds
    BY <1>2 DEF InsertRule
  <2>3. \A r \in RuleIds : rule'[r] = IF r = given.rule + 1 THEN row ELSE rule[r]
    BY <2>2 DEF RowTypes
  <2>4. rule' \in [RuleIds -> RuleRows \cup {None}]
    BY <2>2 DEF RowTypes
  <2>5. \A r \in RuleIds : rule'[r] # None => r <= given'.rule
    BY <2>1, <2>3, Ids DEF GivenOut
  <2>. QED
    BY <1>2, <2>1, <2>3, <2>4, <2>5 DEF RowTypes, GivenOut
<1>. QED
  BY <1>1, <1>2

LEMMA AddInterfaceTypes ==
  ASSUME RowTypes, GivenOut, NEW row \in IfaceRows, AddMonitoredInterface(row), UNCHANGED device
  PROVE  /\ RowTypes' /\ GivenOut'
         /\ given'.device = given.device /\ given'.iface >= given.iface
         /\ \/ UNCHANGED <<iface, rule>>
            \/ /\ device[row.dev] # None
               /\ \E old \in SUBSET IfaceIds :
                    /\ \A i \in IfaceIds : iface'[i] = IF i = given.iface + 1 THEN row
                                                       ELSE IF i \in old THEN None ELSE iface[i]
                    /\ rule' = WithoutRules(old)
<1>1. CASE Refused(row)
  <2>1. UNCHANGED <<iface, rule, given>>
    BY <1>1 DEF AddMonitoredInterface
  <2>. QED
    BY <2>1 DEF RowTypes, GivenOut
<1>2. CASE ~Refused(row)
  <2>1. /\ given' \in [device : Nat, iface : Nat, rule : Nat] /\ given.iface \in Nat
        /\ given'.iface = given.iface + 1
        /\ given'.device = given.device /\ given'.rule = given.rule
    BY <1>2, GivenFields DEF RowTypes, AddMonitoredInterface
  <2>2. PICK old \in SUBSET IfaceIds :
          /\ iface' = [i \in IfaceIds |-> IF i = given.iface + 1 THEN row
                                          ELSE IF i \in old THEN None ELSE iface[i]]
          /\ rule' = WithoutRules(old)
    BY <1>2 DEF AddMonitoredInterface, IfacesOf
  <2>3. iface' \in [IfaceIds -> IfaceRows \cup {None}]
    BY <2>2 DEF RowTypes
  <2>4. rule' \in [RuleIds -> RuleRows \cup {None}]
    BY <2>2 DEF RowTypes, WithoutRules
  <2>5. \A i \in IfaceIds : iface'[i] # None => i <= given'.iface
    BY <2>1, <2>2, Ids DEF GivenOut
  <2>6. \A r \in RuleIds : rule'[r] # None => r <= given'.rule
    BY <2>1, <2>2 DEF GivenOut, WithoutRules
  <2>7. device[row.dev] # None
    BY <1>2 DEF Refused
  <2>8. \A i \in IfaceIds : iface'[i] = IF i = given.iface + 1 THEN row
                                         ELSE IF i \in old THEN None ELSE iface[i]
    BY <2>2
  <2>. QED
    BY <2>1, <2>2, <2>3, <2>4, <2>5, <2>6, <2>7, <2>8 DEF RowTypes, GivenOut
<1>. QED
  BY <1>1, <1>2

LEMMA CopyFields ==
  ASSUME copy \in Copies
  PROVE  /\ copy.at \in {"idle", "create", "list", "add", "rules", "insert"}
         /\ copy.at = "idle" => copy = Idle
         /\ copy.at # "idle" => copy # Idle /\ copy.from \in DeviceIds
         /\ copy.at \in {"list", "add", "rules", "insert"} => copy.new \in DeviceIds
         /\ copy.at \in {"add", "rules", "insert"} =>
              \E D \in SUBSET IfaceIds : copy.names \in [D -> Names]
         /\ copy.at = "add" => copy.todo \subseteq IfaceIds
         /\ copy.at \in {"rules", "insert"} =>
              \E D \in SUBSET RuleIds : copy.todo \in [D -> IfaceIds \cup {All}]
         /\ copy.at = "insert" => copy.cur \in RuleIds /\ copy.to \in IfaceIds \cup {All}
<1>1. CASE copy = Idle
  BY <1>1 DEF Idle
<1>2. CASE copy \in [at : {"create"}, from : DeviceIds]
  BY <1>2 DEF Idle
<1>3. CASE copy \in [at : {"list"}, from : DeviceIds, new : DeviceIds]
  BY <1>3 DEF Idle
<1>4. CASE copy \in [at : {"add"}, from : DeviceIds, new : DeviceIds,
                     names : Partial(IfaceIds, Names), todo : SUBSET IfaceIds]
  BY <1>4 DEF Idle, Partial
<1>5. CASE copy \in [at : {"rules"}, from : DeviceIds, new : DeviceIds,
                     names : Partial(IfaceIds, Names), todo : Partial(RuleIds, IfaceIds \cup {All})]
  BY <1>5 DEF Idle, Partial
<1>6. CASE copy \in [at : {"insert"}, from : DeviceIds, new : DeviceIds,
                     names : Partial(IfaceIds, Names), todo : Partial(RuleIds, IfaceIds \cup {All}),
                     cur : RuleIds, to : IfaceIds \cup {All}]
  BY <1>6 DEF Idle, Partial
<1>. QED
  BY <1>1, <1>2, <1>3, <1>4, <1>5, <1>6 DEF Copies

LEMMA CopyMade ==
  /\ Idle \in Copies
  /\ \A d \in DeviceIds : [at |-> "create", from |-> d] \in Copies
  /\ \A d, n \in DeviceIds : [at |-> "list", from |-> d, new |-> n] \in Copies
  /\ \A d, n \in DeviceIds, f \in Partial(IfaceIds, Names), I \in SUBSET IfaceIds :
        [at |-> "add", from |-> d, new |-> n, names |-> f, todo |-> I] \in Copies
  /\ \A d, n \in DeviceIds, f \in Partial(IfaceIds, Names), g \in Partial(RuleIds, IfaceIds \cup {All}) :
        /\ [at |-> "rules", from |-> d, new |-> n, names |-> f, todo |-> g] \in Copies
        /\ \A r \in RuleIds, i \in IfaceIds \cup {All} :
              [at |-> "insert", from |-> d, new |-> n, names |-> f, todo |-> g,
               cur |-> r, to |-> i] \in Copies
BY DEF Copies

\* The tables keep their types.
LEMMA NextRows == KeyTypes /\ TableTypes /\ [Next]_vars => RowTypes' /\ GivenOut'
<1>. SUFFICES ASSUME KeyTypes, RowTypes, HandlerTypes, GivenOut, [Next]_vars
              PROVE  RowTypes' /\ GivenOut'
  BY DEF TableTypes
<1>0. key \in Keys
  BY DEF KeyTypes
<1>1. CASE UNCHANGED tables
  BY <1>1 DEF tables, RowTypes, GivenOut
<1>2. CASE CreateDevice
  BY <1>0, <1>2, InsertDeviceTypes DEF CreateDevice
<1>3. ASSUME NEW d \in DeviceIds, UpdateDevice(d)
      PROVE  RowTypes' /\ GivenOut'
  <2>1. PICK k \in {device[d], key} : device' = [device EXCEPT ![d] = k]
    BY <1>3 DEF UpdateDevice
  <2>2. k \in Keys /\ UNCHANGED <<iface, rule, given>> /\ device[d] # None
    BY <1>0, <1>3, <2>1 DEF UpdateDevice, RowTypes
  <2>3. device' \in [DeviceIds -> Keys]
    BY <2>1, <2>2 DEF RowTypes
  <2>4. \A x \in DeviceIds : device'[x] # None => x <= given'.device
    BY <2>1, <2>2 DEF RowTypes, GivenOut
  <2>. QED
    BY <2>2, <2>3, <2>4 DEF RowTypes, GivenOut
<1>4. ASSUME NEW d \in DeviceIds, DeleteDevice(d)
      PROVE  RowTypes' /\ GivenOut'
  <2>1. /\ UNCHANGED given
        /\ device' = [device EXCEPT ![d] = None]
        /\ iface' = [i \in IfaceIds |-> IF i \in IfacesOf(d) THEN None ELSE iface[i]]
        /\ rule' = [r \in RuleIds |-> IF r \in RulesOf(d) THEN None
                                       ELSE WithoutRules(IfacesOf(d))[r]]
    BY <1>4 DEF DeleteDevice
  <2>3. \A r \in RuleIds : rule'[r] \in {rule[r], None}
    BY <2>1 DEF WithoutRules
  <2>2. device' \in [DeviceIds -> Keys] /\ iface' \in [IfaceIds -> IfaceRows \cup {None}]
        /\ rule' \in [RuleIds -> RuleRows \cup {None}]
    BY <2>1, <2>3 DEF RowTypes, Keys
  <2>. QED
    BY <2>1, <2>2, <2>3 DEF RowTypes, GivenOut
<1>5. ASSUME NEW d \in DeviceIds, SetMonitoredInterfaces(d)
      PROVE  RowTypes' /\ GivenOut'
  <2>1. PICK order \in [1 .. Cardinality(Names) -> Names], n \in 0 .. Cardinality(Names) :
          /\ iface' = [i \in IfaceIds |-> IF i - given.iface \in 1 .. n
                                          THEN [dev |-> d, name |-> order[i - given.iface]]
                                          ELSE IF i \in IfacesOf(d) THEN None ELSE iface[i]]
          /\ rule' = WithoutRules(IfacesOf(d))
          /\ given' = [given EXCEPT !.iface = @ + n]
          /\ UNCHANGED device
    BY <1>5 DEF SetMonitoredInterfaces
  <2>2. /\ given' \in [device : Nat, iface : Nat, rule : Nat] /\ given.iface \in Nat
        /\ given'.iface = given.iface + n
        /\ given'.device = given.device /\ given'.rule = given.rule
    BY <2>1, GivenFields DEF RowTypes
  <2>3. \A k \in 1 .. n : order[k] \in Names
    <3>1. Cardinality(Names) \in Nat
      BY TablesAssumption, FS_CardinalityType
    <3>. QED
      BY <3>1
  <2>4. \A i \in IfaceIds : iface'[i] \in IfaceRows \cup {None}
    BY <2>1, <2>3 DEF RowTypes, IfaceRows
  <2>5. iface' \in [IfaceIds -> IfaceRows \cup {None}]
    BY <2>1, <2>4
  <2>6. rule' \in [RuleIds -> RuleRows \cup {None}]
    BY <2>1 DEF RowTypes, WithoutRules
  <2>7. \A i \in IfaceIds : iface'[i] # None => i <= given'.iface
    <3>. SUFFICES ASSUME NEW i \in IfaceIds, iface'[i] # None
                  PROVE  i <= given.iface + n
      BY <2>2
    <3>1. i \in Int /\ n \in Nat
      BY Ids
    <3>2. CASE i - given.iface \in 1 .. n
      BY <2>2, <3>1, <3>2
    <3>3. CASE ~(i - given.iface \in 1 .. n)
      <4>1. i <= given.iface
        BY <2>1, <3>3 DEF GivenOut
      <4>. QED
        BY <2>2, <3>1, <4>1
    <3>. QED
      BY <3>2, <3>3
  <2>8. \A r \in RuleIds : rule'[r] # None => r <= given'.rule
    BY <2>1, <2>2 DEF GivenOut, WithoutRules
  <2>. QED
    BY <2>1, <2>2, <2>5, <2>6, <2>7, <2>8 DEF RowTypes, GivenOut
<1>6. CASE SaveRule
  <2>1. checked.row \in RuleRows /\ checked.id \in RuleIds \cup {0} /\ UNCHANGED <<device, iface>>
    BY <1>6 DEF SaveRule, HandlerTypes
  <2>2. CASE checked.id = 0
    BY <1>6, <2>1, <2>2, InsertRuleTypes DEF SaveRule
  <2>3. CASE checked.id # 0
    <3>1. /\ UNCHANGED given
          /\ rule' = rule \/ (rule[checked.id] # None /\ rule' = [rule EXCEPT ![checked.id] = checked.row])
      BY <1>6, <2>3 DEF SaveRule
    <3>2. rule' \in [RuleIds -> RuleRows \cup {None}]
      BY <2>1, <2>3, <3>1 DEF RowTypes
    <3>3. \A r \in RuleIds : rule'[r] # None => r <= given'.rule
      BY <2>1, <2>3, <3>1 DEF RowTypes, GivenOut
    <3>. QED
      BY <2>1, <3>1, <3>2, <3>3 DEF RowTypes, GivenOut
  <2>. QED
    BY <2>2, <2>3
<1>7. ASSUME NEW r \in RuleIds, DeleteAlertRule(r)
      PROVE  RowTypes' /\ GivenOut'
  BY <1>7 DEF DeleteAlertRule, RowTypes, GivenOut
<1>8. CASE CopyCreate
  <2>1. CASE UNCHANGED <<device, given>>
    BY <1>1, <1>8, <2>1 DEF CopyCreate, tables
  <2>2. CASE InsertDevice
    BY <1>0, <1>8, <2>2, InsertDeviceTypes DEF CopyCreate
  <2>. QED
    BY <1>8, <2>1, <2>2 DEF CopyCreate
<1>9. CASE CopyInterface
  <2>1. PICK i \in copy.todo :
          \/ AddMonitoredInterface([dev |-> copy.new, name |-> copy.names[i]])
          \/ UNCHANGED <<iface, rule, given>>
    BY <1>9 DEF CopyInterface
  <2>2. [dev |-> copy.new, name |-> copy.names[i]] \in IfaceRows
    <3>1. copy.at = "add" /\ i \in DOMAIN copy.names
      BY <1>9, <2>1 DEF CopyInterface, At, HandlerTypes
    <3>2. copy.new \in DeviceIds /\ copy.names[i] \in Names
      BY <3>1, CopyFields DEF HandlerTypes
    <3>. QED
      BY <3>2 DEF IfaceRows
  <2>3. CASE UNCHANGED <<iface, rule, given>>
    BY <1>1, <1>9, <2>3 DEF CopyInterface, tables
  <2>4. CASE AddMonitoredInterface([dev |-> copy.new, name |-> copy.names[i]])
    BY <1>9, <2>2, <2>4, AddInterfaceTypes DEF CopyInterface
  <2>. QED
    BY <2>1, <2>3, <2>4
<1>10. CASE CopyRule
  <2>1. [dev |-> copy.new, iface |-> copy.to, wa |-> TRUE, tg |-> FALSE] \in RuleRows
    <3>1. copy.new \in DeviceIds /\ copy.to \in IfaceIds \cup {All}
      BY <1>10, CopyFields DEF CopyRule, At, HandlerTypes
    <3>. QED
      BY <3>1 DEF RuleRows
  <2>2. CASE UNCHANGED <<rule, given>>
    BY <1>1, <1>10, <2>2 DEF CopyRule, tables
  <2>3. CASE InsertRule([dev |-> copy.new, iface |-> copy.to, wa |-> TRUE, tg |-> FALSE])
    BY <1>10, <2>1, <2>3, InsertRuleTypes DEF CopyRule
  <2>. QED
    BY <1>10, <2>2, <2>3 DEF CopyRule
<1>11. CASE \/ UpdateNotificationConfig \/ ValidateRuleNotifyChannels \/ CopyList \/ CopyListRules
            \/ CopyFindInterface \/ CopyEnds \/ Starting \/ \E d \in DeviceIds : CopyDevice(d)
  BY <1>1, <1>11, ZenonT(60) DEF UpdateNotificationConfig, ValidateRuleNotifyChannels, CopyList, CopyListRules,
     CopyFindInterface, CopyEnds, Starting, CopyDevice, tables
<1>12. CASE UNCHANGED vars
  BY <1>1, <1>12 DEF vars, tableVars
<1>. QED
  BY <1>2, <1>3, <1>4, <1>5, <1>6, <1>7, <1>8, <1>9, <1>10, <1>11, <1>12 DEF Next, Copying

\* So do the requests under way, which end with the process.
LEMMA NextHandlers == KeyTypes /\ TableTypes /\ [Next]_vars => HandlerTypes'
<1>. SUFFICES ASSUME KeyTypes, RowTypes, HandlerTypes, GivenOut, [Next]_vars
              PROVE  HandlerTypes'
  BY DEF TableTypes
<1>0. /\ Idle \in Copies /\ Idle.at = "idle" /\ MaxEdits \in Nat /\ edits \in 0 .. MaxEdits
      /\ copy \in Copies /\ disturbed \in BOOLEAN
      /\ copy.at = "idle" => copy = Idle
      /\ copy.at # "idle" => copy # Idle
  BY CopyMade, CopyFields, TablesAssumption DEF Idle, HandlerTypes
<1>1. CASE UNCHANGED <<copy, checked, edits, disturbed, pc>>
  BY <1>1 DEF HandlerTypes
<1>2. CASE Starting
  <2>1. /\ IF pc' = "down" THEN copy' = Idle /\ checked' = None ELSE UNCHANGED <<copy, checked>>
        /\ pc = "open" => pc' = "down"
        /\ UNCHANGED <<edits, disturbed>>
    BY <1>2, StartingKeys
  <2>2. CASE pc' = "down"
    BY <1>0, <2>1, <2>2 DEF HandlerTypes
  <2>3. CASE pc' # "down"
    BY <1>0, <2>1, <2>3 DEF HandlerTypes
  <2>. QED
    BY <2>2, <2>3
<1>3. ASSUME Request, pc' = pc, UNCHANGED <<copy, checked>>
      PROVE  HandlerTypes'
  <2>1. edits' \in 0 .. MaxEdits /\ disturbed' \in BOOLEAN
    BY <1>0, <1>3 DEF Request
  <2>. QED
    BY <1>3, <2>1 DEF HandlerTypes
<1>4. CASE ~Starting /\ Next /\ Request /\ UNCHANGED <<copy, checked>>
  BY <1>3, <1>4, RequestKeys
<1>5. CASE ValidateRuleNotifyChannels
  <2>1. PICK d \in DeviceIds, wa \in BOOLEAN, tg \in BOOLEAN, i \in IfaceIds \cup {All},
             id \in {0} \cup {r \in RuleIds : rule[r] # None} :
          checked' = [id |-> id, row |-> [dev |-> d, iface |-> i, wa |-> wa, tg |-> tg],
                      own |-> i \in IfacesOf(d) \cup {All}]
    BY <1>5, ZenonT(60) DEF ValidateRuleNotifyChannels
  <2>2. checked' \in [id : RuleIds \cup {0}, row : RuleRows, own : BOOLEAN]
    BY <2>1 DEF RuleRows
  <2>3. edits' \in 0 .. MaxEdits /\ disturbed' \in BOOLEAN /\ pc = "open" /\ pc' = pc /\ copy' = copy
    BY <1>0, <1>5 DEF ValidateRuleNotifyChannels, Request, startVars, process
  <2>. QED
    BY <2>2, <2>3 DEF HandlerTypes
<1>6. CASE SaveRule
  <2>1. /\ disturbed' \in BOOLEAN /\ pc = "open" /\ pc' = pc /\ checked' = None
        /\ UNCHANGED <<copy, edits>>
    BY <1>6 DEF SaveRule, startVars, process
  <2>. QED
    BY <2>1 DEF HandlerTypes
<1>7. ASSUME NEW d \in DeviceIds, CopyDevice(d)
      PROVE  HandlerTypes'
  <2>1. /\ edits < MaxEdits /\ edits' = edits + 1 /\ disturbed' = FALSE
        /\ pc = "open" /\ pc' = pc
        /\ UNCHANGED checked /\ copy' = [at |-> "create", from |-> d]
    BY <1>7 DEF CopyDevice, startVars, process
  <2>2. copy' \in Copies /\ copy'.at = "create"
    BY <2>1, CopyMade
  <2>3. edits' \in 0 .. MaxEdits /\ disturbed' \in BOOLEAN
    <3>1. MaxEdits \in Nat /\ edits \in 0 .. MaxEdits /\ edits < MaxEdits /\ edits' = edits + 1
      BY <1>0, <2>1
    <3>2. edits' \in 0 .. MaxEdits
      BY <3>1
    <3>. QED
      BY <2>1, <3>2
  <2>. QED
    BY <2>1, <2>2, <2>3 DEF HandlerTypes
<1>8. ASSUME pc = "open", Fault \/ NoFault, copy' \in Copies, copy'.at # "add"
      PROVE  HandlerTypes'
  <2>1. /\ UNCHANGED <<checked, edits, pc>> /\ disturbed' \in BOOLEAN
    BY <1>0, <1>8 DEF Fault, NoFault, startVars, process
  <2>. QED
    BY <1>8, <2>1 DEF HandlerTypes
<1>9. CASE CopyCreate
  <2>1. pc = "open" /\ copy.at = "create" /\ copy.from \in DeviceIds
    BY <1>9, CopyFields DEF CopyCreate, At, HandlerTypes
  <2>2. CASE Fault /\ copy' = Idle
    BY <1>0, <1>8, <2>1, <2>2
  <2>3. CASE InsertDevice /\ NoFault /\ copy' = [at |-> "list", from |-> copy.from, new |-> given'.device]
    <3>1. given'.device \in DeviceIds
      BY <1>9, <2>3, InsertDeviceTypes DEF CopyCreate, KeyTypes
    <3>2. copy' \in Copies /\ copy'.at = "list"
      BY <2>1, <2>3, <3>1, CopyMade
    <3>. QED
      BY <1>8, <2>1, <2>3, <3>2
  <2>. QED
    BY <1>9, <2>2, <2>3 DEF CopyCreate
<1>10. CASE CopyList
  <2>1. pc = "open" /\ copy.at = "list" /\ copy.from \in DeviceIds /\ copy.new \in DeviceIds
    BY <1>10, CopyFields DEF CopyList, At, HandlerTypes
  <2>2. PICK found \in {IfacesOf(copy.from), {}} :
          /\ Fault \/ NoFault
          /\ copy' = [at |-> "add", from |-> copy.from, new |-> copy.new,
                      names |-> [i \in found |-> iface[i].name], todo |-> found]
    BY <1>10 DEF CopyList
  <2>3. found \in SUBSET IfaceIds /\ \A i \in found : iface[i].name \in Names
    BY DEF IfacesOf, RowTypes, IfaceRows
  <2>4. [i \in found |-> iface[i].name] \in Partial(IfaceIds, Names)
    BY <2>3 DEF Partial
  <2>5. copy' \in Copies
    BY <2>1, <2>2, <2>3, <2>4, CopyMade
  <2>6. copy'.todo \subseteq DOMAIN copy'.names
    BY <2>2
  <2>7. UNCHANGED <<checked, edits, pc>> /\ disturbed' \in BOOLEAN
    BY <1>0, <2>2 DEF Fault, NoFault, startVars, process
  <2>. QED
    BY <2>1, <2>5, <2>6, <2>7 DEF HandlerTypes
<1>11. CASE CopyInterface
  <2>1. pc = "open" /\ copy.at = "add"
    BY <1>11 DEF CopyInterface, At
  <2>2. PICK i \in copy.todo :
          /\ copy' = [copy EXCEPT !.todo = @ \ {i}]
          /\ Fault \/ NoFault
    BY <1>11 DEF CopyInterface
  <2>3. copy \in [at : {"add"}, from : DeviceIds, new : DeviceIds,
                  names : Partial(IfaceIds, Names), todo : SUBSET IfaceIds]
    BY <1>0, <2>1 DEF Copies, Idle
  <2>4. /\ copy' \in [at : {"add"}, from : DeviceIds, new : DeviceIds,
                      names : Partial(IfaceIds, Names), todo : SUBSET IfaceIds]
        /\ copy'.names = copy.names /\ copy'.todo \subseteq copy.todo
    BY <2>2, <2>3
  <2>5. copy' \in Copies /\ copy'.todo \subseteq DOMAIN copy'.names
    BY <2>1, <2>4 DEF Copies, HandlerTypes
  <2>6. UNCHANGED <<checked, edits, pc>> /\ disturbed' \in BOOLEAN
    BY <1>0, <2>2 DEF Fault, NoFault, startVars, process
  <2>. QED
    BY <2>1, <2>5, <2>6 DEF HandlerTypes
<1>12. CASE CopyListRules
  <2>1. pc = "open" /\ copy.at = "add" /\ copy.from \in DeviceIds /\ copy.new \in DeviceIds
        /\ copy.names \in Partial(IfaceIds, Names)
    BY <1>12, CopyFields DEF CopyListRules, At, HandlerTypes, Partial
  <2>2. PICK found \in {RulesOf(copy.from), {}} :
          /\ Fault \/ NoFault
          /\ copy' = [at |-> "rules", from |-> copy.from, new |-> copy.new, names |-> copy.names,
                      todo |-> [r \in found |-> rule[r].iface]]
    BY <1>12 DEF CopyListRules
  <2>3. found \in SUBSET RuleIds /\ \A r \in found : rule[r].iface \in IfaceIds \cup {All}
    BY DEF RulesOf, RowTypes, RuleRows
  <2>4. [r \in found |-> rule[r].iface] \in Partial(RuleIds, IfaceIds \cup {All})
    BY <2>3 DEF Partial
  <2>5. copy' \in Copies /\ copy'.at = "rules"
    BY <2>1, <2>2, <2>4, CopyMade
  <2>. QED
    BY <1>8, <2>1, <2>2, <2>5
<1>13. CASE CopyFindInterface
  <2>1. pc = "open" /\ copy.at = "rules" /\ copy.from \in DeviceIds /\ copy.new \in DeviceIds
        /\ copy.names \in Partial(IfaceIds, Names)
        /\ copy.todo \in Partial(RuleIds, IfaceIds \cup {All})
        /\ DOMAIN copy.todo \subseteq RuleIds
    BY <1>13, CopyFields DEF CopyFindInterface, At, HandlerTypes, Partial
  <2>2. PICK r \in DOMAIN copy.todo : \E to \in {FindInterface(copy.todo[r]), All} :
          /\ Fault \/ NoFault
          /\ copy' = [at |-> "insert", from |-> copy.from, new |-> copy.new,
                      names |-> copy.names, todo |-> copy.todo, cur |-> r, to |-> to]
    BY <1>13 DEF CopyFindInterface
  <2>3. PICK to \in {FindInterface(copy.todo[r]), All} :
          copy' = [at |-> "insert", from |-> copy.from, new |-> copy.new,
                   names |-> copy.names, todo |-> copy.todo, cur |-> r, to |-> to]
    BY <2>2
  <2>4. to \in IfaceIds \cup {All}
    BY DEF FindInterface, IfacesOf
  <2>5. copy' \in Copies /\ copy'.at = "insert"
    BY <2>1, <2>3, <2>4, CopyMade
  <2>. QED
    BY <1>8, <2>1, <2>2, <2>5
<1>14. CASE CopyRule
  <2>1. pc = "open" /\ copy.at = "insert" /\ copy.from \in DeviceIds /\ copy.new \in DeviceIds
        /\ copy.names \in Partial(IfaceIds, Names)
    BY <1>14, CopyFields DEF CopyRule, At, HandlerTypes, Partial
  <2>2. PICK D \in SUBSET RuleIds : copy.todo \in [D -> IfaceIds \cup {All}]
    BY <2>1, CopyFields DEF HandlerTypes
  <2>3. PICK f : f = [r \in DOMAIN copy.todo \ {copy.cur} |-> copy.todo[r]]
    OBVIOUS
  <2>4. f \in [D \ {copy.cur} -> IfaceIds \cup {All}]
    BY <2>2, <2>3
  <2>5. f \in Partial(RuleIds, IfaceIds \cup {All})
    BY <2>4 DEF Partial
  <2>6. copy' = [at |-> "rules", from |-> copy.from, new |-> copy.new, names |-> copy.names, todo |-> f]
        /\ (Fault \/ NoFault)
    BY <1>14, <2>3 DEF CopyRule
  <2>7. copy' \in Copies /\ copy'.at = "rules"
    BY <2>1, <2>5, <2>6, CopyMade
  <2>. QED
    BY <1>8, <2>1, <2>6, <2>7
<1>15. CASE CopyEnds
  BY <1>0, <1>8, <1>15 DEF CopyEnds, At
<1>16. CASE UNCHANGED vars
  BY <1>1, <1>16 DEF vars, tableVars, handlers, startVars, process
<1>17. CASE \/ CreateDevice \/ UpdateNotificationConfig
            \/ \E d \in DeviceIds : UpdateDevice(d) \/ DeleteDevice(d) \/ SetMonitoredInterfaces(d)
            \/ \E r \in RuleIds : DeleteAlertRule(r)
  <2>1. Request /\ UNCHANGED <<copy, checked>>
    BY <1>17 DEF CreateDevice, UpdateNotificationConfig, UpdateDevice, DeleteDevice,
       SetMonitoredInterfaces, DeleteAlertRule, handlers
  <2>. QED
    BY <1>2, <1>4, <1>17, <2>1 DEF Next
<1>. QED
  BY <1>2, <1>5, <1>6, <1>7, <1>9, <1>10, <1>11, <1>12, <1>13, <1>14, <1>15, <1>16, <1>17
     DEF Next, Copying

\* What the database holds at first.
FirstIface(d, n) == [x \in IfaceIds |-> IF x = 1 /\ d # 0 THEN [dev |-> 1, name |-> n] ELSE None]

LEMMA InitRows ==
  ASSUME TablesInit
  PROVE  \E d \in 0 .. 2, n \in Names, r \in {None} \cup RuleRows :
           /\ d \in {0} \cup DeviceIds
           /\ d # 0 => secret # 0 /\ marked = 1 .. NumFiles
           /\ d = 0 => r = None
           /\ r # None => r.dev = d /\ r.iface \in {1, All}
           /\ device = [x \in DeviceIds |-> IF x <= d THEN secret ELSE None]
           /\ iface = FirstIface(d, n)
           /\ rule = [x \in RuleIds |-> IF x = 1 THEN r ELSE None]
           /\ given = [device |-> d, iface |-> IF d = 0 THEN 0 ELSE 1,
                       rule |-> IF r = None THEN 0 ELSE 1]
           /\ astray = IF r # None /\ r.dev = 2 /\ r.iface = 1 THEN {1} ELSE {}
<1>1. PICK d \in {0} \cup (DeviceIds \cap {1, 2}), n \in Names :
           \E r \in {None} \cup [dev : {d}, iface : {1, All}, wa : {TRUE}, tg : {FALSE}] :
             /\ d # 0 <=> marked = 1 .. NumFiles /\ secret # 0
             /\ d = 0 => r = None
             /\ device = [x \in DeviceIds |-> IF x <= d THEN secret ELSE None]
             /\ iface = FirstIface(d, n)
             /\ rule = [x \in RuleIds |-> IF x = 1 THEN r ELSE None]
             /\ given = [device |-> d, iface |-> IF d = 0 THEN 0 ELSE 1,
                         rule |-> IF r = None THEN 0 ELSE 1]
             /\ astray = IF r # None /\ r.dev = 2 /\ r.iface = 1 THEN {1} ELSE {}
  BY Zenon DEF TablesInit, FirstIface
<1>2. PICK r \in {None} \cup [dev : {d}, iface : {1, All}, wa : {TRUE}, tg : {FALSE}] :
             /\ d # 0 <=> marked = 1 .. NumFiles /\ secret # 0
             /\ d = 0 => r = None
             /\ device = [x \in DeviceIds |-> IF x <= d THEN secret ELSE None]
             /\ iface = FirstIface(d, n)
             /\ rule = [x \in RuleIds |-> IF x = 1 THEN r ELSE None]
             /\ given = [device |-> d, iface |-> IF d = 0 THEN 0 ELSE 1,
                         rule |-> IF r = None THEN 0 ELSE 1]
             /\ astray = IF r # None /\ r.dev = 2 /\ r.iface = 1 THEN {1} ELSE {}
  BY <1>1
<1>3. r # None => r \in RuleRows /\ r.dev = d /\ r.iface \in {1, All}
  BY <1>2, Ids DEF RuleRows
<1>4. d \in 0 .. 2 /\ d \in {0} \cup DeviceIds
  OBVIOUS
<1>. QED
  BY <1>2, <1>3, <1>4

LEMMA InitTables == TablesInit => TableTypes
<1>. SUFFICES ASSUME TablesInit
              PROVE  TableTypes
  OBVIOUS
<1>1. secret \in Keys
  BY InitKeys DEF KeyTypes
<1>2. PICK d \in 0 .. 2, n \in Names, r \in {None} \cup RuleRows :
         /\ d = 0 => r = None
         /\ device = [x \in DeviceIds |-> IF x <= d THEN secret ELSE None]
         /\ iface = FirstIface(d, n)
         /\ rule = [x \in RuleIds |-> IF x = 1 THEN r ELSE None]
         /\ given = [device |-> d, iface |-> IF d = 0 THEN 0 ELSE 1,
                     rule |-> IF r = None THEN 0 ELSE 1]
  BY InitRows
<1>3. [dev |-> 1, name |-> n] \in IfaceRows
  BY Ids DEF IfaceRows
<1>4. device \in [DeviceIds -> Keys]
  BY <1>1, <1>2 DEF Keys
<1>5. iface \in [IfaceIds -> IfaceRows \cup {None}]
  BY <1>2, <1>3 DEF FirstIface
<1>6. rule \in [RuleIds -> RuleRows \cup {None}]
  BY <1>2
<1>7. /\ given \in [device : Nat, iface : Nat, rule : Nat]
      /\ given.device = d /\ (d # 0 => given.iface = 1) /\ (r # None => given.rule = 1)
  BY <1>2
<1>8. GivenOut
  <2>1. \A x \in DeviceIds : device[x] # None => x <= given.device
    BY <1>2, <1>7
  <2>2. \A x \in IfaceIds : iface[x] # None => x <= given.iface
    BY <1>2, <1>7 DEF FirstIface
  <2>3. \A x \in RuleIds : rule[x] # None => x <= given.rule
    BY <1>2, <1>7
  <2>. QED
    BY <2>1, <2>2, <2>3 DEF GivenOut
<1>9. HandlerTypes
  <2>1. copy = Idle /\ checked = None /\ edits = 0 /\ disturbed = FALSE
    BY DEF TablesInit
  <2>2. Idle \in Copies /\ Idle.at # "add" /\ MaxEdits \in Nat
    BY CopyMade, TablesAssumption DEF Idle
  <2>3. edits \in 0 .. MaxEdits
    BY <2>1, <2>2
  <2>. QED
    BY <2>1, <2>2, <2>3 DEF HandlerTypes
<1>. QED
  BY <1>4, <1>5, <1>6, <1>7, <1>8, <1>9 DEF TableTypes, RowTypes

LEMMA TableInvariant == Spec => []TableTypes
<1>1. KeyTypes /\ TableTypes /\ [Next]_vars => TableTypes'
  BY NextRows, NextHandlers DEF TableTypes
<1>. QED
  BY <1>1, InitTables, KeyTypesInvariant, PTL DEF Spec

-----------------------------------------------------------------------------
(* Passwords.  A server that runs has the stored secret, unless it failed to   *)
(* store it; and no secret that was ever used is the empty one, which is the   *)
(* only one that is replaced.                                                  *)

KeyInv ==
    /\ pc = "open" => key # 0
    /\ \A d \in DeviceIds : device[d] # 0
    /\ ~unsaved => /\ pc = "open" => key = secret
                   /\ \A d \in DeviceIds : device[d] \in {secret, None}

LEMMA NextKeyInv == KeyTypes /\ TableTypes /\ KeyInv /\ [Next]_vars => KeyInv'
<1>. SUFFICES ASSUME KeyTypes, TableTypes, KeyInv, [Next]_vars
              PROVE  KeyInv'
  OBVIOUS
<1>0. device \in [DeviceIds -> Keys] /\ None # 0
  BY Apart DEF TableTypes, RowTypes
<1>1. CASE Starting
  <2>1. UNCHANGED device
    BY <1>1, StartingKeys
  <2>2. CASE pc' # "open" /\ UNCHANGED unsaved /\ (secret' = secret \/ (secret = None /\ secret' = 0))
    BY <2>1, <2>2 DEF KeyInv
  <2>3. CASE pc' = "open" /\ UNCHANGED <<secret, unsaved>> /\ key' = secret /\ secret # 0
    BY <2>1, <2>3 DEF KeyInv
  <2>4. CASE pc' = "open" /\ UNCHANGED unsaved /\ key' = secret' /\ secret = 0 /\ secret' # 0
    BY <2>1, <2>4 DEF KeyInv
  <2>5. CASE pc' = "open" /\ unsaved' = TRUE /\ UNCHANGED secret /\ key' # 0
    BY <2>1, <2>5 DEF KeyInv
  <2>. QED
    BY <1>1, <2>2, <2>3, <2>4, <2>5, StartingKeys
<1>2. CASE ~Starting /\ Next
  <2>1. pc = "open" /\ UNCHANGED <<pc, secret, key, unsaved>>
    BY <1>2, RequestKeys
  <2>2. \A d \in DeviceIds : device'[d] \in {device[d], key, None}
    <3>1. CASE InsertDevice
      BY <1>0, <3>1 DEF InsertDevice
    <3>2. ASSUME NEW d \in DeviceIds, UpdateDevice(d)
          PROVE  \A x \in DeviceIds : device'[x] \in {device[x], key, None}
      BY <1>0, <3>2 DEF UpdateDevice
    <3>3. ASSUME NEW d \in DeviceIds, DeleteDevice(d)
          PROVE  \A x \in DeviceIds : device'[x] \in {device[x], key, None}
      BY <1>0, <3>3 DEF DeleteDevice
    <3>4. CASE UNCHANGED device
      BY <3>4
    <3>. QED
      BY <1>2, <3>1, <3>2, <3>3, <3>4 DEF Next, Copying, CreateDevice, SetMonitoredInterfaces,
         UpdateNotificationConfig, ValidateRuleNotifyChannels, SaveRule, DeleteAlertRule,
         CopyDevice, CopyCreate, CopyList, CopyInterface, CopyListRules, CopyFindInterface,
         CopyRule, CopyEnds, tables
  <2>. QED
    BY <1>0, <2>1, <2>2 DEF KeyInv
<1>3. CASE UNCHANGED vars
  BY <1>3 DEF KeyInv, vars, startVars, database, process, history, tableVars, tables
<1>. QED
  BY <1>1, <1>2, <1>3

LEMMA KeyInvariant == Spec => []KeyInv
<1>1. ASSUME TablesInit PROVE KeyInv
  <2>1. PICK d \in 0 .. 2 :
          /\ d # 0 => secret # 0
          /\ device = [x \in DeviceIds |-> IF x <= d THEN secret ELSE None]
    BY <1>1, InitRows
  <2>2. pc = "down"
    BY <1>1 DEF TablesInit, Init
  <2>3. \A x \in DeviceIds : device[x] = None \/ (device[x] = secret /\ secret # 0)
    BY <2>1, Ids
  <2>. QED
    BY <2>2, <2>3, Apart DEF KeyInv
<1>. QED
  BY <1>1, NextKeyInv, KeyTypesInvariant, TableInvariant, PTL DEF Spec

\* A server decrypts every stored password, whatever starts and secrets lie
\* between its entry and now, unless a secret was once used and not stored.
THEOREM PasswordsStayReadable == Spec => []PasswordsReadable
<1>1. KeyInv => PasswordsReadable
  BY DEF KeyInv, PasswordsReadable
<1>. QED
  BY <1>1, KeyInvariant, PTL

-----------------------------------------------------------------------------
(* The statements of the files, and what the proofs use of them.  The objects  *)
(* that decide how far an upgrade came have names here.                        *)

History == <<"alert_history">>
HistoryChannel == <<"alert_history", "notify_channel">>
WhatsAppOn == <<"notification_config", "whatsapp_enabled">>
OneChannel == <<"alert_rules", "notify_channel">>
TwoChannels == <<"alert_rules", "notify_whatsapp">>
Telegram == <<"alert_rules", "notify_telegram">>
Devices == <<"devices">>
Sessions == <<"sessions">>

LEMMA File1 ==
  /\ Files[1] \in Seq({Files[1][i] : i \in 1 .. 8}) /\ Len(Files[1]) = 8
  /\ \A i \in 1 .. 8 :
       /\ Files[1][i].op = "create"
       /\ Files[1][i].on = History => i = 8
       /\ Files[1][i].on = Devices => i = 2
       /\ Files[1][i].on \notin {HistoryChannel, WhatsAppOn, OneChannel, TwoChannels, Telegram}
  /\ Files[1][8].on = History
<1>1. Files[1] = <<Create("users"), Create("devices"), Create("monitored_interfaces"),
                   Create("alert_rules"), Create("notification_config"),
                   Create("app_settings"), Create("traffic_samples"),
                   Create("alert_history")>>
  BY DEF Files, NumFiles
<1>. QED
  BY <1>1 DEF Create, History, HistoryChannel, WhatsAppOn, OneChannel, TwoChannels,
     Telegram, Devices

LEMMA File2 ==
  /\ Files[2] \in Seq({Files[2][i] : i \in 1 .. 1}) /\ Len(Files[2]) = 1
  /\ \A i \in 1 .. 1 :
       /\ Files[2][i].op = "create" /\ Files[2][i].on = Sessions
       /\ Files[2][i].on \notin {History, HistoryChannel, WhatsAppOn, OneChannel, TwoChannels,
                                 Telegram, Devices}
<1>1. Files[2] = <<Create("sessions")>>
  BY DEF Files, NumFiles
<1>. QED
  BY <1>1 DEF Create, Sessions, History, HistoryChannel, WhatsAppOn, OneChannel, TwoChannels,
     Telegram, Devices

LEMMA File3 ==
  /\ Files[3] \in Seq({Files[3][i] : i \in 1 .. 7}) /\ Len(Files[3]) = 7
  /\ \A i \in 1 .. 7 :
       /\ IF i = 2 THEN Files[3][i] = Set("notification_config", "whatsapp_enabled")
                   ELSE Files[3][i].op = "add"
       /\ Files[3][i].on = WhatsAppOn => i \in {1, 2}
       /\ Files[3][i].on = OneChannel => i = 6
       /\ Files[3][i].on = HistoryChannel => i = 7
       /\ Files[3][i].on \notin {History, TwoChannels, Telegram, Devices}
  /\ Files[3][1].on = WhatsAppOn /\ Files[3][6].on = OneChannel
  /\ Files[3][7] = AddTo("alert_history", "notify_channel") /\ Files[3][7].on = HistoryChannel
<1>1. Files[3] = <<AddTo("notification_config", "whatsapp_enabled"),
                   Set("notification_config", "whatsapp_enabled"),
                   AddTo("notification_config", "telegram_bot_token"),
                   AddTo("notification_config", "telegram_chat_ids"),
                   AddTo("notification_config", "telegram_enabled"),
                   AddTo("alert_rules", "notify_channel"),
                   AddTo("alert_history", "notify_channel")>>
  BY DEF Files, NumFiles
<1>. QED
  BY <1>1 DEF AddTo, Set, History, HistoryChannel, WhatsAppOn, OneChannel, TwoChannels,
     Telegram, Devices

LEMMA File4 ==
  /\ Files[4] \in Seq({Files[4][i] : i \in 1 .. 4}) /\ Len(Files[4]) = 4
  /\ \A i \in 1 .. 4 :
       /\ i = 1 => Files[4][i] = AddTo("alert_rules", "notify_whatsapp")
       /\ i = 2 => Files[4][i] = AddTo("alert_rules", "notify_telegram")
       /\ i \in {1, 2} => Files[4][i].op = "add"
       /\ i = 3 => Files[4][i] = Set("alert_rules", "notify_telegram")
       /\ i = 4 => Files[4][i] = Set("alert_rules", "notify_whatsapp")
       /\ Files[4][i].on = TwoChannels => i \in {1, 4}
       /\ Files[4][i].on = Telegram => i \in {2, 3}
       /\ Files[4][i].on \notin {History, HistoryChannel, WhatsAppOn, OneChannel, Devices}
  /\ Files[4][1].on = TwoChannels /\ Files[4][2].on = Telegram
<1>1. Files[4] = <<AddTo("alert_rules", "notify_whatsapp"),
                   AddTo("alert_rules", "notify_telegram"),
                   Set("alert_rules", "notify_telegram"),
                   Set("alert_rules", "notify_whatsapp")>>
  BY DEF Files, NumFiles
<1>. QED
  BY <1>1 DEF AddTo, Set, History, HistoryChannel, WhatsAppOn, OneChannel, TwoChannels,
     Telegram, Devices

LEMMA File5 ==
  /\ Files[5] \in Seq({Files[5][i] : i \in 1 .. 4}) /\ Len(Files[5]) = 4
  /\ \A i \in 1 .. 4 :
       /\ Files[5][i].op = "add"
       /\ Files[5][i].on \notin {History, HistoryChannel, WhatsAppOn, OneChannel, TwoChannels,
                                 Telegram, Devices}
  /\ Files[5][1] = AddTo("devices", "reboot_schedule_enabled")
<1>1. Files[5] = <<AddTo("devices", "reboot_schedule_enabled"),
                   AddTo("devices", "reboot_days"), AddTo("devices", "reboot_time"),
                   AddTo("devices", "reboot_last_run_at")>>
  BY DEF Files, NumFiles
<1>. QED
  BY <1>1 DEF AddTo, History, HistoryChannel, WhatsAppOn, OneChannel, TwoChannels,
     Telegram, Devices

\* Statements of files, and all that a start runs.
Length(f) == Len(Files[f])
FileStatements == UNION {{Files[f][i] : i \in 1 .. Length(f)} : f \in 1 .. NumFiles}
Statements ==
    FileStatements \cup {Mark(f) : f \in 1 .. NumFiles}
    \cup {Use("sessions"), Use("users"), Insert("notification_config"), Insert("app_settings")}

LEMMA Lengths ==
  /\ Length(1) = 8 /\ Length(2) = 1 /\ Length(3) = 7 /\ Length(4) = 4 /\ Length(5) = 4
  /\ \A f \in 1 .. NumFiles :
       /\ f \in {1, 2, 3, 4, 5} /\ Length(f) \in 1 .. 8
       /\ Files[f] \in Seq(FileStatements) /\ DOMAIN Files[f] = 1 .. Length(f)
       /\ \A i \in 1 .. Length(f) : Files[f][i] \in FileStatements
<1>1. /\ Length(1) = 8 /\ Length(2) = 1 /\ Length(3) = 7 /\ Length(4) = 4 /\ Length(5) = 4
  BY File1, File2, File3, File4, File5 DEF Length
<1>2. \A f \in 1 .. NumFiles : f \in {1, 2, 3, 4, 5} /\ Length(f) \in 1 .. 8
  BY <1>1 DEF NumFiles
<1>3. \A f \in 1 .. NumFiles : \A i \in 1 .. Length(f) : Files[f][i] \in FileStatements
  BY DEF FileStatements
<1>4. \A f \in 1 .. NumFiles : \E S : Files[f] \in Seq(S)
  BY <1>2, File1, File2, File3, File4, File5
<1>5. ASSUME NEW f \in 1 .. NumFiles
      PROVE  Files[f] \in Seq(FileStatements) /\ DOMAIN Files[f] = 1 .. Length(f)
  <2>1. PICK S : Files[f] \in Seq(S)
    BY <1>4
  <2>2. DOMAIN Files[f] = 1 .. Length(f) /\ Files[f] = [i \in 1 .. Length(f) |-> Files[f][i]]
        /\ Length(f) \in Nat
    BY <2>1, LenProperties DEF Length
  <2>3. Files[f] \in [1 .. Length(f) -> FileStatements]
    BY <1>3, <2>2
  <2>. QED
    BY <2>2, <2>3, SeqDef
<1>. QED
  BY <1>1, <1>2, <1>3, <1>5

\* A statement of a file does something to the schema, or to settings of it.
LEMMA FileOps ==
  ASSUME NEW f \in 1 .. NumFiles, NEW i \in 1 .. Length(f)
  PROVE  LET s == Files[f][i]
         IN  /\ s.op \in {"create", "add", "set"}
             /\ s.on = History => f = 1 /\ i = 8
             /\ s.on = HistoryChannel => f = 3 /\ i = 7
             /\ s.on = WhatsAppOn => f = 3 /\ i \in {1, 2}
             /\ s.on = OneChannel => f = 3 /\ i = 6
             /\ s.on = TwoChannels => f = 4 /\ i \in {1, 4}
             /\ s.on = Telegram => f = 4 /\ i \in {2, 3}
             /\ s.on = Devices => f = 1 /\ i = 2
             /\ s.op = "set" => \/ f = 3 /\ i = 2 /\ s = Set("notification_config", "whatsapp_enabled")
                                \/ f = 4 /\ i = 3 /\ s = Set("alert_rules", "notify_telegram")
                                \/ f = 4 /\ i = 4 /\ s = Set("alert_rules", "notify_whatsapp")
<1>1. CASE f = 1
  BY <1>1, Lengths, File1
<1>2. CASE f = 2
  BY <1>2, Lengths, File2
<1>3. CASE f = 3
  <2>1. Set("notification_config", "whatsapp_enabled").op = "set"
    BY DEF Set
  <2>. QED
    BY <1>3, <2>1, Lengths, File3
<1>4. CASE f = 4
  <2>1. Set("alert_rules", "notify_telegram").op = "set" /\ Set("alert_rules", "notify_whatsapp").op = "set"
    BY DEF Set
  <2>. QED
    BY <1>4, <2>1, Lengths, File4
<1>5. CASE f = 5
  BY <1>5, Lengths, File5
<1>. QED
  BY <1>1, <1>2, <1>3, <1>4, <1>5, Lengths

LEMMA StepsOf ==
  ASSUME NEW f \in 1 .. NumFiles
  PROVE  /\ Steps(f) \in Seq(Statements) /\ Len(Steps(f)) = Length(f) + 1
         /\ \A i \in 1 .. Length(f) : Steps(f)[i] = Files[f][i]
         /\ Steps(f)[Length(f) + 1] = Mark(f)
<1>1. Files[f] \in Seq(Statements) /\ Mark(f) \in Statements
  <2>1. Files[f] \in Seq(FileStatements) /\ FileStatements \subseteq Statements
    BY Lengths DEF Statements
  <2>2. \A i \in 1 .. Len(Files[f]) : Files[f][i] \in Statements
    BY <2>1, ElementOfSeq
  <2>. QED
    BY <2>1, <2>2, SeqDef DEF Statements
<1>. QED
  BY <1>1, AppendProperties DEF Steps, Length

-----------------------------------------------------------------------------
(* How far a start is.  What is left of a file is its end, and the statements  *)
(* before it hold.                                                             *)

Held(s) == {s.on} \cup Needs(s) \subseteq schema

FileLeft ==
    /\ pc \in {"files", "repair"}
    /\ Len(left) <= Length(file) + 1
    /\ \A i \in 1 .. Len(left) : left[i] = Steps(file)[Length(file) + 1 - Len(left) + i]
    /\ \A i \in 1 .. Length(file) : i < Length(file) + 2 - Len(left) => Held(Files[file][i])
    /\ left = <<>> => file \in marked
OtherLeft ==
    /\ pc = "files" => left \in {<<>>, <<Mark(2)>>, <<Mark(1), Mark(2)>>}
    /\ pc = "seed" => left \in {<<>>, <<Insert("app_settings")>>,
                                <<Insert("notification_config"), Insert("app_settings")>>,
                                <<Use("users"), Insert("notification_config"), Insert("app_settings")>>,
                                <<Use("sessions"), Use("users"), Insert("notification_config"),
                                  Insert("app_settings")>>}
    /\ pc \notin {"files", "seed"} => left = <<>>
LeftInv ==
    /\ left \in Seq(Statements) /\ file \in 0 .. NumFiles /\ marked \subseteq 1 .. NumFiles
    /\ pc \in {"down", "bootstrap", "files", "repair", "seed", "open", "refused"}
    /\ file # 0 => FileLeft
    /\ file = 0 => OtherLeft

\* The steps of a start.
Ends == End /\ UNCHANGED <<database, cut>> /\ left # <<>> /\ Fails(Head(left))
RunsFile(i) ==
    LET s == Files[file][i]
    IN  /\ file # 0 /\ pc \in {"files", "repair"} /\ Len(left) = Length(file) + 2 - i
        /\ left' = Tail(left) /\ Len(left') = Length(file) + 1 - i
        /\ ~Fails(s) /\ Effect(s)
        /\ UNCHANGED <<pc, file, cut, marked, secret>>
RunsMark ==
    /\ file # 0 /\ pc \in {"files", "repair"} /\ Len(left) = 1 /\ left' = <<>>
    /\ marked' = marked \cup {file}
    /\ UNCHANGED <<pc, file, cut, schema, config, flags, secret>>
RunsFirstMark ==
    /\ file = 0 /\ pc = "files"
    /\ \/ left = <<Mark(1), Mark(2)>> /\ marked' = marked \cup {1} /\ left' = <<Mark(2)>>
       \/ left = <<Mark(2)>> /\ marked' = marked \cup {2} /\ left' = <<>>
    /\ UNCHANGED <<pc, file, cut, schema, config, flags, secret>>
RunsSeed ==
    /\ file = 0 /\ pc = "seed" /\ UNCHANGED <<pc, file, cut, schema, marked, flags>>
    /\ \/ /\ left = <<Use("sessions"), Use("users"), Insert("notification_config"), Insert("app_settings")>>
          /\ left' = <<Use("users"), Insert("notification_config"), Insert("app_settings")>>
          /\ Sessions \in schema /\ UNCHANGED <<config, secret>>
       \/ /\ left = <<Use("users"), Insert("notification_config"), Insert("app_settings")>>
          /\ left' = <<Insert("notification_config"), Insert("app_settings")>>
          /\ UNCHANGED <<config, secret>>
       \/ /\ left = <<Insert("notification_config"), Insert("app_settings")>>
          /\ left' = <<Insert("app_settings")>>
          /\ config' = IF config = None THEN [enabled |-> FALSE, whatsapp |-> FALSE, telegram |-> FALSE]
                       ELSE config
          /\ UNCHANGED secret
       \/ /\ left = <<Insert("app_settings")>> /\ left' = <<>>
          /\ UNCHANGED config /\ secret' = IF secret = None THEN 0 ELSE secret

LEMMA OtherEffects ==
  /\ \A f : /\ Mark(f).op = "mark" /\ Mark(f).on = f
            /\ Effect(Mark(f)) => marked' = marked \cup {f} /\ UNCHANGED <<schema, config, flags, secret>>
  /\ \A t : /\ Use(t).op = "use" /\ Use(t).on = <<t>>
            /\ Effect(Use(t)) => UNCHANGED <<schema, marked, config, flags, secret>>
            /\ ~Fails(Use(t)) => <<t>> \in schema
  /\ Effect(Insert("notification_config")) =>
        /\ UNCHANGED <<schema, marked, flags, secret>>
        /\ config' = IF config = None THEN [enabled |-> FALSE, whatsapp |-> FALSE, telegram |-> FALSE]
                     ELSE config
  /\ Effect(Insert("app_settings")) =>
        /\ UNCHANGED <<schema, marked, config, flags>>
        /\ secret' = IF secret = None THEN 0 ELSE secret
<1>1. \A f : Mark(f).op = "mark" /\ Mark(f).on = f
  BY DEF Mark
<1>2. \A t : Use(t).op = "use" /\ Use(t).on = <<t>>
  BY DEF Use
<1>3. \A t : Insert(t).op = "insert" /\ Insert(t).on = <<t>>
  BY DEF Insert
<1>4. \A t, c : Set(t, c).op = "set"
  BY DEF Set
<1>5. Insert("notification_config") # Insert("app_settings")
  <2>1. <<"notification_config">> # <<"app_settings">>
    OBVIOUS
  <2>. QED
    BY <1>3, <2>1
<1>6. ASSUME NEW f, Effect(Mark(f))
      PROVE  marked' = marked \cup {f} /\ UNCHANGED <<schema, config, flags, secret>>
  BY <1>1, <1>3, <1>4, <1>6 DEF Effect
<1>7. ASSUME NEW t, Effect(Use(t))
      PROVE  UNCHANGED <<schema, marked, config, flags, secret>>
  BY <1>2, <1>3, <1>4, <1>7 DEF Effect
<1>8. ASSUME NEW t, ~Fails(Use(t))
      PROVE  <<t>> \in schema
  <2>1. Needs(Use(t)) = {<<t>>}
    BY <1>2, <1>3 DEF Needs
  <2>. QED
    BY <1>8, <2>1 DEF Fails
<1>9. ASSUME Effect(Insert("notification_config"))
      PROVE  /\ UNCHANGED <<schema, marked, flags, secret>>
             /\ config' = IF config = None THEN [enabled |-> FALSE, whatsapp |-> FALSE, telegram |-> FALSE]
                          ELSE config
  BY <1>3, <1>4, <1>5, <1>9 DEF Effect
<1>10. ASSUME Effect(Insert("app_settings"))
       PROVE  /\ UNCHANGED <<schema, marked, config, flags>>
              /\ secret' = IF secret = None THEN 0 ELSE secret
  BY <1>3, <1>4, <1>5, <1>10 DEF Effect
<1>. QED
  BY <1>1, <1>2, <1>6, <1>7, <1>8, <1>9, <1>10

LEMMA ExecuteSteps ==
  ASSUME LeftInv, Execute
  PROVE  /\ UNCHANGED <<cli, key, issued, stops, faults, unsaved>>
         /\ \/ Ends
            \/ \E i \in 1 .. Length(file) : RunsFile(i)
            \/ RunsMark \/ RunsFirstMark \/ RunsSeed
<1>1. UNCHANGED <<cli, key, issued, stops, faults, unsaved>>
  BY DEF Execute, history
<1>2. SUFFICES ASSUME ~Ends
               PROVE  \/ \E i \in 1 .. Length(file) : RunsFile(i)
                      \/ RunsMark \/ RunsFirstMark \/ RunsSeed
  BY <1>1
<1>3. /\ left # <<>> /\ ~Fails(Head(left)) /\ Effect(Head(left)) /\ left' = Tail(left)
      /\ UNCHANGED <<pc, file, cut>> /\ pc \in {"files", "repair", "seed"}
  BY <1>2 DEF Execute, Ends, history
<1>4. /\ Head(left) = left[1] /\ Len(left) \in Nat /\ Len(left) > 0
      /\ Tail(left) \in Seq(Statements) /\ Len(Tail(left)) = Len(left) - 1
  BY <1>3, HeadTailProperties, LenProperties, EmptySeq DEF LeftInv
<1>5. CASE file # 0
  <2>1. file \in 1 .. NumFiles /\ FileLeft /\ Length(file) \in Nat
    BY <1>5, Lengths DEF LeftInv
  <2>2. left[1] = Steps(file)[Length(file) + 2 - Len(left)] /\ Len(left) <= Length(file) + 1
        /\ pc \in {"files", "repair"}
    <3>1. Length(file) + 1 - Len(left) + 1 = Length(file) + 2 - Len(left)
      BY <1>4, <2>1
    <3>. QED
      BY <1>4, <2>1, <3>1 DEF FileLeft
  <2>3. CASE Len(left) = 1
    <3>1. Head(left) = Mark(file)
      BY <1>4, <2>1, <2>2, <2>3, StepsOf
    <3>2. left' = <<>>
      BY <1>3, <1>4, <2>3, EmptySeq
    <3>. QED
      BY <1>3, <1>5, <2>2, <2>3, <3>1, <3>2, OtherEffects DEF RunsMark
  <2>4. CASE Len(left) # 1
    <3>1. PICK i \in 1 .. Length(file) : i = Length(file) + 2 - Len(left)
      BY <1>4, <2>1, <2>2, <2>4
    <3>2. Head(left) = Files[file][i]
      BY <1>4, <2>1, <2>2, <3>1, StepsOf
    <3>3. Len(left) = Length(file) + 2 - i /\ Len(left') = Length(file) + 1 - i
      BY <1>3, <1>4, <2>1, <3>1
    <3>4. UNCHANGED <<marked, secret>>
      <4>1. Files[file][i].op \in {"create", "add", "set"}
        BY <2>1, FileOps
      <4>2. Insert("app_settings").op = "insert"
        BY DEF Insert
      <4>. QED
        BY <1>3, <3>2, <4>1, <4>2 DEF Effect
    <3>. QED
      BY <1>3, <1>5, <2>2, <3>2, <3>3, <3>4 DEF RunsFile
  <2>. QED
    BY <2>3, <2>4
<1>6. CASE file = 0
  <2>1. OtherLeft
    BY <1>6 DEF LeftInv
  <2>2. CASE pc = "files"
    <3>1. CASE left = <<Mark(1), Mark(2)>>
      <4>1. Head(left) = Mark(1) /\ Tail(left) = <<Mark(2)>>
        BY <3>1
      <4>. QED
        BY <1>3, <1>6, <2>2, <3>1, <4>1, OtherEffects DEF RunsFirstMark
    <3>2. CASE left = <<Mark(2)>>
      <4>1. Head(left) = Mark(2) /\ Tail(left) = <<>>
        BY <3>2
      <4>. QED
        BY <1>3, <1>6, <2>2, <3>2, <4>1, OtherEffects DEF RunsFirstMark
    <3>. QED
      BY <1>3, <2>1, <2>2, <3>1, <3>2 DEF OtherLeft
  <2>3. CASE pc = "seed"
    <3>1. CASE left = <<Use("sessions"), Use("users"), Insert("notification_config"), Insert("app_settings")>>
      <4>1. Head(left) = Use("sessions")
            /\ Tail(left) = <<Use("users"), Insert("notification_config"), Insert("app_settings")>>
        BY <3>1
      <4>. QED
        BY <1>3, <1>6, <2>3, <3>1, <4>1, OtherEffects DEF RunsSeed, Sessions
    <3>2. CASE left = <<Use("users"), Insert("notification_config"), Insert("app_settings")>>
      <4>1. Head(left) = Use("users")
            /\ Tail(left) = <<Insert("notification_config"), Insert("app_settings")>>
        BY <3>2
      <4>. QED
        BY <1>3, <1>6, <2>3, <3>2, <4>1, OtherEffects DEF RunsSeed
    <3>3. CASE left = <<Insert("notification_config"), Insert("app_settings")>>
      <4>1. Head(left) = Insert("notification_config") /\ Tail(left) = <<Insert("app_settings")>>
        BY <3>3
      <4>. QED
        BY <1>3, <1>6, <2>3, <3>3, <4>1, OtherEffects DEF RunsSeed
    <3>4. CASE left = <<Insert("app_settings")>>
      <4>1. Head(left) = Insert("app_settings") /\ Tail(left) = <<>>
        BY <3>4
      <4>. QED
        BY <1>3, <1>6, <2>3, <3>4, <4>1, OtherEffects DEF RunsSeed
    <3>. QED
      BY <1>3, <2>1, <2>3, <3>1, <3>2, <3>3, <3>4 DEF OtherLeft
  <2>. QED
    BY <1>3, <2>1, <2>2, <2>3 DEF OtherLeft
<1>. QED
  BY <1>5, <1>6

\* A statement of a file adds its object, or changes settings.
LEMMA FileEffect ==
  ASSUME LeftInv, NEW i \in 1 .. Length(file), RunsFile(i)
  PROVE  LET s == Files[file][i]
         IN  /\ file \in 1 .. NumFiles /\ schema' = schema \cup {s.on} /\ Needs(s) \subseteq schema
             /\ s.op = "add" => s.on \notin schema
             /\ s.op # "set" => UNCHANGED <<config, flags>>
             /\ s = Set("notification_config", "whatsapp_enabled") =>
                  /\ UNCHANGED flags
                  /\ config' = IF config # None THEN [config EXCEPT !.whatsapp = config.enabled]
                               ELSE config
             /\ \A c : s = Set("alert_rules", c) =>
                  /\ UNCHANGED config
                  /\ flags' = [r \in Rules |-> Route(flags[r], c)]
                  /\ OneChannel \in schema
<1>. DEFINE s == Files[file][i]
<1>1. file \in 1 .. NumFiles
  BY DEF LeftInv, RunsFile
<1>2. s.op \in {"create", "add", "set"} /\ Effect(s) /\ ~Fails(s)
  BY <1>1, FileOps DEF RunsFile
<1>3. Needs(s) \subseteq schema /\ (s.op = "add" => s.on \notin schema)
  BY <1>2 DEF Fails
<1>4. \A t : Insert(t).op = "insert"
  BY DEF Insert
<1>5. \A t, c : Set(t, c).op = "set" /\ Set(t, c).on = <<t, c>> /\ <<t, c>>[1] = t /\ <<t, c>>[2] = c
  BY DEF Set
<1>6. CASE s.op # "set"
  <2>1. schema' = schema \cup {s.on}
    BY <1>2, <1>6 DEF Effect
  <2>2. UNCHANGED <<config, flags>>
    BY <1>2, <1>4, <1>5, <1>6 DEF Effect
  <2>. QED
    BY <1>1, <1>3, <1>5, <1>6, <2>1, <2>2
<1>7. CASE s.op = "set"
  <2>1. s = Set("notification_config", "whatsapp_enabled") \/ \E c : s = Set("alert_rules", c)
    BY <1>1, <1>7, FileOps
  <2>2. schema' = schema
    BY <1>2, <1>7 DEF Effect
  <2>3. CASE s = Set("notification_config", "whatsapp_enabled")
    <3>1. s.on \in Needs(s)
      <4>1. s.on[1] # "alert_rules" /\ s # Insert("notification_config")
        BY <1>4, <1>5, <2>3
      <4>. QED
        BY <1>7, <4>1 DEF Needs
    <3>2. \A c : s # Set("alert_rules", c)
      BY <1>5, <2>3
    <3>3. UNCHANGED flags
      BY <1>2, <1>5, <2>3 DEF Effect
    <3>4. config' = IF config # None THEN [config EXCEPT !.whatsapp = config.enabled] ELSE config
      <4>1. s # Insert("notification_config")
        BY <1>4, <1>5, <2>3
      <4>. QED
        BY <1>2, <2>3, <4>1 DEF Effect
    <3>. QED
      BY <1>1, <1>3, <1>7, <2>2, <3>1, <3>2, <3>3, <3>4
  <2>4. ASSUME NEW c, s = Set("alert_rules", c)
        PROVE  /\ s.on \in Needs(s) /\ OneChannel \in Needs(s)
               /\ UNCHANGED config /\ flags' = [r \in Rules |-> Route(flags[r], c)]
               /\ s # Set("notification_config", "whatsapp_enabled")
    <3>1. s.op = "set" /\ s.on[1] = "alert_rules" /\ s.on[2] = c /\ s # Insert("notification_config")
          /\ s # Set("notification_config", "whatsapp_enabled")
      BY <1>4, <1>5, <2>4
    <3>2. Needs(s) = {s.on, OneChannel}
      BY <3>1 DEF Needs, OneChannel
    <3>3. UNCHANGED config /\ flags' = [r \in Rules |-> Route(flags[r], c)]
      BY <1>2, <3>1 DEF Effect
    <3>. QED
      BY <3>1, <3>2, <3>3
  <2>5. ASSUME NEW c, s = Set("alert_rules", c)
        PROVE  /\ schema' = schema \cup {s.on} /\ OneChannel \in schema
               /\ UNCHANGED config /\ flags' = [r \in Rules |-> Route(flags[r], c)]
               /\ s # Set("notification_config", "whatsapp_enabled")
    BY <1>3, <2>2, <2>4, <2>5
  <2>. QED
    BY <1>1, <1>3, <1>7, <2>1, <2>3, <2>5
<1>. QED
  BY <1>6, <1>7

\* A start gets on, or the process ends.
LEMMA StartLeft ==
  ASSUME LeftInv, StartNext
  PROVE  LeftInv'
<1>. USE DEF database, process, history
<1>0. /\ left \in Seq(Statements) /\ <<>> \in Seq(Statements) /\ file \in 0 .. NumFiles
      /\ marked \subseteq 1 .. NumFiles /\ Len(<<>>) = 0 /\ 0 \in 0 .. NumFiles
  BY DEF LeftInv, NumFiles
<1>1. CASE End /\ marked' = marked
  BY <1>0, <1>1 DEF End, LeftInv, OtherLeft
<1>2. CASE \E c \in Configured \cup {None} : Start(c)
  BY <1>0, <1>2 DEF Start, LeftInv, OtherLeft, FileLeft
<1>3. CASE Bootstrap
  <2>1. file = 0 /\ file' = 0 /\ pc' = "files" /\ marked' = marked
        /\ left' \in {<<>>, <<Mark(1), Mark(2)>>}
    BY <1>3 DEF Bootstrap, LeftInv, FileLeft
  <2>2. <<Mark(1), Mark(2)>> \in Seq(Statements)
    <3>1. Mark(1) \in Statements /\ Mark(2) \in Statements
      BY DEF Statements, NumFiles
    <3>. QED
      BY <3>1
  <2>3. left' \in Seq(Statements)
    BY <1>0, <2>1, <2>2
  <2>. QED
    BY <1>0, <2>1, <2>3 DEF LeftInv, OtherLeft
<1>4. ASSUME NEW f \in 1 .. NumFiles, Apply(f), UNCHANGED pc, pc \in {"files", "repair"}
      PROVE  LeftInv'
  <2>1. file' = f /\ left' = Steps(f) /\ marked' = marked /\ schema' = schema /\ f # 0
    BY <1>4 DEF Apply, NumFiles
  <2>2. /\ left' \in Seq(Statements) /\ Len(left') = Length(f) + 1 /\ Length(f) \in Nat
    BY <2>1, StepsOf, Lengths
  <2>3. \A i \in 1 .. Len(left') : left'[i] = Steps(f)[Length(f) + 1 - Len(left') + i]
    <3>1. \A i \in 1 .. Len(left') : Length(f) + 1 - Len(left') + i = i
      BY <2>2
    <3>. QED
      BY <2>1, <3>1
  <2>4. \A i \in 1 .. Length(f) : ~(i < Length(f) + 2 - Len(left'))
    BY <2>2
  <2>5. left' # <<>>
    BY <2>2, EmptySeq
  <2>. QED
    BY <1>0, <1>4, <2>1, <2>2, <2>3, <2>4, <2>5 DEF LeftInv, FileLeft
<1>5. CASE NextFile
  BY <1>4, <1>5 DEF NextFile
<1>6. CASE Repair
  <2>1. 3 \in 1 .. NumFiles /\ 4 \in 1 .. NumFiles
    BY DEF NumFiles
  <2>. QED
    BY <1>4, <1>6, <2>1 DEF Repair
<1>7. CASE FilesDone
  BY <1>0, <1>7 DEF FilesDone, LeftInv, FileLeft, OtherLeft, Held
<1>8. CASE Seed
  <2>1. file' = 0 /\ pc' = "seed" /\ marked' = marked
        /\ left' = <<Use("sessions"), Use("users"), Insert("notification_config"), Insert("app_settings")>>
    BY <1>8 DEF Seed
  <2>2. left' \in Seq(Statements)
    BY <2>1 DEF Statements
  <2>. QED
    BY <1>0, <2>1, <2>2 DEF LeftInv, OtherLeft
<1>9. CASE StoredSecret \/ NewSecret \/ NewSecretUnsaved
  <2>1. pc = "seed" /\ left = <<>> /\ UNCHANGED <<file, left, marked>> /\ pc' \in {"open", "refused"}
    BY <1>9 DEF StoredSecret, NewSecret, NewSecretUnsaved, EnsureSecret, Resolving, Opens
  <2>2. file = 0
    BY <2>1 DEF LeftInv, FileLeft
  <2>. QED
    BY <1>0, <2>1, <2>2 DEF LeftInv, OtherLeft
<1>10. CASE RunsMark \/ RunsFirstMark \/ RunsSeed
  <2>1. CASE RunsMark
    <3>1. /\ file' = file /\ file \in 1 .. NumFiles /\ left' = <<>> /\ pc' = pc /\ pc \in {"files", "repair"}
          /\ marked' = marked \cup {file} /\ schema' = schema /\ Len(left) = 1 /\ Length(file) \in Nat
      BY <2>1, <1>0, Lengths DEF RunsMark
    <3>2. \A i \in 1 .. Length(file) : Held(Files[file][i])
      <4>1. \A i \in 1 .. Length(file) : i < Length(file) + 2 - Len(left)
        BY <3>1
      <4>. QED
        BY <2>1, <4>1 DEF RunsMark, LeftInv, FileLeft
    <3>3. FileLeft'
      BY <1>0, <3>1, <3>2 DEF FileLeft, Held
    <3>. QED
      BY <1>0, <3>1, <3>3 DEF LeftInv, NumFiles
  <2>2. CASE RunsFirstMark
    <3>1. /\ file' = 0 /\ pc' = "files" /\ left' \in {<<>>, <<Mark(2)>>}
          /\ marked' \subseteq marked \cup {1, 2}
      BY <2>2 DEF RunsFirstMark
    <3>2. left' \in Seq(Statements)
      <4>1. Mark(2) \in Statements
        BY DEF Statements, NumFiles
      <4>2. <<Mark(2)>> \in Seq(Statements)
        BY <4>1
      <4>. QED
        BY <1>0, <3>1, <4>2
    <3>3. marked' \subseteq 1 .. NumFiles
      BY <1>0, <3>1 DEF NumFiles
    <3>. QED
      BY <3>1, <3>2, <3>3, <1>0 DEF LeftInv, OtherLeft
  <2>3. CASE RunsSeed
    <3>1. /\ file' = 0 /\ pc' = "seed" /\ marked' = marked
          /\ left' \in {<<>>, <<Insert("app_settings")>>,
                        <<Insert("notification_config"), Insert("app_settings")>>,
                        <<Use("users"), Insert("notification_config"), Insert("app_settings")>>}
      BY <2>3 DEF RunsSeed
    <3>2. left' \in Seq(Statements)
      <4>1. /\ Use("users") \in Statements /\ Insert("notification_config") \in Statements
            /\ Insert("app_settings") \in Statements
        BY DEF Statements
      <4>2. /\ <<Insert("app_settings")>> \in Seq(Statements)
            /\ <<Insert("notification_config"), Insert("app_settings")>> \in Seq(Statements)
            /\ <<Use("users"), Insert("notification_config"), Insert("app_settings")>> \in Seq(Statements)
        BY <4>1
      <4>. QED
        BY <1>0, <3>1, <4>2
    <3>. QED
      BY <1>0, <3>1, <3>2 DEF LeftInv, OtherLeft
  <2>. QED
    BY <1>10, <2>1, <2>2, <2>3
<1>11. ASSUME NEW i \in 1 .. Length(file), RunsFile(i)
       PROVE  LeftInv'
  <2>1. /\ file' = file /\ file \in 1 .. NumFiles /\ pc' = pc /\ pc \in {"files", "repair"}
        /\ left' = Tail(left) /\ Len(left) = Length(file) + 2 - i /\ Len(left') = Length(file) + 1 - i
        /\ marked' = marked /\ Length(file) \in Nat /\ file # 0
    BY <1>0, <1>11, Lengths DEF RunsFile
  <2>2. /\ schema' = schema \cup {Files[file][i].on} /\ Needs(Files[file][i]) \subseteq schema
    BY <1>11, FileEffect
  <2>3. left # <<>> /\ Len(left) \in Nat
    BY <1>0, <2>1, EmptySeq
  <2>4. /\ left' \in Seq(Statements) /\ \A k \in 1 .. Len(left') : left'[k] = left[k + 1]
    <3>1. Len(Tail(left)) = Len(left) - 1 /\ Tail(left) \in Seq(Statements)
          /\ \A k \in 1 .. Len(Tail(left)) : Tail(left)[k] = left[k + 1]
      BY <1>0, <2>3, HeadTailProperties
    <3>. QED
      BY <2>1, <3>1
  <2>5. \A k \in 1 .. Len(left') : left'[k] = Steps(file)[Length(file) + 1 - Len(left') + k]
    <3>. SUFFICES ASSUME NEW k \in 1 .. Len(left')
                  PROVE  left'[k] = Steps(file)[Length(file) + 1 - Len(left') + k]
      OBVIOUS
    <3>1. k + 1 \in 1 .. Len(left) /\ k \in Int
          /\ Length(file) + 1 - Len(left) + (k + 1) = Length(file) + 1 - Len(left') + k
      <4>1. PICK n \in Nat, m \in Int, l \in Int :
              n = Length(file) /\ m = Len(left) /\ l = Len(left') /\ m = n + 2 - i /\ l = n + 1 - i
        BY <2>1
      <4>2. k \in 1 .. l /\ k \in Int
        BY <4>1
      <4>3. k + 1 \in 1 .. m /\ n + 1 - m + (k + 1) = n + 1 - l + k
        BY <4>1, <4>2
      <4>. QED
        BY <4>1, <4>2, <4>3
    <3>2. left[k + 1] = Steps(file)[Length(file) + 1 - Len(left) + (k + 1)]
      BY <2>1, <3>1 DEF LeftInv, FileLeft
    <3>. QED
      BY <2>4, <3>1, <3>2
  <2>6. \A k \in 1 .. Length(file) : k < Length(file) + 2 - Len(left') => Held(Files[file][k])'
    <3>. SUFFICES ASSUME NEW k \in 1 .. Length(file), k < Length(file) + 2 - Len(left')
                  PROVE  Held(Files[file][k])'
      OBVIOUS
    <3>1. k = i \/ k < Length(file) + 2 - Len(left)
      BY <2>1
    <3>2. CASE k = i
      BY <2>1, <2>2, <3>2 DEF Held
    <3>3. CASE k < Length(file) + 2 - Len(left)
      <4>1. Held(Files[file][k])
        BY <2>1, <3>3 DEF LeftInv, FileLeft
      <4>. QED
        BY <2>1, <2>2, <4>1 DEF Held
    <3>. QED
      BY <3>1, <3>2, <3>3
  <2>7. Len(left') <= Length(file) + 1 /\ left' # <<>>
    <3>1. Len(left') = Length(file) + 1 - i /\ Length(file) \in Nat
      BY <2>1
    <3>2. Len(left') <= Length(file) + 1 /\ Len(left') # 0
      BY <3>1
    <3>. QED
      BY <1>0, <3>2
  <2>8. FileLeft'
    BY <2>1, <2>5, <2>6, <2>7 DEF FileLeft
  <2>. QED
    BY <1>0, <2>1, <2>4, <2>8 DEF LeftInv
<1>12. CASE Execute
  BY <1>1, <1>10, <1>11, <1>12, ExecuteSteps DEF Ends
<1>13. CASE Crash
  BY <1>1, <1>13 DEF Crash
<1>. QED
  BY <1>2, <1>3, <1>5, <1>6, <1>7, <1>8, <1>9, <1>12, <1>13 DEF StartNext, Progress

-----------------------------------------------------------------------------
(* A file that is being applied was not applied before, unless the repair      *)
(* applies it, which it does only where it is missing.                         *)

Settled == \/ config.whatsapp = config.enabled
           \/ WhatsAppOn \notin schema
           \/ 3 \in cut
           \/ file = 3 /\ Len(left) = 7
ReadyInv ==
    /\ pc \in {"repair", "seed", "open"} => 1 .. NumFiles \subseteq marked
    /\ pc \in {"seed", "open"} => file = 0 /\ TwoChannels \in schema
    /\ pc = "seed" => /\ Len(left) < 4 => Sessions \in schema
                      /\ Len(left) < 2 => Settled
                      /\ Len(left) = 0 => secret # None
    /\ pc = "open" => Sessions \in schema /\ Settled /\ key # None

RunInv ==
    /\ 3 \in marked => 1 \in marked
    /\ file # 0 /\ left # <<>> =>
         /\ \A g \in 1 .. file - 1 : g \in marked
         /\ pc = "files" => file \notin marked
         /\ pc = "repair" => \/ file = 3 /\ (Len(left) >= 3 => OneChannel \notin schema)
                             \/ file = 4 /\ OneChannel \in schema

\* What the marks and the columns of a file say of the files before it.
PartsInv ==
    /\ 3 \in marked /\ Devices \in schema => History \in schema
    /\ 5 \in marked => History \in schema
    /\ Telegram \in schema => TwoChannels \in schema /\ ~(file = 4 /\ Len(left) = 4)

\* What statements need.
LEMMA NeedsOf ==
  /\ \A t, c : /\ AddTo(t, c).op = "add" /\ AddTo(t, c).on = <<t, c>>
               /\ Needs(AddTo(t, c)) = {<<t>>}
  /\ \A c : /\ Set("alert_rules", c).op = "set"
            /\ Needs(Set("alert_rules", c)) = {<<"alert_rules", c>>, OneChannel}
  /\ Set("notification_config", "whatsapp_enabled").op = "set"
  /\ Needs(Set("notification_config", "whatsapp_enabled")) = {WhatsAppOn}
  /\ \A f : Mark(f).op = "mark" /\ Needs(Mark(f)) = {}
<1>0. \A t : Insert(t).op = "insert"
  BY DEF Insert
<1>1. \A t, c : /\ AddTo(t, c).op = "add" /\ AddTo(t, c).on = <<t, c>>
                /\ <<t, c>>[1] = t /\ <<t, c>>[2] = c
                /\ Set(t, c).op = "set" /\ Set(t, c).on = <<t, c>>
  BY DEF AddTo, Set
<1>2. \A f : Mark(f).op = "mark"
  BY DEF Mark
<1>3. \A t, c : Needs(AddTo(t, c)) = {<<t>>}
  BY <1>0, <1>1 DEF Needs
<1>4. ASSUME NEW c
      PROVE  Needs(Set("alert_rules", c)) = {<<"alert_rules", c>>, OneChannel}
  <2>1. PICK s : s = Set("alert_rules", c)
    OBVIOUS
  <2>2. s.op = "set" /\ s.on = <<"alert_rules", c>> /\ s.on[1] = "alert_rules"
        /\ s # Insert("notification_config")
    BY <1>0, <1>1, <2>1
  <2>3. Needs(s) = {s.on, OneChannel}
    BY <2>2 DEF Needs, OneChannel
  <2>. QED
    BY <2>1, <2>2, <2>3
<1>5. Needs(Set("notification_config", "whatsapp_enabled")) = {WhatsAppOn}
  <2>1. PICK s : s = Set("notification_config", "whatsapp_enabled")
    OBVIOUS
  <2>2. s.op = "set" /\ s.on = WhatsAppOn /\ s.on[1] # "alert_rules"
        /\ s # Insert("notification_config")
    BY <1>0, <1>1, <2>1 DEF WhatsAppOn
  <2>3. Needs(s) = {s.on}
    BY <2>2 DEF Needs
  <2>. QED
    BY <2>1, <2>2, <2>3
<1>6. \A f : Needs(Mark(f)) = {}
  BY <1>0, <1>2 DEF Needs
<1>. QED
  BY <1>1, <1>2, <1>3, <1>4, <1>5, <1>6

\* The next statement of a file, and those before it.
LEMMA NextStatement ==
  ASSUME LeftInv, file # 0, left # <<>>
  PROVE  /\ file \in 1 .. NumFiles /\ Len(left) \in 1 .. Length(file) + 1
         /\ pc \in {"files", "repair"}
         /\ Len(left) = 1 => Head(left) = Mark(file)
         /\ \A i \in 1 .. Length(file) : Len(left) = Length(file) + 2 - i =>
              /\ Head(left) = Files[file][i]
              /\ \A k \in 1 .. Length(file) : k < i => Held(Files[file][k])
<1>1. file \in 1 .. NumFiles /\ FileLeft /\ Length(file) \in Nat
  BY Lengths DEF LeftInv
<1>2. /\ Head(left) = left[1] /\ Len(left) \in Nat /\ Len(left) > 0
  BY LenProperties, EmptySeq DEF LeftInv
<1>3. left[1] = Steps(file)[Length(file) + 2 - Len(left)] /\ Len(left) <= Length(file) + 1
      /\ pc \in {"files", "repair"}
  <2>1. Length(file) + 1 - Len(left) + 1 = Length(file) + 2 - Len(left)
    BY <1>1, <1>2
  <2>2. 1 \in 1 .. Len(left)
    BY <1>2
  <2>3. left[1] = Steps(file)[Length(file) + 1 - Len(left) + 1]
    BY <1>1, <2>2 DEF FileLeft
  <2>. QED
    BY <1>1, <2>1, <2>3 DEF FileLeft
<1>4. Len(left) = 1 => Head(left) = Mark(file)
  BY <1>1, <1>2, <1>3, StepsOf
<1>5. ASSUME NEW i \in 1 .. Length(file), Len(left) = Length(file) + 2 - i
      PROVE  /\ Head(left) = Files[file][i]
             /\ \A k \in 1 .. Length(file) : k < i => Held(Files[file][k])
  <2>1. Length(file) + 2 - Len(left) = i
    BY <1>1, <1>5
  <2>2. Head(left) = Files[file][i]
    BY <1>1, <1>2, <1>3, <2>1, StepsOf
  <2>3. \A k \in 1 .. Length(file) : k < i => Held(Files[file][k])
    <3>1. \A k \in 1 .. Length(file) : k < i => k < Length(file) + 2 - Len(left)
      BY <2>1
    <3>. QED
      BY <1>1, <3>1 DEF FileLeft
  <2>. QED
    BY <2>2, <2>3
<1>. QED
  BY <1>1, <1>2, <1>3, <1>4, <1>5

LEMMA StartRun ==
  ASSUME LeftInv, ReadyInv, RunInv, StartNext
  PROVE  RunInv'
<1>. USE DEF database, process, history
<1>1. ASSUME marked' \subseteq marked \cup {1, 2}, marked \subseteq marked', file' = 0 \/ left' = <<>>
      PROVE  RunInv'
  BY <1>1 DEF RunInv
<1>2. ASSUME UNCHANGED <<schema, marked, file, left>>, file = 0 \/ left = <<>>
      PROVE  RunInv'
  BY <1>2 DEF RunInv
<1>3. CASE Ends \/ Crash \/ Seed
  BY <1>1, <1>3 DEF Ends, Crash, End, Seed
<1>4. CASE (\E c \in Configured \cup {None} : Start(c)) \/ Bootstrap
  <2>1. file = 0 /\ UNCHANGED <<file, marked>>
    BY <1>4 DEF Start, Bootstrap, LeftInv, FileLeft
  <2>. QED
    BY <1>1, <2>1
<1>5. CASE FilesDone \/ StoredSecret \/ NewSecret \/ NewSecretUnsaved
  BY <1>2, <1>5 DEF FilesDone, StoredSecret, NewSecret, NewSecretUnsaved, EnsureSecret, Resolving
<1>6. CASE NextFile
  <2>1. PICK f \in 1 .. NumFiles \ marked : (\A g \in 1 .. f - 1 : g \in marked) /\ Apply(f)
    BY <1>6 DEF NextFile
  <2>. QED
    BY <1>6, <2>1 DEF NextFile, Apply, RunInv
<1>7. CASE Repair
  <2>1. /\ file' = (IF OneChannel \in schema THEN 4 ELSE 3) /\ UNCHANGED <<schema, marked, pc>>
        /\ pc = "repair" /\ 1 .. NumFiles \subseteq marked
    BY <1>7 DEF Repair, Apply, OneChannel, ReadyInv
  <2>2. \A g \in 1 .. file' - 1 : g \in marked
    BY <2>1 DEF NumFiles
  <2>. QED
    BY <2>1, <2>2 DEF RunInv
<1>8. CASE RunsMark
  <2>1. left' = <<>> /\ marked' = marked \cup {file} /\ left # <<>> /\ file # 0
    BY <1>8 DEF RunsMark
  <2>2. file = 3 => 1 \in marked
    BY <2>1 DEF RunInv
  <2>. QED
    BY <2>1, <2>2 DEF RunInv
<1>9. CASE RunsFirstMark \/ RunsSeed
  BY <1>1, <1>9 DEF RunsFirstMark, RunsSeed
<1>10. ASSUME NEW i \in 1 .. Length(file), RunsFile(i)
       PROVE  RunInv'
  <2>1. /\ file \in 1 .. NumFiles /\ schema' = schema \cup {Files[file][i].on}
        /\ UNCHANGED <<file, marked, pc>> /\ Length(file) \in Nat /\ pc \in {"files", "repair"}
        /\ Len(left) = Length(file) + 2 - i /\ Len(left') = Length(file) + 1 - i
    <3>1. file \in 1 .. NumFiles /\ schema' = schema \cup {Files[file][i].on}
      BY <1>10, FileEffect
    <3>. QED
      BY <1>10, <3>1, Lengths DEF RunsFile
  <2>2. left # <<>> /\ file # 0
    <3>1. Len(left) # 0
      BY <2>1
    <3>. QED
      BY <1>10, <3>1, EmptySeq DEF RunsFile
  <2>3. ASSUME file = 3, Len(left') >= 3
        PROVE  Len(left) >= 3 /\ Files[file][i].on # OneChannel
    BY <2>1, <2>3, Lengths, FileOps
  <2>. QED
    BY <2>1, <2>2, <2>3 DEF RunInv
<1>11. CASE Execute
  BY <1>3, <1>8, <1>9, <1>10, <1>11, ExecuteSteps
<1>. QED
  BY <1>3, <1>4, <1>5, <1>6, <1>7, <1>11 DEF StartNext, Progress

LEMMA StartParts ==
  ASSUME LeftInv, RunInv, PartsInv, StartNext
  PROVE  PartsInv'
<1>. USE DEF database, process, history
<1>0. Len(<<>>) # 4
  OBVIOUS
<1>1. ASSUME schema' = schema, marked' \subseteq marked \cup {1, 2},
             UNCHANGED <<file, left>> \/ file' = 0 \/ Len(left') # 4
      PROVE  PartsInv'
  BY <1>1 DEF PartsInv
<1>2. CASE Ends \/ Crash \/ Seed
  BY <1>1, <1>2 DEF Ends, Crash, End, Seed
<1>3. CASE (\E c \in Configured \cup {None} : Start(c)) \/ Bootstrap
  <2>1. file = 0 /\ UNCHANGED <<file, marked, schema>>
    BY <1>3 DEF Start, Bootstrap, LeftInv, FileLeft
  <2>. QED
    BY <1>1, <2>1
<1>4. CASE FilesDone \/ StoredSecret \/ NewSecret \/ NewSecretUnsaved
  BY <1>1, <1>4 DEF FilesDone, StoredSecret, NewSecret, NewSecretUnsaved, EnsureSecret
<1>5. ASSUME NEW f \in 1 .. NumFiles, Apply(f)
      PROVE  PartsInv'
  <2>1. file' = f /\ UNCHANGED <<schema, marked>> /\ Len(left') = Length(f) + 1
    BY <1>5, StepsOf DEF Apply
  <2>2. f = 4 => Len(left') # 4
    BY <2>1, Lengths
  <2>. QED
    BY <2>1, <2>2 DEF PartsInv
<1>6. CASE NextFile \/ Repair
  BY <1>5, <1>6 DEF NextFile, Repair, NumFiles
<1>7. CASE RunsMark
  <2>1. /\ file \in 1 .. NumFiles /\ left' = <<>> /\ marked' = marked \cup {file} /\ schema' = schema
        /\ left # <<>> /\ file # 0 /\ Len(left) = 1
    BY <1>7, NextStatement DEF RunsMark
  <2>2. \A i \in 1 .. Length(file) : Held(Files[file][i])
    <3>1. \A i \in 1 .. Length(file) : i < Length(file) + 2 - Len(left)
      BY <2>1, Lengths
    <3>. QED
      BY <2>1, <3>1 DEF LeftInv, FileLeft
  <2>3. file = 3 => History \in schema
    <3>1. Needs(AddTo("alert_history", "notify_channel")) = {History}
      BY NeedsOf DEF History
    <3>2. file = 3 => Held(Files[3][7]) /\ Files[3][7] = AddTo("alert_history", "notify_channel")
      BY <2>2, Lengths, File3
    <3>. QED
      BY <3>1, <3>2 DEF Held
  <2>4. file = 5 => History \in schema
    <3>1. Needs(AddTo("devices", "reboot_schedule_enabled")) = {Devices}
      BY NeedsOf DEF Devices
    <3>2. file = 5 => Held(Files[5][1]) /\ Files[5][1] = AddTo("devices", "reboot_schedule_enabled")
      BY <2>2, Lengths, File5
    <3>3. file = 5 => 3 \in marked
      BY <2>1 DEF RunInv
    <3>. QED
      BY <3>1, <3>2, <3>3 DEF Held, PartsInv
  <2>. QED
    BY <1>0, <2>1, <2>3, <2>4 DEF PartsInv
<1>8. CASE RunsFirstMark \/ RunsSeed
  BY <1>1, <1>8 DEF RunsFirstMark, RunsSeed
<1>9. ASSUME NEW i \in 1 .. Length(file), RunsFile(i)
      PROVE  PartsInv'
  <2>1. /\ file \in 1 .. NumFiles /\ schema' = schema \cup {Files[file][i].on}
        /\ UNCHANGED <<file, marked, pc>> /\ Length(file) \in Nat /\ file # 0
        /\ Len(left) = Length(file) + 2 - i /\ Len(left') = Length(file) + 1 - i
    <3>1. file \in 1 .. NumFiles /\ schema' = schema \cup {Files[file][i].on}
      BY <1>9, FileEffect
    <3>. QED
      BY <1>9, <3>1, Lengths DEF RunsFile
  <2>2. left # <<>>
    <3>1. Len(left) # 0
      BY <2>1
    <3>. QED
      BY <3>1, EmptySeq DEF LeftInv
  <2>3. Files[file][i].on = Devices => 3 \notin marked
    <3>1. Files[file][i].on = Devices => file = 1
      BY <2>1, FileOps
    <3>2. file = 1 => 1 \notin marked
      BY <2>1, <2>2, NextStatement DEF RunInv
    <3>. QED
      BY <3>1, <3>2 DEF RunInv
  <2>4. ASSUME Telegram \in schema'
        PROVE  TwoChannels \in schema' /\ ~(file = 4 /\ Len(left') = 4)
    <3>1. CASE file = 4 /\ i = 1
      <4>1. Files[4][1] = AddTo("alert_rules", "notify_whatsapp") /\ Files[4][1].on = TwoChannels
            /\ Files[4][1].op = "add"
        BY Lengths, File4
      <4>2. TwoChannels \notin schema
        BY <1>9, <3>1, <4>1, FileEffect
      <4>3. Telegram # TwoChannels
        BY DEF Telegram, TwoChannels
      <4>. QED
        BY <2>1, <2>4, <3>1, <4>1, <4>2, <4>3 DEF PartsInv
    <3>2. CASE file = 4 /\ i # 1
      <4>1. Held(Files[4][1]) /\ Files[4][1].on = TwoChannels
        <5>1. 1 \in 1 .. Length(4) /\ 1 < i
          BY <3>2, Lengths
        <5>. QED
          BY <2>1, <2>2, <3>2, <5>1, NextStatement, File4
      <4>2. Len(left') # 4
        BY <2>1, <3>2, Lengths
      <4>. QED
        BY <2>1, <4>1, <4>2 DEF Held
    <3>3. CASE file # 4
      <4>1. Telegram \in schema
        BY <2>1, <2>4, <3>3, FileOps
      <4>. QED
        BY <2>1, <3>3, <4>1 DEF PartsInv
    <3>. QED
      BY <3>1, <3>2, <3>3
  <2>. QED
    BY <2>1, <2>3, <2>4 DEF PartsInv
<1>10. CASE Execute
  BY <1>2, <1>7, <1>8, <1>9, <1>10, ExecuteSteps
<1>. QED
  BY <1>2, <1>3, <1>4, <1>6, <1>10 DEF StartNext, Progress

-----------------------------------------------------------------------------
(* What of the files the schema has.  The first file is in it up to some       *)
(* table, in the order of the file; the last object of the third and the first *)
(* of the fourth tell whether they ran, unless an end of the process cut them. *)

Whole(f) == \A i \in 1 .. Length(f) : Files[f][i].on \in schema

FirstWhole ==
    /\ History \in schema => Whole(1)
    /\ HistoryChannel \in schema => History \in schema
ThirdWhole == OneChannel \in schema => \/ 3 \notin marked \/ 3 \in cut \/ Whole(3)
                                       \/ file = 3 /\ Len(left) \in 1 .. 7
FourthWhole == TwoChannels \in schema => \/ 4 \notin marked \/ 4 \in cut
                                         \/ Whole(4) /\ OneChannel \in schema
                                         \/ file = 4 /\ Len(left) \in 1 .. 4
FifthWhole == 5 \in marked => Whole(5)
SchemaInv == FirstWhole /\ ThirdWhole /\ FourthWhole /\ FifthWhole

\* A file of which at most the mark is left has run as a whole.
LEMMA RanWhole ==
  ASSUME LeftInv, file # 0, Len(left) <= 1
  PROVE  Whole(file) /\ (file = 4 => OneChannel \in schema)
<1>1. file \in 1 .. NumFiles /\ FileLeft /\ Length(file) \in Nat /\ Len(left) \in Nat
  BY Lengths, LenProperties DEF LeftInv
<1>2. \A i \in 1 .. Length(file) : Held(Files[file][i])
  <2>1. \A i \in 1 .. Length(file) : i < Length(file) + 2 - Len(left)
    BY <1>1
  <2>. QED
    BY <1>1, <2>1 DEF FileLeft
<1>3. Whole(file)
  BY <1>2 DEF Whole, Held
<1>4. ASSUME file = 4
      PROVE  OneChannel \in schema
  <2>1. Held(Files[4][3]) /\ Files[4][3] = Set("alert_rules", "notify_telegram")
    BY <1>2, <1>4, Lengths, File4
  <2>2. OneChannel \in Needs(Set("alert_rules", "notify_telegram"))
    <3>1. /\ Set("alert_rules", "notify_telegram").op = "set"
          /\ Set("alert_rules", "notify_telegram").on[1] = "alert_rules"
          /\ Insert("notification_config").op = "insert"
      BY DEF Set, Insert
    <3>. QED
      BY <3>1 DEF Needs, OneChannel
  <2>. QED
    BY <2>1, <2>2 DEF Held
<1>. QED
  BY <1>3, <1>4

\* An end of the process inside the third or the fourth file cuts it.
LEMMA CrashCuts ==
  ASSUME LeftInv, Crash
  PROVE  /\ UNCHANGED <<schema, marked, config, flags>> /\ file' = 0 /\ left' = <<>>
         /\ cut \subseteq cut'
         /\ \A f \in {3, 4} : file = f /\ Len(left) \in 1 .. Length(f) =>
              \/ f \in cut'
              \/ Len(left) = 1 /\ Whole(f) /\ (f = 4 => OneChannel \in schema)
<1>1. /\ UNCHANGED <<schema, marked, config, flags>> /\ file' = 0 /\ left' = <<>>
      /\ cut \subseteq cut' /\ (HalfDone => file \in cut')
  BY DEF Crash, End, database
<1>2. ASSUME NEW f \in {3, 4}, file = f, Len(left) \in 1 .. Length(f)
      PROVE  f \in cut' \/ (Len(left) = 1 /\ Whole(f) /\ (f = 4 => OneChannel \in schema))
  <2>1. Length(f) \in Nat /\ Len(Files[file]) = Length(f) /\ file > 2 /\ file # 0
    BY <1>2, Lengths DEF Length
  <2>2. CASE Len(left) = 1
    BY <1>2, <2>1, <2>2, RanWhole
  <2>3. CASE Len(left) # 1
    <3>0. Len(left) \in 1 .. Length(f) /\ Len(left) \in 2 .. Length(f)
      <4>1. PICK n \in Nat, m \in Int : n = Length(f) /\ m = Len(left) /\ m \in 1 .. n
        BY <1>2, <2>1
      <4>2. m # 1 => m \in 2 .. n
        BY <4>1
      <4>. QED
        BY <2>3, <4>1, <4>2
    <3>1. Len(left) \in (IF file \in marked THEN 2 ELSE 1) .. Len(Files[file])
      BY <2>1, <3>0
    <3>. QED
      BY <1>1, <1>2, <2>1, <3>1 DEF HalfDone
  <2>. QED
    BY <2>2, <2>3
<1>. QED
  BY <1>1, <1>2

\* A statement that fails there leaves the file without a mark, or whole: the
\* statements that the repair runs find what they need.
LEMMA FailLeaves ==
  ASSUME LeftInv, ReadyInv, RunInv, PartsInv, FifthWhole, Ends
  PROVE  /\ UNCHANGED <<schema, marked, config, flags, cut>> /\ file' = 0 /\ left' = <<>>
         /\ file = 3 /\ Len(left) \in 1 .. 7 => OneChannel \notin schema \/ 3 \notin marked \/ Whole(3)
         /\ ~(file = 3 /\ Len(left) = 7)
         /\ file = 4 /\ Len(left) \in 1 .. 4 => 4 \notin marked
<1>1. /\ UNCHANGED <<schema, marked, config, flags, cut>> /\ file' = 0 /\ left' = <<>>
      /\ left # <<>> /\ Fails(Head(left))
  BY DEF Ends, End, database
<1>2. ASSUME file # 0, pc = "files"
      PROVE  file \notin marked
  BY <1>1, <1>2 DEF RunInv
<1>3. ~(file # 0 /\ Len(left) = 1)
  BY <1>1, NextStatement, NeedsOf DEF Fails
<1>4. ~(file = 3 /\ Len(left) = 7)
  <2>. SUFFICES ASSUME file = 3, Len(left) = 7
                PROVE  FALSE
    OBVIOUS
  <2>1. 2 \in 1 .. Length(3) /\ 1 \in 1 .. Length(3) /\ Length(3) + 2 - 2 = 7 /\ 1 < 2
    BY Lengths
  <2>2. Head(left) = Files[3][2] /\ Held(Files[3][1])
    BY <1>1, <2>1, NextStatement
  <2>3. WhatsAppOn \in schema /\ Head(left) = Set("notification_config", "whatsapp_enabled")
    BY <2>1, <2>2, Lengths, File3 DEF Held
  <2>. QED
    BY <1>1, <2>3, NeedsOf DEF Fails
<1>5. ASSUME file = 3, Len(left) \in 1 .. 7, OneChannel \in schema, 3 \in marked
      PROVE  Whole(3)
  <2>1. pc = "repair" /\ ~(Len(left) >= 3) /\ Len(left) # 1
    BY <1>1, <1>2, <1>3, <1>5, NextStatement DEF RunInv
  <2>2. Len(left) = 2 /\ Length(3) = 7
    BY <1>5, <2>1, Lengths, SMTT(30)
  <2>3. Head(left) = Files[3][7] /\ \A k \in 1 .. 7 : k < 7 => Held(Files[3][k])
    <3>1. 7 \in 1 .. Length(3) /\ Len(left) = Length(3) + 2 - 7
      BY <2>2
    <3>. QED
      BY <1>1, <1>5, <2>2, <3>1, NextStatement
  <2>4. History \in schema
    BY <2>1 DEF ReadyInv, PartsInv, NumFiles
  <2>5. HistoryChannel \in schema
    <3>1. Head(left) = AddTo("alert_history", "notify_channel")
      BY <2>3, File3
    <3>2. Needs(Head(left)) = {History} /\ Head(left).on = HistoryChannel
      BY <3>1, NeedsOf DEF History, HistoryChannel
    <3>. QED
      BY <1>1, <2>4, <3>2 DEF Fails
  <2>6. \A k \in 1 .. 7 : Files[3][k].on \in schema
    <3>1. \A k \in 1 .. 7 : k < 7 \/ k = 7
      OBVIOUS
    <3>. QED
      BY <2>3, <2>5, <3>1, File3 DEF Held
  <2>. QED
    BY <2>2, <2>6 DEF Whole
<1>6. ASSUME file = 4, Len(left) \in 1 .. 4, 4 \in marked
      PROVE  FALSE
  <2>1. OneChannel \in schema /\ Len(left) # 1 /\ Length(4) = 4
    BY <1>1, <1>2, <1>3, <1>6, NextStatement, Lengths DEF RunInv
  <2>2. PICK i \in 2 .. 4 : Len(left) = Length(4) + 2 - i
    <3>1. Len(left) \in {2, 3, 4}
      BY <1>6, <2>1
    <3>2. 4 = 4 + 2 - 2 /\ 3 = 4 + 2 - 3 /\ 2 = 4 + 2 - 4 /\ 2 \in 2 .. 4 /\ 3 \in 2 .. 4 /\ 4 \in 2 .. 4
      OBVIOUS
    <3>. QED
      BY <2>1, <3>1, <3>2
  <2>3. i \in 1 .. Length(4) /\ i \in {2, 3, 4}
    BY <2>1, <2>2
  <2>4. Head(left) = Files[4][i] /\ \A k \in 1 .. Length(4) : k < i => Held(Files[4][k])
    BY <1>1, <1>6, <2>2, <2>3, NextStatement
  <2>5. Held(Files[4][1]) /\ TwoChannels \in schema
    <3>1. Held(Files[4][1])
      BY <2>1, <2>3, <2>4
    <3>. QED
      BY <3>1, File4 DEF Held
  <2>6. i # 2 => Telegram \in schema
    <3>1. i # 2 => Held(Files[4][2])
      BY <2>1, <2>3, <2>4
    <3>. QED
      BY <3>1, File4 DEF Held
  <2>7. CASE i = 2
    <3>1. Head(left) = AddTo("alert_rules", "notify_telegram") /\ Head(left).on = Telegram
      BY <2>1, <2>3, <2>4, <2>7, File4
    <3>2. Telegram \notin schema
      BY <1>6, <2>1, <2>2, <2>7 DEF PartsInv
    <3>3. Files[4][1] = AddTo("alert_rules", "notify_whatsapp")
      BY File4
    <3>4. <<"alert_rules">> \in schema
      BY <2>5, <3>3, NeedsOf DEF Held
    <3>. QED
      BY <1>1, <3>1, <3>2, <3>4, NeedsOf DEF Fails
  <2>8. CASE i = 3
    <3>1. Head(left) = Set("alert_rules", "notify_telegram")
      BY <2>1, <2>3, <2>4, <2>8, File4
    <3>. QED
      BY <1>1, <2>1, <2>6, <2>8, <3>1, NeedsOf DEF Fails, Telegram
  <2>9. CASE i = 4
    <3>1. Head(left) = Set("alert_rules", "notify_whatsapp")
      BY <2>1, <2>3, <2>4, <2>9, File4
    <3>. QED
      BY <1>1, <2>1, <2>5, <2>9, <3>1, NeedsOf DEF Fails, TwoChannels
  <2>. QED
    BY <2>3, <2>7, <2>8, <2>9
<1>. QED
  BY <1>1, <1>4, <1>5, <1>6

LEMMA StartSchema ==
  ASSUME LeftInv, ReadyInv, RunInv, PartsInv, SchemaInv, StartNext
  PROVE  SchemaInv'
<1>. USE DEF database, process, history
<1>0. Len(<<>>) = 0 /\ ~(0 \in 1 .. 7) /\ ~(0 \in 1 .. 4) /\ 3 # 0 /\ 4 # 0
  OBVIOUS
<1>1. ASSUME UNCHANGED <<schema, cut>>, marked' \subseteq marked \cup {1, 2},
             left = <<>> \/ UNCHANGED <<file, left>> \/ file = 0
      PROVE  SchemaInv'
  <2>1. FirstWhole'
    BY <1>1 DEF SchemaInv, FirstWhole, Whole
  <2>2. FifthWhole'
    BY <1>1 DEF SchemaInv, FifthWhole, Whole
  <2>3. ThirdWhole'
    <3>1. 3 \in marked' => 3 \in marked
      BY <1>1
    <3>. QED
      BY <1>0, <1>1, <3>1 DEF SchemaInv, ThirdWhole, Whole
  <2>4. FourthWhole'
    <3>1. 4 \in marked' => 4 \in marked
      BY <1>1
    <3>. QED
      BY <1>0, <1>1, <3>1 DEF SchemaInv, FourthWhole, Whole
  <2>. QED
    BY <2>1, <2>2, <2>3, <2>4 DEF SchemaInv
<1>2. CASE Ends \/ Crash
  <2>0. /\ UNCHANGED <<schema, marked>> /\ file' = 0 /\ cut \subseteq cut'
        /\ \/ /\ file = 3 /\ Len(left) \in 1 .. 7 => 3 \in cut' \/ Whole(3)
              /\ file = 4 /\ Len(left) \in 1 .. 4 => 4 \in cut' \/ (Whole(4) /\ OneChannel \in schema)
           \/ /\ file = 3 /\ Len(left) \in 1 .. 7 => OneChannel \notin schema \/ 3 \notin marked \/ Whole(3)
              /\ file = 4 /\ Len(left) \in 1 .. 4 => 4 \notin marked
    <3>1. CASE Crash
      BY <3>1, CrashCuts, Lengths
    <3>2. CASE Ends
      BY <3>2, FailLeaves DEF SchemaInv
    <3>. QED
      BY <1>2, <3>1, <3>2
  <2>1. FirstWhole' /\ FifthWhole'
    BY <2>0 DEF SchemaInv, FirstWhole, FifthWhole, Whole
  <2>2. ThirdWhole'
    BY <2>0 DEF SchemaInv, ThirdWhole, Whole
  <2>3. FourthWhole'
    BY <2>0 DEF SchemaInv, FourthWhole, Whole
  <2>. QED
    BY <2>1, <2>2, <2>3 DEF SchemaInv
<1>3. CASE RunsMark
  <2>1. Whole(file) /\ (file = 4 => OneChannel \in schema) /\ UNCHANGED <<schema, cut, file>>
        /\ marked' = marked \cup {file} /\ left' = <<>>
    BY <1>3, RanWhole DEF RunsMark
  <2>2. FirstWhole' /\ FifthWhole'
    BY <2>1 DEF SchemaInv, FirstWhole, FifthWhole, Whole
  <2>3. ThirdWhole'
    BY <2>1 DEF SchemaInv, ThirdWhole, Whole
  <2>4. FourthWhole'
    BY <2>1 DEF SchemaInv, FourthWhole, Whole
  <2>. QED
    BY <2>2, <2>3, <2>4 DEF SchemaInv
<1>4. ASSUME NEW i \in 1 .. Length(file), RunsFile(i)
      PROVE  SchemaInv'
  <2>1. /\ file \in 1 .. NumFiles /\ schema' = schema \cup {Files[file][i].on}
        /\ Needs(Files[file][i]) \subseteq schema
    BY <1>4, FileEffect
  <2>2. /\ file' = file /\ UNCHANGED <<cut, marked>> /\ Length(file) \in Nat
        /\ Len(left) = Length(file) + 2 - i /\ Len(left') = Length(file) + 1 - i
    BY <1>4, <2>1, Lengths DEF RunsFile
  <2>3. \A f \in 1 .. NumFiles : Whole(f) => Whole(f)'
    BY <2>1 DEF Whole
  <2>4. 1 \in 1 .. NumFiles /\ 3 \in 1 .. NumFiles /\ 4 \in 1 .. NumFiles /\ 5 \in 1 .. NumFiles
    BY DEF NumFiles
  <2>5. FirstWhole'
    <3>1. CASE Files[file][i].on = History
      <4>1. file = 1 /\ i = 8 /\ Length(file) = 8
        BY <2>1, <3>1, FileOps, Lengths
      <4>2. \A k \in 1 .. 8 : k = 8 \/ Held(Files[1][k])
        <5>1. Length(file) + 2 - Len(left) = 8
          BY <2>2, <4>1
        <5>2. \A k \in 1 .. 8 : k = 8 \/ k < Length(file) + 2 - Len(left)
          BY <5>1
        <5>3. FileLeft
          BY <4>1 DEF LeftInv
        <5>4. \A k \in 1 .. 8 : k < Length(file) + 2 - Len(left) => Held(Files[1][k])
          BY <4>1, <5>3 DEF FileLeft
        <5>. QED
          BY <5>2, <5>4
      <4>3. Whole(1)'
        BY <2>1, <4>1, <4>2 DEF Whole, Held
      <4>. QED
        BY <2>1, <3>1, <4>3 DEF FirstWhole
    <3>2. CASE Files[file][i].on = HistoryChannel
      <4>1. file = 3 /\ i = 7
        BY <2>1, <3>2, FileOps
      <4>2. History \in Needs(AddTo("alert_history", "notify_channel"))
        <5>1. /\ AddTo("alert_history", "notify_channel").op = "add"
              /\ AddTo("alert_history", "notify_channel").on[1] = "alert_history"
              /\ Insert("notification_config").op = "insert"
          BY DEF AddTo, Insert
        <5>. QED
          BY <5>1 DEF Needs, History
      <4>3. History \in schema
        BY <2>1, <4>1, <4>2, File3
      <4>. QED
        BY <2>1, <2>3, <2>4, <4>3 DEF SchemaInv, FirstWhole
    <3>3. CASE Files[file][i].on \notin {History, HistoryChannel}
      BY <2>1, <2>3, <2>4, <3>3 DEF SchemaInv, FirstWhole
    <3>. QED
      BY <3>1, <3>2, <3>3
  <2>6. ThirdWhole'
    <3>1. file = 3 => Len(left') \in 1 .. 7
      BY <2>2, Lengths
    <3>2. Files[file][i].on = OneChannel => file = 3
      BY <2>1, FileOps
    <3>. QED
      BY <2>1, <2>2, <2>3, <2>4, <3>1, <3>2 DEF SchemaInv, ThirdWhole
  <2>7. FourthWhole'
    <3>1. file = 4 => Len(left') \in 1 .. 4
      BY <2>2, Lengths
    <3>2. Files[file][i].on = TwoChannels => file = 4
      BY <2>1, FileOps
    <3>. QED
      BY <2>1, <2>2, <2>3, <2>4, <3>1, <3>2 DEF SchemaInv, FourthWhole
  <2>8. FifthWhole'
    BY <2>2, <2>3, <2>4 DEF SchemaInv, FifthWhole
  <2>. QED
    BY <2>5, <2>6, <2>7, <2>8 DEF SchemaInv
<1>5. CASE Execute
  BY <1>1, <1>2, <1>3, <1>4, <1>5, ExecuteSteps DEF RunsFirstMark, RunsSeed
<1>6. CASE Crash
  BY <1>2, <1>6
<1>7. CASE \/ \E c \in Configured \cup {None} : Start(c)
           \/ FilesDone \/ StoredSecret \/ NewSecret \/ NewSecretUnsaved
  BY <1>1, <1>7 DEF Start, FilesDone, StoredSecret, NewSecret, NewSecretUnsaved, EnsureSecret
<1>8. CASE Bootstrap \/ NextFile \/ Repair \/ Seed
  BY <1>1, <1>8 DEF Bootstrap, NextFile, Repair, Seed, Apply, LeftInv, FileLeft
<1>. QED
  BY <1>5, <1>6, <1>7, <1>8 DEF StartNext, Progress

-----------------------------------------------------------------------------
(* The settings that an upgrade keeps.  A column that was added takes over the *)
(* setting before the file is done.                                            *)

Configs == [enabled : BOOLEAN, whatsapp : BOOLEAN, telegram : BOOLEAN]
Flags == [channel : Channels, wa : BOOLEAN, tg : BOOLEAN]
SettingTypes == config \in Configs \cup {None} /\ flags \in [Rules -> Flags \cup {None}]

ConfigInv == config = None \/ Settled

Right(f) == f.tg = (f.channel = "telegram") /\ f.wa = (f.channel = "whatsapp")
Routed(f) == \/ Right(f)
             \/ TwoChannels \notin schema
             \/ 4 \in cut
             \/ file = 4 /\ Len(left) \in {3, 4}
             \/ 4 \notin marked /\ ~(file = 4 /\ Len(left) \in {1, 2})
FlagsInv == \A r \in Rules : flags[r] # None => /\ Routed(flags[r])
                                                /\ flags[r].channel = "whatsapp" => Right(flags[r])

SettingsInv == SettingTypes /\ ConfigInv /\ FlagsInv

\* What is inserted, and what is saved later, is settled.
NewConfig == config' \in Configs /\ config'.whatsapp = config'.enabled

LEMMA InsertedConfig ==
  ASSUME config' = IF config = None THEN [enabled |-> FALSE, whatsapp |-> FALSE, telegram |-> FALSE]
                   ELSE config
  PROVE  UNCHANGED config \/ NewConfig
<1>1. CASE config = None
  <2>1. config' \in Configs
    BY <1>1 DEF Configs
  <2>2. config'.whatsapp = config'.enabled
    BY <1>1
  <2>. QED
    BY <2>1, <2>2 DEF NewConfig
<1>. QED
  BY <1>1

LEMMA RouteFlags ==
  ASSUME NEW f \in Flags \cup {None}, NEW c, f.channel = "whatsapp" => f = None \/ Right(f)
  PROVE  /\ Route(f, c) \in Flags \cup {None}
         /\ f = None => Route(f, c) = None
         /\ f # None => /\ Route(f, c).channel = f.channel
                        /\ f.channel = "whatsapp" => Right(Route(f, c))
                        /\ c = "notify_telegram" => Right(Route(f, c))
                        /\ Right(f) => Right(Route(f, c))
<1>1. CASE f = None
  BY <1>1 DEF Route
<1>2. CASE f # None
  <2>1. f \in Flags /\ f.channel \in {"whatsapp", "telegram"}
    BY <1>2 DEF Flags, Channels
  <2>2. CASE c = "notify_telegram" /\ f.channel = "telegram"
    <3>1. Route(f, c) = [f EXCEPT !.wa = FALSE, !.tg = TRUE]
      BY <1>2, <2>2 DEF Route
    <3>. QED
      BY <1>2, <2>1, <2>2, <3>1 DEF Flags, Right
  <2>3. CASE c = "notify_whatsapp" /\ f.channel = "whatsapp"
    <3>1. Route(f, c) = [f EXCEPT !.wa = TRUE, !.tg = FALSE]
      BY <1>2, <2>3 DEF Route
    <3>. QED
      BY <1>2, <2>1, <2>3, <3>1 DEF Flags, Right
  <2>4. CASE /\ ~(c = "notify_telegram" /\ f.channel = "telegram")
             /\ ~(c = "notify_whatsapp" /\ f.channel = "whatsapp")
    <3>1. Route(f, c) = f
      BY <1>2, <2>4 DEF Route
    <3>. QED
      BY <1>2, <2>1, <2>4, <3>1
  <2>. QED
    BY <2>2, <2>3, <2>4
<1>. QED
  BY <1>1, <1>2

LEMMA StartSettings ==
  ASSUME LeftInv, ReadyInv, RunInv, PartsInv, SchemaInv, SettingsInv, StartNext
  PROVE  SettingsInv'
<1>. USE DEF database, process, history
<1>0. Len(<<>>) = 0 /\ 0 # 7 /\ 0 \notin {3, 4} /\ 0 # 3 /\ 0 # 4 /\ 0 \notin {1, 2}
  OBVIOUS
<1>1. ASSUME UNCHANGED <<schema, cut, flags>>, UNCHANGED config \/ NewConfig,
             left = <<>> \/ UNCHANGED <<file, left>> \/ file = 0 \/ Len(left) = 1,
             UNCHANGED <<file, left>> \/ ~(file' = 4 /\ Len(left') \in {1, 2}),
             4 \in marked' => 4 \in marked \/ (file = 4 /\ Len(left) = 1)
      PROVE  SettingsInv'
  <2>1. \/ UNCHANGED <<file, left>>
        \/ ~(file = 3 /\ Len(left) = 7) /\ ~(file = 4 /\ Len(left) \in {3, 4})
    BY <1>0, <1>1
  <2>2. SettingTypes'
    BY <1>1 DEF SettingsInv, SettingTypes, NewConfig
  <2>3. FlagsInv'
    BY <1>1, <2>1 DEF SettingsInv, FlagsInv, Routed, Right
  <2>4. ConfigInv'
    <3>1. CASE NewConfig
      BY <3>1 DEF ConfigInv, Settled, NewConfig
    <3>2. CASE UNCHANGED config
      BY <1>1, <2>1, <3>2 DEF SettingsInv, ConfigInv, Settled
    <3>. QED
      BY <1>1, <3>1, <3>2
  <2>. QED
    BY <2>2, <2>3, <2>4 DEF SettingsInv
<1>2. CASE Ends \/ Crash
  <2>1. /\ UNCHANGED <<schema, marked, flags, config>> /\ file' = 0 /\ cut \subseteq cut'
        /\ file = 3 /\ Len(left) = 7 => 3 \in cut'
        /\ file = 4 /\ Len(left) \in {3, 4} => 4 \in cut' \/ 4 \notin marked
    <3>1. /\ 7 \in 1 .. Length(3) /\ 3 \in 1 .. Length(4) /\ 4 \in 1 .. Length(4) /\ Length(4) = 4
          /\ 7 # 1 /\ 3 # 1 /\ 4 # 1
      BY Lengths
    <3>2. CASE Crash
      <4>1. /\ UNCHANGED <<schema, marked, flags, config>> /\ file' = 0 /\ cut \subseteq cut'
            /\ file = 3 /\ Len(left) \in 1 .. Length(3) => 3 \in cut' \/ Len(left) = 1
            /\ file = 4 /\ Len(left) \in 1 .. Length(4) => 4 \in cut' \/ Len(left) = 1
        BY <3>2, CrashCuts
      <4>. QED
        BY <3>1, <4>1
    <3>3. CASE Ends
      <4>1. /\ UNCHANGED <<schema, marked, flags, config, cut>> /\ file' = 0
            /\ ~(file = 3 /\ Len(left) = 7)
            /\ file = 4 /\ Len(left) \in 1 .. 4 => 4 \notin marked
        BY <3>3, FailLeaves DEF SchemaInv
      <4>. QED
        BY <3>1, <4>1
    <3>. QED
      BY <1>2, <3>2, <3>3
  <2>2. FlagsInv' /\ SettingTypes'
    BY <1>0, <2>1 DEF SettingsInv, SettingTypes, FlagsInv, Routed, Right
  <2>3. ConfigInv'
    BY <2>1 DEF SettingsInv, ConfigInv, Settled
  <2>. QED
    BY <2>2, <2>3 DEF SettingsInv
<1>3. ASSUME NEW i \in 1 .. Length(file), RunsFile(i)
      PROVE  SettingsInv'
  <2>. DEFINE s == Files[file][i]
  <2>1. /\ file \in 1 .. NumFiles /\ schema' = schema \cup {s.on} /\ Needs(s) \subseteq schema
        /\ file' = file /\ UNCHANGED <<cut, marked>>
    BY <1>3, FileEffect DEF RunsFile
  <2>2. Len(left) = Length(file) + 2 - i /\ Len(left') = Length(file) + 1 - i
        /\ (file = 3 => Length(file) = 7) /\ (file = 4 => Length(file) = 4)
    BY <1>3, Lengths DEF RunsFile
  <2>3. /\ file = 3 => /\ Len(left) = 7 <=> i = 2
                       /\ Len(left') = 7 <=> i = 1
        /\ file = 4 => /\ Len(left) \in {3, 4} <=> i \in {2, 3}
                       /\ Len(left') \in {3, 4} <=> i \in {1, 2}
                       /\ Len(left) \in {1, 2} <=> i = 4
                       /\ Len(left') \in {1, 2} => i \in {3, 4}
    BY <2>2
  <2>4. CASE s.op # "set"
    <3>1. UNCHANGED <<config, flags>>
      BY <1>3, <2>4, FileEffect
    <3>2. file = 3 => i # 2
      BY <2>4, File3 DEF Set
    <3>3. file = 4 => i \notin {3, 4}
      BY <2>4, File4 DEF Set
    <3>4. /\ s.on = WhatsAppOn => file = 3 /\ i \in {1, 2}
          /\ s.on = TwoChannels => file = 4 /\ i \in {1, 4}
      BY <2>1, FileOps
    <3>5. ConfigInv'
      BY <2>1, <2>3, <3>1, <3>2, <3>4 DEF SettingsInv, ConfigInv, Settled
    <3>6. ASSUME NEW r \in Rules, Routed(flags[r])
          PROVE  Routed(flags[r])'
      BY <2>1, <2>3, <3>1, <3>3, <3>4, <3>6 DEF Routed, Right
    <3>7. FlagsInv' /\ SettingTypes'
      BY <3>1, <3>6 DEF SettingsInv, FlagsInv, SettingTypes, Right
    <3>. QED
      BY <3>5, <3>7 DEF SettingsInv
  <2>5. CASE s.op = "set"
    <3>1. \/ file = 3 /\ i = 2 /\ s = Set("notification_config", "whatsapp_enabled")
          \/ file = 4 /\ i = 3 /\ s = Set("alert_rules", "notify_telegram")
          \/ file = 4 /\ i = 4 /\ s = Set("alert_rules", "notify_whatsapp")
      BY <2>1, <2>5, FileOps
    <3>2. CASE file = 3 /\ i = 2 /\ s = Set("notification_config", "whatsapp_enabled")
      <4>1. UNCHANGED flags
            /\ config' = IF config # None THEN [config EXCEPT !.whatsapp = config.enabled] ELSE config
        BY <1>3, <3>2, FileEffect
      <4>2. config = None \/ (config' \in Configs /\ config'.whatsapp = config'.enabled)
        BY <4>1 DEF SettingsInv, SettingTypes, Configs
      <4>3. SettingTypes' /\ ConfigInv'
        BY <4>1, <4>2 DEF SettingsInv, SettingTypes, ConfigInv, Settled
      <4>4. s.on # TwoChannels
        BY <2>1, <3>2, FileOps
      <4>5. FlagsInv'
        BY <2>1, <3>2, <4>1, <4>4 DEF SettingsInv, FlagsInv, Routed, Right
      <4>. QED
        BY <4>3, <4>5 DEF SettingsInv
    <3>3. ASSUME NEW c, s = Set("alert_rules", c), file = 4
          PROVE  /\ SettingTypes' /\ ConfigInv'
                 /\ flags' = [r \in Rules |-> Route(flags[r], c)]
                 /\ \A r \in Rules : /\ flags[r] \in Flags \cup {None}
                                     /\ flags[r].channel = "whatsapp" => flags[r] = None \/ Right(flags[r])
      <4>1. UNCHANGED config /\ flags' = [r \in Rules |-> Route(flags[r], c)]
        BY <1>3, <3>3, FileEffect
      <4>2. \A r \in Rules : /\ flags[r] \in Flags \cup {None}
                             /\ flags[r].channel = "whatsapp" => flags[r] = None \/ Right(flags[r])
        BY DEF SettingsInv, FlagsInv, SettingTypes
      <4>3. SettingTypes'
        BY <4>1, <4>2, RouteFlags DEF SettingsInv, SettingTypes
      <4>4. s.on # WhatsAppOn
        BY <2>1, <3>3, FileOps
      <4>5. ConfigInv'
        BY <2>1, <3>3, <4>1, <4>4 DEF SettingsInv, ConfigInv, Settled
      <4>. QED
        BY <4>1, <4>2, <4>3, <4>5
    <3>4. CASE file = 4 /\ i = 3 /\ s = Set("alert_rules", "notify_telegram")
      <4>1. \A r \in Rules : flags'[r] # None => Right(flags'[r])
        BY <3>3, <3>4, RouteFlags
      <4>2. FlagsInv'
        BY <4>1 DEF FlagsInv, Routed, Right
      <4>. QED
        BY <3>3, <3>4, <4>2 DEF SettingsInv
    <3>5. CASE file = 4 /\ i = 4 /\ s = Set("alert_rules", "notify_whatsapp")
      <4>1. TwoChannels \in schema
        <5>1. /\ s.op = "set" /\ s.on = TwoChannels /\ s.on[1] = "alert_rules"
              /\ Insert("notification_config").op = "insert"
          BY <3>5 DEF Set, Insert, TwoChannels
        <5>2. s.on \in Needs(s)
          BY <5>1 DEF Needs
        <5>. QED
          BY <2>1, <5>1, <5>2
      <4>2. \A r \in Rules : flags[r] # None => Right(flags[r]) \/ 4 \in cut
        BY <2>3, <3>5, <4>1 DEF SettingsInv, FlagsInv, Routed
      <4>3. \A r \in Rules : flags'[r] # None =>
              /\ Right(flags'[r]) \/ 4 \in cut'
              /\ flags'[r].channel = "whatsapp" => Right(flags'[r])
        BY <2>1, <3>3, <3>5, <4>2, RouteFlags
      <4>4. FlagsInv'
        BY <4>3 DEF FlagsInv, Routed, Right
      <4>. QED
        BY <3>3, <3>5, <4>4 DEF SettingsInv
    <3>. QED
      BY <3>1, <3>2, <3>4, <3>5
  <2>. QED
    BY <2>4, <2>5
<1>4. CASE RunsSeed
  <2>1. UNCHANGED <<schema, marked, cut, flags, file>> /\ file = 0 /\ (UNCHANGED config \/ NewConfig)
    BY <1>4, InsertedConfig DEF RunsSeed
  <2>. QED
    BY <1>0, <1>1, <2>1
<1>9. CASE RunsMark \/ RunsFirstMark
  <2>1. /\ UNCHANGED <<schema, cut, flags, config, file>>
        /\ (file = 0 \/ (Len(left) = 1 /\ left' = <<>>))
        /\ 4 \in marked' => 4 \in marked \/ (file = 4 /\ Len(left) = 1)
    BY <1>9 DEF RunsMark, RunsFirstMark
  <2>. QED
    BY <1>0, <1>1, <2>1
<1>5. CASE Execute
  BY <1>2, <1>3, <1>4, <1>5, <1>9, ExecuteSteps
<1>6. CASE Crash
  BY <1>2, <1>6
<1>7. CASE \/ \E c \in Configured \cup {None} : Start(c)
           \/ FilesDone \/ StoredSecret \/ NewSecret \/ NewSecretUnsaved
  BY <1>1, <1>7 DEF Start, FilesDone, StoredSecret, NewSecret, NewSecretUnsaved, EnsureSecret
<1>8. CASE Bootstrap \/ Seed
  BY <1>1, <1>8 DEF Bootstrap, Seed, LeftInv, FileLeft
<1>10. ASSUME NEW f \in 1 .. NumFiles, Apply(f), left = <<>>
       PROVE  SettingsInv'
  <2>1. /\ file' = f /\ Len(left') = Length(f) + 1
        /\ UNCHANGED <<schema, marked, config, flags, cut>>
    BY <1>10, StepsOf DEF Apply
  <2>2. ~(file' = 4 /\ Len(left') \in {1, 2})
    BY <2>1, Lengths
  <2>. QED
    BY <1>1, <1>10, <2>1, <2>2
<1>11. CASE NextFile \/ Repair
  BY <1>10, <1>11 DEF NextFile, Repair, NumFiles
<1>. QED
  BY <1>5, <1>6, <1>7, <1>8, <1>11 DEF StartNext, Progress

-----------------------------------------------------------------------------
(* What is known when the rows that must exist are inserted, and when the      *)
(* server runs.                                                                *)

StartInv == LeftInv /\ ReadyInv /\ RunInv /\ PartsInv /\ SchemaInv /\ SettingsInv

LEMMA StartReady ==
  ASSUME KeyTypes, LeftInv, SettingsInv, ReadyInv, StartNext
  PROVE  ReadyInv'
<1>. USE DEF database, process, history
<1>1. CASE pc' \notin {"repair", "seed", "open"}
  BY <1>1 DEF ReadyInv
<1>2. CASE Ends \/ Crash
  BY <1>1, <1>2 DEF Ends, Crash, End
<1>3. CASE (\E c \in Configured \cup {None} : Start(c)) \/ Bootstrap
  BY <1>1, <1>3 DEF Start, Bootstrap
<1>4. CASE pc' = pc /\ pc \in {"files", "repair"} /\ marked \subseteq marked'
  BY <1>4 DEF ReadyInv
<1>5. CASE NextFile \/ Repair
  BY <1>4, <1>5 DEF NextFile, Repair, Apply
<1>6. CASE RunsMark \/ RunsFirstMark \/ \E i \in 1 .. Length(file) : RunsFile(i)
  BY <1>4, <1>6 DEF RunsMark, RunsFirstMark, RunsFile
<1>7. CASE FilesDone
  BY <1>7 DEF FilesDone, ReadyInv
<1>8. CASE Seed
  <2>1. /\ pc' = "seed" /\ file' = 0 /\ UNCHANGED <<marked, schema>> /\ TwoChannels \in schema
        /\ pc = "repair"
        /\ left' = <<Use("sessions"), Use("users"), Insert("notification_config"), Insert("app_settings")>>
    BY <1>8 DEF Seed, Repaired, TwoChannels
  <2>2. Len(left') = 4
    BY <2>1
  <2>. QED
    BY <2>1, <2>2 DEF ReadyInv
<1>9. CASE RunsSeed
  <2>1. /\ pc = "seed" /\ pc' = pc /\ UNCHANGED <<file, marked, schema, cut>>
        /\ 1 .. NumFiles \subseteq marked /\ file = 0 /\ TwoChannels \in schema
    BY <1>9 DEF RunsSeed, ReadyInv
  <2>2. CASE /\ left = <<Use("sessions"), Use("users"), Insert("notification_config"), Insert("app_settings")>>
             /\ left' = <<Use("users"), Insert("notification_config"), Insert("app_settings")>>
             /\ Sessions \in schema /\ UNCHANGED <<config, secret>>
    <3>1. Len(left') = 3
      BY <2>2
    <3>. QED
      BY <2>1, <2>2, <3>1 DEF ReadyInv
  <2>3. CASE /\ left = <<Use("users"), Insert("notification_config"), Insert("app_settings")>>
             /\ left' = <<Insert("notification_config"), Insert("app_settings")>>
             /\ UNCHANGED <<config, secret>>
    <3>1. Len(left') = 2 /\ Len(left) = 3
      BY <2>3
    <3>. QED
      BY <2>1, <2>3, <3>1 DEF ReadyInv
  <2>4. CASE /\ left = <<Insert("notification_config"), Insert("app_settings")>>
             /\ left' = <<Insert("app_settings")>>
             /\ config' = IF config = None THEN [enabled |-> FALSE, whatsapp |-> FALSE, telegram |-> FALSE]
                          ELSE config
             /\ UNCHANGED secret
    <3>1. Len(left') = 1 /\ Len(left) = 2
      BY <2>4
    <3>2. Settled'
      <4>1. CASE config = None
        <5>1. config'.whatsapp = config'.enabled
          BY <2>4, <4>1
        <5>. QED
          BY <5>1 DEF Settled
      <4>2. CASE config # None
        BY <2>1, <2>4, <4>2 DEF SettingsInv, ConfigInv, Settled
      <4>. QED
        BY <4>1, <4>2
    <3>. QED
      BY <2>1, <2>4, <3>1, <3>2 DEF ReadyInv
  <2>5. CASE /\ left = <<Insert("app_settings")>> /\ left' = <<>>
             /\ UNCHANGED config /\ secret' = IF secret = None THEN 0 ELSE secret
    <3>1. Len(left') = 0 /\ Len(left) = 1
      BY <2>5
    <3>2. secret' # None
      BY <2>5, Apart
    <3>3. Settled'
      BY <2>1, <2>5, <3>1 DEF ReadyInv, Settled
    <3>. QED
      BY <2>1, <2>5, <3>1, <3>2, <3>3 DEF ReadyInv
  <2>. QED
    BY <1>9, <2>2, <2>3, <2>4, <2>5 DEF RunsSeed
<1>10. CASE Execute
  BY <1>2, <1>6, <1>9, <1>10, ExecuteSteps
<1>11. CASE StoredSecret \/ NewSecret \/ NewSecretUnsaved
  <2>1. /\ pc = "seed" /\ left = <<>> /\ UNCHANGED <<schema, marked, config, file, left, cut>>
        /\ Len(left) = 0
    BY <1>11 DEF StoredSecret, NewSecret, NewSecretUnsaved, EnsureSecret, Resolving
  <2>2. pc' = "open" => key' # None
    <3>1. CASE StoredSecret
      BY <2>1, <3>1 DEF StoredSecret, Opens, ReadyInv
    <3>2. CASE NewSecret \/ NewSecretUnsaved
      <4>1. PICK s \in Configured \cup {issued + 1} : EnsureSecret(s)
        BY <3>2 DEF NewSecret, NewSecretUnsaved
      <4>2. s # None /\ key' = s
        BY <4>1, Apart DEF KeyTypes, EnsureSecret, Opens
      <4>. QED
        BY <4>2
    <3>. QED
      BY <1>11, <3>1, <3>2
  <2>3. pc' \in {"open", "refused"}
    BY <1>11 DEF StoredSecret, NewSecret, NewSecretUnsaved, EnsureSecret, Opens
  <2>. QED
    BY <2>1, <2>2, <2>3 DEF ReadyInv, Settled
<1>. QED
  BY <1>2, <1>3, <1>5, <1>7, <1>8, <1>10, <1>11 DEF StartNext, Progress

\* Of what a start made, requests write the notification settings only.
LEMMA RequestStart ==
  ASSUME Next, ~Starting
  PROVE  /\ UNCHANGED <<schema, marked, flags, secret, pc, file, left, key, cut, unsaved>>
         /\ UNCHANGED config \/ NewConfig
<1>. USE DEF startVars, database, process, history
<1>1. CASE UpdateNotificationConfig
  <2>1. PICK wa \in BOOLEAN, tg \in BOOLEAN : config' = [enabled |-> wa, whatsapp |-> wa, telegram |-> tg]
    BY <1>1 DEF UpdateNotificationConfig
  <2>2. config' \in Configs
    BY <2>1 DEF Configs
  <2>3. config'.whatsapp = config'.enabled
    BY <2>1
  <2>. QED
    BY <1>1, <2>2, <2>3 DEF UpdateNotificationConfig, NewConfig
<1>2. CASE ~UpdateNotificationConfig
  BY <1>2, ZenonT(60) DEF Next, Copying, Request, Fault, NoFault, At, CreateDevice, UpdateDevice, DeleteDevice,
     SetMonitoredInterfaces, ValidateRuleNotifyChannels, SaveRule,
     DeleteAlertRule, CopyDevice, CopyCreate, CopyList, CopyInterface, CopyListRules,
     CopyFindInterface, CopyRule, CopyEnds
<1>. QED
  BY <1>1, <1>2

LEMMA NextStart == KeyTypes /\ StartInv /\ [Next]_vars => StartInv'
<1>. SUFFICES ASSUME KeyTypes, StartInv, [Next]_vars
              PROVE  StartInv'
  OBVIOUS
<1>1. CASE Starting
  BY <1>1, StartLeft, StartRun, StartParts, StartSchema, StartSettings, StartReady DEF Starting, StartInv
<1>2. ASSUME UNCHANGED <<schema, marked, flags, secret, pc, file, left, key, cut, unsaved>>,
             UNCHANGED config \/ NewConfig
      PROVE  StartInv'
  <2>1. LeftInv'
    BY <1>2 DEF StartInv, LeftInv, FileLeft, OtherLeft, Held
  <2>2. SchemaInv'
    BY <1>2 DEF StartInv, SchemaInv, FirstWhole, ThirdWhole, FourthWhole, FifthWhole, Whole
  <2>3. Settled => Settled'
    BY <1>2 DEF Settled, NewConfig
  <2>4. SettingsInv'
    <3>1. SettingTypes'
      BY <1>2 DEF StartInv, SettingsInv, SettingTypes, NewConfig
    <3>2. FlagsInv'
      BY <1>2 DEF StartInv, SettingsInv, FlagsInv, Routed, Right
    <3>3. ConfigInv'
      BY <1>2, <2>3 DEF StartInv, SettingsInv, ConfigInv, NewConfig, Settled
    <3>. QED
      BY <3>1, <3>2, <3>3 DEF SettingsInv
  <2>5. ReadyInv'
    BY <1>2, <2>3 DEF StartInv, ReadyInv
  <2>6. RunInv' /\ PartsInv'
    BY <1>2 DEF StartInv, RunInv, PartsInv
  <2>. QED
    BY <2>1, <2>2, <2>4, <2>5, <2>6 DEF StartInv
<1>3. CASE ~Starting /\ Next
  BY <1>2, <1>3, RequestStart
<1>4. CASE UNCHANGED vars
  BY <1>2, <1>4 DEF vars, startVars, database, process, history
<1>. QED
  BY <1>1, <1>3, <1>4

\* An object is there at first if it is of a file that was run.
LEMMA InitObjects ==
  ASSUME NEW n \in 0 .. NumFiles
  PROVE  /\ \A x \in Objects(1 .. n) :
              \E f \in 1 .. NumFiles : f <= n /\ \E i \in 1 .. Length(f) : x = Files[f][i].on
         /\ \A f \in 1 .. NumFiles : f <= n =>
              \A i \in 1 .. Length(f) : Files[f][i].on \in Objects(1 .. n)
<1>1. \A f \in 1 .. n : f \in 1 .. NumFiles /\ f <= n
  BY DEF NumFiles
<1>2. ASSUME NEW x \in Objects(1 .. n)
      PROVE  \E f \in 1 .. NumFiles : f <= n /\ \E i \in 1 .. Length(f) : x = Files[f][i].on
  <2>1. PICK f \in 1 .. n : \E i \in DOMAIN Files[f] : x = Files[f][i].on
    BY <1>2 DEF Objects
  <2>. QED
    BY <1>1, <2>1, Lengths
<1>3. ASSUME NEW f \in 1 .. NumFiles, f <= n, NEW i \in 1 .. Length(f)
      PROVE  Files[f][i].on \in Objects(1 .. n)
  <2>1. f \in 1 .. n /\ i \in DOMAIN Files[f]
    BY <1>3, Lengths
  <2>. QED
    BY <2>1 DEF Objects
<1>. QED
  BY <1>2, <1>3

LEMMA InitStart == Init => StartInv
<1>. SUFFICES ASSUME Init
              PROVE  StartInv
  OBVIOUS
<1>1. PICK o \in Origins :
        /\ schema = Objects(1 .. o.ran)
        /\ marked = 1 .. o.marked
        /\ o.ran = 0 => config = None /\ flags = [r \in Rules |-> None]
        /\ o.ran # 0 => \E on \in BOOLEAN :
                          config = [enabled |-> on, whatsapp |-> on /\ o.ran > 2, telegram |-> FALSE]
        /\ o.ran # 0 => flags \in [Rules -> IF o.ran < 3 THEN {NoChannel} ELSE
                                 {[channel |-> c, wa |-> o.ran = 3 \/ c = "whatsapp",
                                   tg |-> o.ran > 3 /\ c = "telegram"] : c \in Channels}]
  BY DEF Init
<1>2. /\ pc = "down" /\ file = 0 /\ left = <<>> /\ cut = {}
  BY DEF Init
<1>3. PICK n \in 0 .. NumFiles, m \in 0 .. NumFiles :
        n = o.ran /\ m = o.marked /\ (m = NumFiles => n = NumFiles)
  BY StartupAssumption
<1>4. /\ \A x \in schema :
           \E f \in 1 .. NumFiles : f <= n /\ \E i \in 1 .. Length(f) : x = Files[f][i].on
      /\ \A f \in 1 .. NumFiles : f <= n => Whole(f)
  BY <1>1, <1>3, InitObjects DEF Whole
<1>5. LeftInv
  <2>1. marked \subseteq 1 .. NumFiles
    BY <1>1, <1>3 DEF NumFiles
  <2>2. 0 \in 0 .. NumFiles
    BY DEF NumFiles
  <2>. QED
    BY <1>2, <2>1, <2>2 DEF LeftInv, OtherLeft
<1>6. /\ History \in schema => n >= 1
      /\ HistoryChannel \in schema => n >= 3
      /\ OneChannel \in schema => n >= 3
      /\ TwoChannels \in schema => n >= 4
      /\ WhatsAppOn \in schema => n >= 3
      /\ Devices \in schema => n >= 1
      /\ Telegram \in schema => n >= 4
  BY <1>3, <1>4, FileOps
<1>7. SchemaInv
  <2>1. 1 \in 1 .. NumFiles /\ 3 \in 1 .. NumFiles /\ 4 \in 1 .. NumFiles /\ 5 \in 1 .. NumFiles
    BY DEF NumFiles
  <2>2. n >= 3 => History \in schema /\ OneChannel \in schema
    <3>1. ASSUME n >= 3
          PROVE  Whole(1) /\ Whole(3)
      BY <1>3, <1>4, <2>1, <3>1
    <3>2. Files[1][8].on = History /\ Files[3][6].on = OneChannel
          /\ 8 \in 1 .. Length(1) /\ 6 \in 1 .. Length(3)
      BY File1, File3, Lengths, SMTT(30)
    <3>. QED
      BY <3>1, <3>2 DEF Whole
  <2>3. FirstWhole
    BY <1>3, <1>4, <1>6, <2>1, <2>2 DEF FirstWhole
  <2>4. ThirdWhole
    BY <1>3, <1>4, <1>6, <2>1 DEF ThirdWhole
  <2>5. FourthWhole
    <3>1. ASSUME TwoChannels \in schema
          PROVE  Whole(4) /\ OneChannel \in schema
      <4>1. n >= 4 /\ n >= 3
        BY <1>3, <1>6, <3>1
      <4>. QED
        BY <1>4, <2>1, <2>2, <4>1
    <3>. QED
      BY <3>1 DEF FourthWhole
  <2>6. FifthWhole
    <3>1. 5 \in marked => n >= 5
      BY <1>1, <1>3 DEF NumFiles
    <3>. QED
      BY <1>3, <1>4, <2>1, <3>1 DEF FifthWhole
  <2>. QED
    BY <2>3, <2>4, <2>5, <2>6 DEF SchemaInv
<1>8. SettingsInv
  <2>1. CASE n = 0
    <3>1. config = None /\ flags = [r \in Rules |-> None]
      BY <1>1, <1>3, <2>1
    <3>. QED
      BY <3>1 DEF SettingsInv, SettingTypes, ConfigInv, FlagsInv
  <2>2. CASE n # 0
    <3>1. PICK on \in BOOLEAN :
            config = [enabled |-> on, whatsapp |-> on /\ n > 2, telegram |-> FALSE]
      BY <1>1, <1>3, <2>2
    <3>2. config \in Configs
      BY <3>1 DEF Configs
    <3>3. n > 2 => config.whatsapp = config.enabled
      BY <3>1
    <3>4. ConfigInv
      BY <1>3, <1>6, <3>3 DEF ConfigInv, Settled
    <3>5. ASSUME NEW r \in Rules
          PROVE  /\ flags[r] \in Flags
                 /\ flags[r].channel = "whatsapp" => Right(flags[r])
                 /\ n # 3 => Right(flags[r])
      <4>1. CASE n < 3
        <5>1. flags[r] = NoChannel
          BY <1>1, <1>3, <2>2, <4>1
        <5>2. NoChannel \in Flags
          BY DEF NoChannel, Flags, Channels
        <5>3. NoChannel.channel = "whatsapp" /\ NoChannel.wa = TRUE /\ NoChannel.tg = FALSE
          BY DEF NoChannel
        <5>4. Right(NoChannel)
          BY <5>3 DEF Right
        <5>. QED
          BY <5>1, <5>2, <5>4
      <4>2. CASE ~(n < 3)
        <5>1. PICK c \in Channels : flags[r] = [channel |-> c, wa |-> n = 3 \/ c = "whatsapp",
                                                tg |-> n > 3 /\ c = "telegram"]
          BY <1>1, <1>3, <2>2, <4>2
        <5>2. flags[r] \in Flags
          BY <5>1 DEF Flags
        <5>3. /\ flags[r].channel = c /\ flags[r].wa = (n = 3 \/ c = "whatsapp")
              /\ flags[r].tg = (n > 3 /\ c = "telegram")
          BY <5>1
        <5>. QED
          BY <1>3, <4>2, <5>2, <5>3 DEF Right, Channels
      <4>. QED
        BY <4>1, <4>2
    <3>6. FlagsInv
      BY <1>3, <1>6, <3>5 DEF FlagsInv, Routed
    <3>7. SettingTypes
      BY <1>1, <2>2, <1>3, <3>2, <3>5 DEF SettingTypes
    <3>. QED
      BY <3>4, <3>6, <3>7 DEF SettingsInv
  <2>. QED
    BY <2>1, <2>2
<1>9. ReadyInv
  BY <1>2 DEF ReadyInv
<1>10. RunInv /\ PartsInv
  <2>1. 1 \in 1 .. NumFiles /\ 4 \in 1 .. NumFiles /\ NumFiles = 5
    BY DEF NumFiles
  <2>2. ASSUME n >= 1
        PROVE  History \in schema
    <3>1. Files[1][8].on = History /\ 8 \in 1 .. Length(1) /\ Whole(1)
      BY <1>3, <1>4, <2>1, <2>2, File1, Lengths
    <3>. QED
      BY <3>1 DEF Whole
  <2>3. ASSUME n >= 4
        PROVE  TwoChannels \in schema
    <3>1. Files[4][1].on = TwoChannels /\ 1 \in 1 .. Length(4) /\ Whole(4)
      BY <1>3, <1>4, <2>1, <2>3, File4, Lengths
    <3>. QED
      BY <3>1 DEF Whole
  <2>4. (3 \in marked => 1 \in marked) /\ (5 \in marked => n >= 1)
    BY <1>1, <1>3, <2>1
  <2>. QED
    BY <1>2, <1>3, <1>6, <2>2, <2>3, <2>4 DEF RunInv, PartsInv
<1>. QED
  BY <1>5, <1>7, <1>8, <1>9, <1>10 DEF StartInv

LEMMA StartInvariant == Spec => []StartInv
<1>1. TablesInit => StartInv
  BY InitStart DEF TablesInit
<1>. QED
  BY <1>1, NextStart, KeyTypesInvariant, PTL DEF Spec

\* A server that runs has all its tables and columns, whatever database it
\* found and wherever earlier starts ended; an end inside the third or the
\* fourth file is the exception.
THEOREM SchemaIsComplete == Spec => []OpenIsComplete
<1>1. StartInv => OpenIsComplete
  <2>. SUFFICES ASSUME StartInv, pc = "open", cut \cap {3, 4} = {}
                PROVE  marked = 1 .. NumFiles /\ Objects(1 .. NumFiles) \subseteq schema
    BY DEF OpenIsComplete
  <2>1. /\ 1 .. NumFiles \subseteq marked /\ marked \subseteq 1 .. NumFiles /\ file = 0
        /\ TwoChannels \in schema /\ Sessions \in schema
        /\ 5 \in marked /\ 4 \in marked /\ 3 \in marked
    BY DEF StartInv, ReadyInv, LeftInv, NumFiles
  <2>2. Whole(4) /\ OneChannel \in schema
    BY <2>1 DEF StartInv, SchemaInv, FourthWhole
  <2>3. Whole(3)
    BY <2>1, <2>2 DEF StartInv, SchemaInv, ThirdWhole
  <2>4. Whole(1)
    <3>1. 7 \in 1 .. Length(3) /\ Files[3][7].on = HistoryChannel
      BY Lengths, File3
    <3>2. HistoryChannel \in schema
      BY <2>3, <3>1 DEF Whole
    <3>. QED
      BY <3>2 DEF StartInv, SchemaInv, FirstWhole
  <2>5. Whole(2)
    BY <2>1, File2, Lengths DEF Whole
  <2>6. Whole(5)
    BY <2>1 DEF StartInv, SchemaInv, FifthWhole
  <2>7. \A f \in 1 .. NumFiles : Whole(f)
    BY <2>2, <2>3, <2>4, <2>5, <2>6, Lengths
  <2>8. NumFiles \in 0 .. NumFiles
    BY DEF NumFiles
  <2>9. Objects(1 .. NumFiles) \subseteq schema
    BY <2>7, <2>8, InitObjects, SMTT(30) DEF Whole
  <2>. QED
    BY <2>1, <2>9
<1>. QED
  BY <1>1, StartInvariant, PTL

\* An upgrade keeps WhatsApp on or off, and a rule's one channel, with the same
\* exception.
THEOREM SettingsAreKept == Spec => []UpgradeKeepsSettings
<1>1. StartInv => UpgradeKeepsSettings
  <2>. SUFFICES ASSUME StartInv, pc = "open", cut \cap {3, 4} = {}
                PROVE  /\ config.whatsapp = config.enabled
                       /\ \A r \in Rules : flags[r] # None => Right(flags[r])
    BY DEF UpgradeKeepsSettings, Right
  <2>1. file = 0 /\ TwoChannels \in schema /\ Settled /\ 3 \in marked /\ 4 \in marked
    BY DEF StartInv, ReadyInv, NumFiles
  <2>2. \A r \in Rules : flags[r] # None => Right(flags[r])
    BY <2>1 DEF StartInv, SettingsInv, FlagsInv, Routed
  <2>3. WhatsAppOn \in schema
    <3>1. Whole(4) /\ OneChannel \in schema
      BY <2>1 DEF StartInv, SchemaInv, FourthWhole
    <3>2. Whole(3)
      BY <2>1, <3>1 DEF StartInv, SchemaInv, ThirdWhole
    <3>. QED
      BY <3>2, Lengths, File3 DEF Whole
  <2>. QED
    BY <2>1, <2>2, <2>3 DEF Settled
<1>. QED
  BY <1>1, StartInvariant, PTL
-----------------------------------------------------------------------------
(* Rules.  A rule that was checked with its device's own interface and is not  *)
(* saved yet, and one that is about to be copied, name an interface that was   *)
(* the device's: it is gone by then or still is, as its id is not given to     *)
(* another.                                                                    *)

Owned(x, d) == x # All => x <= given.iface /\ (iface[x] # None => iface[x].dev = d)
Sound(row, own) ==
    /\ device[row.dev] # None
    /\ row.iface # All => /\ iface[row.iface] # None
                          /\ own => iface[row.iface].dev = row.dev
Kept(r) == Sound(rule[r], r \notin astray)
RuleInv ==
    /\ \A r \in RuleIds : rule[r] # None => Kept(r)
    /\ checked # None /\ checked.own => Owned(checked.row.iface, checked.row.dev)
    /\ copy.at = "insert" => Owned(copy.to, copy.new)

\* An id that was given out keeps its interface or loses it.
OnlyDropped ==
    /\ given'.iface >= given.iface
    /\ \A x \in IfaceIds : x <= given.iface => iface'[x] \in {iface[x], None}

LEMMA NextDrops == KeyTypes /\ TableTypes /\ [Next]_vars => OnlyDropped
<1>. SUFFICES ASSUME KeyTypes, RowTypes, HandlerTypes, GivenOut, [Next]_vars
              PROVE  OnlyDropped
  BY DEF TableTypes
<1>0. given.iface \in Nat /\ key \in Keys
  BY DEF RowTypes, KeyTypes
<1>1. CASE UNCHANGED iface /\ given'.iface = given.iface
  BY <1>0, <1>1 DEF OnlyDropped
<1>2. CASE InsertDevice /\ UNCHANGED <<iface, rule>>
  BY <1>0, <1>1, <1>2, InsertDeviceTypes
<1>3. ASSUME NEW row \in RuleRows, InsertRule(row), UNCHANGED <<device, iface>>
      PROVE  OnlyDropped
  BY <1>1, <1>3, InsertRuleTypes
<1>4. ASSUME NEW row \in IfaceRows, AddMonitoredInterface(row), UNCHANGED device
      PROVE  OnlyDropped
  <2>1. given'.iface >= given.iface
    BY <1>4, AddInterfaceTypes
  <2>2. CASE UNCHANGED iface
    BY <2>1, <2>2 DEF OnlyDropped
  <2>3. ASSUME NEW old \in SUBSET IfaceIds,
               \A i \in IfaceIds : iface'[i] = IF i = given.iface + 1 THEN row
                                               ELSE IF i \in old THEN None ELSE iface[i]
        PROVE  OnlyDropped
    BY <1>0, <2>1, <2>3, Ids DEF OnlyDropped
  <2>. QED
    BY <1>4, <2>2, <2>3, AddInterfaceTypes
<1>5. ASSUME NEW d \in DeviceIds, DeleteDevice(d)
      PROVE  OnlyDropped
  BY <1>0, <1>5 DEF DeleteDevice, OnlyDropped
<1>6. ASSUME NEW d \in DeviceIds, SetMonitoredInterfaces(d)
      PROVE  OnlyDropped
  <2>1. PICK order \in [1 .. Cardinality(Names) -> Names], n \in 0 .. Cardinality(Names) :
          /\ iface' = [i \in IfaceIds |-> IF i - given.iface \in 1 .. n
                                          THEN [dev |-> d, name |-> order[i - given.iface]]
                                          ELSE IF i \in IfacesOf(d) THEN None ELSE iface[i]]
          /\ given' = [given EXCEPT !.iface = @ + n]
    BY <1>6 DEF SetMonitoredInterfaces
  <2>2. Cardinality(Names) \in Nat
    BY TablesAssumption, FS_CardinalityType
  <2>3. given'.iface = given.iface + n
    BY <2>1, <2>2, GivenFields DEF RowTypes
  <2>4. \A i \in IfaceIds : i <= given.iface => ~(i - given.iface \in 1 .. n)
    BY <1>0, Ids
  <2>5. \A i \in IfaceIds : i <= given.iface => iface'[i] \in {iface[i], None}
    BY <2>1, <2>4
  <2>. QED
    BY <1>0, <2>2, <2>3, <2>5 DEF OnlyDropped
<1>7. CASE SaveRule
  <2>1. checked.row \in RuleRows /\ UNCHANGED <<device, iface>>
    BY <1>7 DEF SaveRule, HandlerTypes
  <2>2. InsertRule(checked.row) \/ UNCHANGED given
    BY <1>7 DEF SaveRule
  <2>. QED
    BY <1>1, <1>3, <2>1, <2>2
<1>8. CASE CopyCreate
  BY <1>1, <1>2, <1>8 DEF CopyCreate
<1>9. CASE CopyInterface
  <2>1. PICK i \in copy.todo :
          \/ AddMonitoredInterface([dev |-> copy.new, name |-> copy.names[i]])
          \/ UNCHANGED <<iface, rule, given>>
    BY <1>9 DEF CopyInterface
  <2>2. [dev |-> copy.new, name |-> copy.names[i]] \in IfaceRows
    <3>1. copy.at = "add" /\ i \in DOMAIN copy.names
      BY <1>9, <2>1 DEF CopyInterface, At, HandlerTypes
    <3>2. copy.new \in DeviceIds /\ copy.names[i] \in Names
      BY <3>1, CopyFields DEF HandlerTypes
    <3>. QED
      BY <3>2 DEF IfaceRows
  <2>. QED
    BY <1>1, <1>4, <1>9, <2>1, <2>2 DEF CopyInterface
<1>10. CASE CopyRule
  <2>1. [dev |-> copy.new, iface |-> copy.to, wa |-> TRUE, tg |-> FALSE] \in RuleRows
    BY <1>10, CopyFields DEF CopyRule, At, HandlerTypes, RuleRows
  <2>. QED
    BY <1>1, <1>3, <1>10, <2>1 DEF CopyRule
<1>11. CASE \/ UpdateNotificationConfig \/ ValidateRuleNotifyChannels \/ CopyList \/ CopyListRules
            \/ CopyFindInterface \/ CopyEnds \/ Starting \/ \E d \in DeviceIds : CopyDevice(d)
            \/ \E d \in DeviceIds : UpdateDevice(d)
            \/ \E r \in RuleIds : DeleteAlertRule(r)
  BY <1>1, <1>11 DEF UpdateNotificationConfig, ValidateRuleNotifyChannels, CopyList, CopyListRules,
     CopyFindInterface, CopyEnds, Starting, CopyDevice, UpdateDevice, DeleteAlertRule, tables
<1>12. CASE UNCHANGED vars
  BY <1>1, <1>12 DEF vars, tableVars, tables
<1>13. CASE CreateDevice
  BY <1>2, <1>13 DEF CreateDevice
<1>. QED
  BY <1>5, <1>6, <1>7, <1>8, <1>9, <1>10, <1>11, <1>12, <1>13 DEF Next, Copying

LEMMA StaysOwned ==
  ASSUME TableTypes, OnlyDropped, given'.iface \in Nat,
         NEW x \in IfaceIds \cup {All}, NEW d \in DeviceIds, Owned(x, d)
  PROVE  Owned(x, d)'
<1>1. CASE x = All
  BY <1>1 DEF Owned
<1>2. CASE x # All
  <2>1. x \in IfaceIds /\ x \in Nat /\ x <= given.iface /\ given.iface \in Nat
    BY <1>2, Ids DEF Owned, TableTypes, RowTypes
  <2>2. x <= given'.iface
    BY <2>1 DEF OnlyDropped
  <2>3. iface'[x] \in {iface[x], None}
    BY <2>1 DEF OnlyDropped
  <2>. QED
    BY <1>2, <2>2, <2>3 DEF Owned
<1>. QED
  BY <1>1, <1>2

\* A row that is not refused is sound.
LEMMA AcceptedIsSound ==
  ASSUME NEW row \in RuleRows, NEW own \in BOOLEAN, own => Owned(row.iface, row.dev), ~Refused(row)
  PROVE  Sound(row, own)
<1>1. "iface" \in DOMAIN row
  BY DEF RuleRows
<1>. QED
  BY <1>1 DEF Refused, Owned, Sound

\* The rules stay sound where devices stay and the rules of the interfaces that
\* go, go with them.
LEMMA StaysSound ==
  ASSUME TableTypes, RuleInv, NEW I, UNCHANGED astray,
         \A i \in IfaceIds : i <= given.iface /\ i \notin I => iface'[i] = iface[i],
         \A r \in RuleIds : rule'[r] # None =>
           /\ rule'[r] = WithoutRules(I)[r]
           /\ device[rule[r].dev] # None => device'[rule[r].dev] # None
  PROVE  \A r \in RuleIds : rule'[r] # None => Kept(r)'
<1>. SUFFICES ASSUME NEW r \in RuleIds, rule'[r] # None
              PROVE  Kept(r)'
  OBVIOUS
<1>1. rule'[r] = rule[r] /\ rule[r] # None /\ rule[r].iface \notin I
  BY DEF WithoutRules
<1>2. PICK row \in RuleRows : row = rule[r]
  BY <1>1 DEF TableTypes, RowTypes
<1>3. row.dev \in DeviceIds /\ row.iface \in IfaceIds \cup {All}
  BY DEF RuleRows
<1>4. Sound(row, r \notin astray)
  BY <1>1, <1>2 DEF RuleInv, Kept
<1>5. device'[row.dev] # None
  BY <1>2, <1>4 DEF Sound
<1>6. ASSUME row.iface # All
      PROVE  iface'[row.iface] = iface[row.iface]
  BY <1>1, <1>2, <1>3, <1>4, <1>6 DEF Sound, TableTypes, GivenOut
<1>. QED
  BY <1>1, <1>2, <1>4, <1>5, <1>6 DEF Sound, Kept

\* Of a request that nothing but a rule's row changes.
LEMMA OneRowSound ==
  ASSUME TableTypes, RuleInv, NEW row \in RuleRows, NEW own \in BOOLEAN,
         own => Owned(row.iface, row.dev),
         UNCHANGED <<device, iface>>,
         \A r \in RuleIds : \/ rule'[r] = None
                            \/ rule'[r] = rule[r] /\ (r \in astray => r \in astray')
                            \/ rule'[r] = row /\ ~Refused(row) /\ (r \notin astray' => own)
  PROVE  \A r \in RuleIds : rule'[r] # None => Kept(r)'
<1>. SUFFICES ASSUME NEW r \in RuleIds, rule'[r] # None
              PROVE  Kept(r)'
  OBVIOUS
<1>1. CASE rule'[r] = rule[r] /\ (r \in astray => r \in astray')
  BY <1>1 DEF RuleInv, Sound, Kept
<1>2. CASE rule'[r] = row /\ ~Refused(row) /\ (r \notin astray' => own)
  <2>1. Sound(row, own)
    BY <1>2, AcceptedIsSound
  <2>. QED
    BY <1>2, <2>1 DEF Sound, Kept
<1>. QED
  BY <1>1, <1>2

\* Where a rule was put, and whether it counts as astray then.
LEMMA SavedRule ==
  ASSUME TableTypes, SaveRule
  PROVE  /\ checked.row \in RuleRows /\ checked.own \in BOOLEAN /\ UNCHANGED <<device, iface>>
         /\ \A r \in RuleIds :
              \/ rule'[r] = rule[r] /\ (r \in astray => r \in astray')
              \/ rule'[r] = checked.row /\ ~Refused(checked.row) /\ (r \notin astray' => checked.own)
<1>1. /\ checked.row \in RuleRows /\ checked.id \in RuleIds \cup {0} /\ checked.own \in BOOLEAN
      /\ UNCHANGED <<device, iface>> /\ rule \in [RuleIds -> RuleRows \cup {None}]
      /\ given.rule \in Nat
  BY DEF SaveRule, TableTypes, HandlerTypes, RowTypes
<1>2. \A r \in RuleIds : r \in astray' <=> IF Saves(r) THEN ~checked.own ELSE r \in astray
  BY DEF SaveRule
<1>3. \A r \in RuleIds : IF Saves(r) THEN rule'[r] = checked.row /\ ~Refused(checked.row)
                                     ELSE rule'[r] = rule[r]
  <2>1. CASE checked.id = 0 /\ Refused(checked.row)
    BY <1>1, <2>1 DEF SaveRule, InsertRule, Saves
  <2>2. CASE checked.id = 0 /\ ~Refused(checked.row)
    <3>1. rule' = [rule EXCEPT ![given.rule + 1] = checked.row]
      BY <2>2 DEF SaveRule, InsertRule
    <3>. QED
      BY <1>1, <2>2, <3>1 DEF Saves
  <2>3. CASE checked.id # 0 /\ (rule[checked.id] = None \/ Refused(checked.row))
    BY <1>1, <2>3 DEF SaveRule, Saves
  <2>4. CASE checked.id # 0 /\ rule[checked.id] # None /\ ~Refused(checked.row)
    <3>1. rule' = [rule EXCEPT ![checked.id] = checked.row]
      BY <2>4 DEF SaveRule
    <3>. QED
      BY <1>1, <2>4, <3>1 DEF Saves
  <2>. QED
    BY <2>1, <2>2, <2>3, <2>4
<1>. QED
  BY <1>1, <1>2, <1>3

LEMMA NextRules ==
  ASSUME KeyTypes, TableTypes, ReadyInv, RuleInv, [Next]_vars
  PROVE  \A r \in RuleIds : rule'[r] # None => Kept(r)'
<1>0. /\ rule \in [RuleIds -> RuleRows \cup {None}] /\ device \in [DeviceIds -> Keys]
      /\ given.iface \in Nat /\ RowTypes /\ GivenOut
  BY DEF TableTypes, RowTypes
<1>1. CASE UNCHANGED <<device, iface, rule, astray>>
  BY <1>1 DEF RuleInv, Kept, Sound
<1>2. CASE /\ UNCHANGED <<iface, rule, astray>>
           /\ \A d \in DeviceIds : device[d] # None => device'[d] # None
  <2>1. \A r \in RuleIds : rule'[r] # None => rule[r].dev \in DeviceIds
    BY <1>0, <1>2 DEF RuleRows
  <2>. QED
    BY <1>2, <2>1 DEF RuleInv, Kept, Sound
<1>3. CASE Starting
  BY <1>1, <1>3, StartingKeys
<1>4. CASE InsertDevice /\ pc = "open" /\ UNCHANGED <<iface, rule, astray>>
  <2>1. key # None
    BY <1>4 DEF ReadyInv
  <2>2. \A d \in DeviceIds : device[d] # None => device'[d] # None
    BY <1>0, <1>4, <2>1 DEF InsertDevice
  <2>. QED
    BY <1>2, <1>4, <2>2
<1>5. CASE CreateDevice
  BY <1>4, <1>5 DEF CreateDevice, Request
<1>6. ASSUME NEW d \in DeviceIds, UpdateDevice(d)
      PROVE  \A r \in RuleIds : rule'[r] # None => Kept(r)'
  <2>1. key # None
    BY <1>6 DEF UpdateDevice, Request, ReadyInv
  <2>2. \A x \in DeviceIds : device[x] # None => device'[x] # None
    BY <1>0, <1>6, <2>1 DEF UpdateDevice
  <2>. QED
    BY <1>2, <1>6, <2>2 DEF UpdateDevice
<1>7. ASSUME NEW d \in DeviceIds, DeleteDevice(d)
      PROVE  \A r \in RuleIds : rule'[r] # None => Kept(r)'
  <2>1. /\ device' = [device EXCEPT ![d] = None] /\ UNCHANGED astray
        /\ iface' = [i \in IfaceIds |-> IF i \in IfacesOf(d) THEN None ELSE iface[i]]
        /\ rule' = [x \in RuleIds |-> IF x \in RulesOf(d) THEN None ELSE WithoutRules(IfacesOf(d))[x]]
    BY <1>7 DEF DeleteDevice
  <2>2. ASSUME NEW r \in RuleIds, rule'[r] # None
        PROVE  /\ rule'[r] = WithoutRules(IfacesOf(d))[r]
               /\ device[rule[r].dev] # None => device'[rule[r].dev] # None
    <3>1. rule'[r] = WithoutRules(IfacesOf(d))[r] /\ rule[r] # None /\ rule[r].dev # d
      BY <2>1, <2>2 DEF RulesOf, WithoutRules
    <3>2. rule[r].dev \in DeviceIds
      BY <1>0, <3>1 DEF RuleRows
    <3>. QED
      BY <1>0, <2>1, <3>1, <3>2
  <2>3. \A i \in IfaceIds : i <= given.iface /\ i \notin IfacesOf(d) => iface'[i] = iface[i]
    BY <2>1
  <2>. QED
    BY <2>1, <2>2, <2>3, StaysSound
<1>8. ASSUME NEW d \in DeviceIds, SetMonitoredInterfaces(d)
      PROVE  \A r \in RuleIds : rule'[r] # None => Kept(r)'
  <2>1. PICK order \in [1 .. Cardinality(Names) -> Names], n \in 0 .. Cardinality(Names) :
          /\ iface' = [i \in IfaceIds |-> IF i - given.iface \in 1 .. n
                                          THEN [dev |-> d, name |-> order[i - given.iface]]
                                          ELSE IF i \in IfacesOf(d) THEN None ELSE iface[i]]
          /\ rule' = WithoutRules(IfacesOf(d))
          /\ UNCHANGED <<device, astray>>
    BY <1>8 DEF SetMonitoredInterfaces
  <2>2. \A i \in IfaceIds : i <= given.iface => ~(i - given.iface \in 1 .. n)
    BY <1>0, Ids
  <2>3. \A i \in IfaceIds : i <= given.iface /\ i \notin IfacesOf(d) => iface'[i] = iface[i]
    BY <2>1, <2>2
  <2>. QED
    BY <2>1, <2>3, StaysSound
<1>9. CASE SaveRule
  <2>1. checked # None
    BY <1>9 DEF SaveRule
  <2>2. PICK row \in RuleRows, own \in BOOLEAN :
          row = checked.row /\ own = checked.own /\ (own => Owned(row.iface, row.dev))
    BY <1>9, <2>1, SavedRule DEF RuleInv
  <2>3. /\ UNCHANGED <<device, iface>>
        /\ \A r \in RuleIds :
             \/ rule'[r] = rule[r] /\ (r \in astray => r \in astray')
             \/ rule'[r] = row /\ ~Refused(row) /\ (r \notin astray' => own)
    BY <1>9, <2>2, SavedRule
  <2>. QED
    BY <2>2, <2>3, OneRowSound
<1>10. ASSUME NEW x \in RuleIds, DeleteAlertRule(x)
       PROVE  \A r \in RuleIds : rule'[r] # None => Kept(r)'
  <2>1. \A r \in RuleIds : rule'[r] \in {rule[r], None}
    BY <1>0, <1>10 DEF DeleteAlertRule
  <2>. QED
    BY <1>10, <2>1 DEF DeleteAlertRule, RuleInv, Kept, Sound
<1>11. CASE CopyCreate
  BY <1>1, <1>4, <1>11 DEF CopyCreate, At, NoFault, Fault
<1>12. CASE CopyInterface
  <2>1. PICK i \in copy.todo :
          \/ AddMonitoredInterface([dev |-> copy.new, name |-> copy.names[i]])
          \/ UNCHANGED <<iface, rule, given>>
    BY <1>12 DEF CopyInterface
  <2>2. PICK row \in IfaceRows : row = [dev |-> copy.new, name |-> copy.names[i]]
    <3>1. copy.at = "add" /\ i \in DOMAIN copy.names
      BY <1>12, <2>1 DEF CopyInterface, At, TableTypes, HandlerTypes
    <3>2. copy.new \in DeviceIds /\ copy.names[i] \in Names
      BY <3>1, CopyFields DEF TableTypes, HandlerTypes
    <3>. QED
      BY <3>2 DEF IfaceRows
  <2>3. CASE UNCHANGED <<iface, rule>>
    BY <1>1, <1>12, <2>3 DEF CopyInterface, NoFault, Fault
  <2>4. ASSUME NEW old \in SUBSET IfaceIds, rule' = WithoutRules(old),
               \A j \in IfaceIds : iface'[j] = IF j = given.iface + 1 THEN row
                                               ELSE IF j \in old THEN None ELSE iface[j]
        PROVE  \A r \in RuleIds : rule'[r] # None => Kept(r)'
    <3>1. UNCHANGED <<device, astray>>
      BY <1>12 DEF CopyInterface, NoFault, Fault
    <3>2. ASSUME NEW j \in IfaceIds, j <= given.iface, j \notin old
          PROVE  iface'[j] = iface[j]
      <4>1. j \in Nat /\ j # given.iface + 1
        BY <1>0, <3>2, Ids
      <4>. QED
        BY <2>4, <3>2, <4>1
    <3>. QED
      BY <2>4, <3>1, <3>2, StaysSound
  <2>5. AddMonitoredInterface(row) \/ UNCHANGED <<iface, rule>>
    BY <2>1, <2>2
  <2>6. UNCHANGED device
    BY <1>12 DEF CopyInterface
  <2>. QED
    BY <1>0, <2>3, <2>4, <2>5, <2>6, AddInterfaceTypes
<1>13. CASE CopyRule
  <2>1. copy.at = "insert" /\ UNCHANGED <<device, iface, astray>>
        /\ \/ InsertRule([dev |-> copy.new, iface |-> copy.to, wa |-> TRUE, tg |-> FALSE])
           \/ UNCHANGED rule
    BY <1>13 DEF CopyRule, At, NoFault, Fault
  <2>2. PICK row \in RuleRows :
          /\ row = [dev |-> copy.new, iface |-> copy.to, wa |-> TRUE, tg |-> FALSE]
          /\ row.dev = copy.new /\ row.iface = copy.to
    <3>1. copy.new \in DeviceIds /\ copy.to \in IfaceIds \cup {All}
      BY <2>1, CopyFields DEF TableTypes, HandlerTypes
    <3>2. [dev |-> copy.new, iface |-> copy.to, wa |-> TRUE, tg |-> FALSE] \in RuleRows
      BY <3>1 DEF RuleRows
    <3>. QED
      BY <3>2
  <2>3. Owned(row.iface, row.dev)
    BY <2>1, <2>2 DEF RuleInv
  <2>4. \A r \in RuleIds : rule'[r] = rule[r] \/ (rule'[r] = row /\ ~Refused(row))
    BY <1>0, <2>1, <2>2, InsertRuleTypes
  <2>. QED
    BY <2>1, <2>3, <2>4, OneRowSound
<1>14. CASE \/ UpdateNotificationConfig \/ ValidateRuleNotifyChannels \/ CopyList \/ CopyListRules
            \/ CopyFindInterface \/ CopyEnds \/ \E d \in DeviceIds : CopyDevice(d)
  <2>1. CASE UpdateNotificationConfig \/ ValidateRuleNotifyChannels
    <3>1. UNCHANGED tables /\ UNCHANGED astray
      BY <2>1 DEF UpdateNotificationConfig, ValidateRuleNotifyChannels
    <3>. QED
      BY <1>1, <3>1 DEF tables
  <2>2. CASE \/ CopyList \/ CopyListRules \/ CopyFindInterface \/ CopyEnds
             \/ \E d \in DeviceIds : CopyDevice(d)
    <3>1. UNCHANGED tables /\ UNCHANGED astray
      BY <2>2 DEF CopyList, CopyListRules, CopyFindInterface, CopyEnds, CopyDevice, NoFault, Fault
    <3>. QED
      BY <1>1, <3>1 DEF tables
  <2>. QED
    BY <1>14, <2>1, <2>2
<1>15. CASE UNCHANGED vars
  BY <1>1, <1>15 DEF vars, tableVars, tables
<1>. QED
  BY <1>3, <1>5, <1>6, <1>7, <1>8, <1>9, <1>10, <1>11, <1>12, <1>13, <1>14, <1>15 DEF Next, Copying

LEMMA NextRuleInv == KeyTypes /\ TableTypes /\ ReadyInv /\ RuleInv /\ [Next]_vars => RuleInv'
<1>. SUFFICES ASSUME KeyTypes, TableTypes, ReadyInv, RuleInv, [Next]_vars
              PROVE  RuleInv'
  OBVIOUS
<1>1. OnlyDropped /\ given'.iface \in Nat
  BY NextDrops, NextRows DEF RowTypes
<1>2. checked' # None /\ checked'.own => Owned(checked.row.iface, checked.row.dev)'
  <2>1. CASE checked' = checked
    <3>. SUFFICES ASSUME checked # None, checked.own
                  PROVE  Owned(checked.row.iface, checked.row.dev)'
      BY <2>1
    <3>1. PICK x \in IfaceIds \cup {All}, d \in DeviceIds : x = checked.row.iface /\ d = checked.row.dev
      BY DEF TableTypes, HandlerTypes, RuleRows
    <3>2. Owned(x, d)
      BY <3>1 DEF RuleInv
    <3>3. Owned(x, d)'
      BY <1>1, <3>2, StaysOwned
    <3>. QED
      BY <2>1, <3>1, <3>3
  <2>2. CASE ValidateRuleNotifyChannels
    <3>1. PICK d \in DeviceIds, wa \in BOOLEAN, tg \in BOOLEAN, i \in IfaceIds \cup {All},
               id \in {0} \cup {r \in RuleIds : rule[r] # None} :
            checked' = [id |-> id, row |-> [dev |-> d, iface |-> i, wa |-> wa, tg |-> tg],
                        own |-> i \in IfacesOf(d) \cup {All}]
      BY <2>2, ZenonT(60) DEF ValidateRuleNotifyChannels
    <3>2. /\ checked'.row.iface = i /\ checked'.row.dev = d
          /\ checked'.own => i \in IfacesOf(d) \cup {All}
      BY <3>1
    <3>3. checked'.own => Owned(i, d)
      BY <3>2 DEF IfacesOf, Owned, TableTypes, GivenOut
    <3>4. UNCHANGED <<given, iface>>
      BY <2>2 DEF ValidateRuleNotifyChannels, tables
    <3>. QED
      BY <3>2, <3>3, <3>4 DEF Owned
  <2>3. CASE ~ValidateRuleNotifyChannels
    <3>1. checked' \in {checked, None}
      <4>1. CASE Starting
        BY <4>1, StartingKeys
      <4>2. CASE ~Starting
        BY <2>3, <4>2 DEF Next, Copying, NoFault, Fault, CreateDevice, UpdateDevice,
           DeleteDevice, SetMonitoredInterfaces, UpdateNotificationConfig, SaveRule, DeleteAlertRule,
           CopyDevice, CopyCreate, CopyList, CopyInterface, CopyListRules, CopyFindInterface,
           CopyRule, CopyEnds, handlers, vars, tableVars
      <4>. QED
        BY <4>1, <4>2
    <3>. QED
      BY <2>1, <3>1
  <2>. QED
    BY <2>2, <2>3
<1>3. copy'.at = "insert" => Owned(copy.to, copy.new)'
  <2>1. CASE copy' = copy
    <3>. SUFFICES ASSUME copy.at = "insert"
                  PROVE  Owned(copy.to, copy.new)'
      BY <2>1
    <3>1. PICK x \in IfaceIds \cup {All}, d \in DeviceIds : x = copy.to /\ d = copy.new
      BY CopyFields DEF TableTypes, HandlerTypes
    <3>2. Owned(x, d)
      BY <3>1 DEF RuleInv
    <3>3. Owned(x, d)'
      BY <1>1, <3>2, StaysOwned
    <3>. QED
      BY <2>1, <3>1, <3>3
  <2>2. CASE CopyFindInterface
    <3>1. PICK i \in IfacesOf(copy.new) \cup {All} : copy'.to = i /\ copy'.new = copy.new
      BY <2>2 DEF CopyFindInterface, FindInterface
    <3>2. Owned(i, copy.new)
      BY DEF IfacesOf, Owned, TableTypes, GivenOut
    <3>3. UNCHANGED <<given, iface>>
      BY <2>2 DEF CopyFindInterface, tables
    <3>. QED
      BY <3>1, <3>2, <3>3 DEF Owned
  <2>3. CASE ~CopyFindInterface
    <3>1. Idle.at # "insert"
      BY DEF Idle
    <3>2. copy' = copy \/ copy'.at # "insert"
      <4>1. CASE Starting
        BY <3>1, <4>1, StartingKeys
      <4>2. CASE CopyInterface
        BY <4>2, CopyFields DEF CopyInterface, At, TableTypes, HandlerTypes, Copies, Idle
      <4>3. CASE CopyCreate \/ CopyRule \/ CopyEnds \/ \E d \in DeviceIds : CopyDevice(d)
        BY <3>1, <4>3 DEF CopyCreate, CopyRule, CopyEnds, CopyDevice
      <4>4. CASE CopyList
        <5>1. PICK found : copy' = [at |-> "add", from |-> copy.from, new |-> copy.new,
                                    names |-> [i \in found |-> iface[i].name], todo |-> found]
          BY <4>4 DEF CopyList
        <5>. QED
          BY <5>1
      <4>5. CASE CopyListRules
        <5>1. PICK found : copy' = [at |-> "rules", from |-> copy.from, new |-> copy.new,
                                    names |-> copy.names, todo |-> [r \in found |-> rule[r].iface]]
          BY <4>5 DEF CopyListRules
        <5>. QED
          BY <5>1
      <4>6. CASE \/ CreateDevice \/ UpdateNotificationConfig \/ ValidateRuleNotifyChannels \/ SaveRule
                 \/ \E d \in DeviceIds : UpdateDevice(d) \/ DeleteDevice(d) \/ SetMonitoredInterfaces(d)
                 \/ \E r \in RuleIds : DeleteAlertRule(r)
                 \/ UNCHANGED vars
        BY <4>6 DEF CreateDevice, UpdateDevice, DeleteDevice, SetMonitoredInterfaces,
           UpdateNotificationConfig, SaveRule, DeleteAlertRule, ValidateRuleNotifyChannels,
           handlers, vars, tableVars
      <4>. QED
        BY <2>3, <4>1, <4>2, <4>3, <4>4, <4>5, <4>6 DEF Next, Copying
    <3>. QED
      BY <2>1, <3>2
  <2>. QED
    BY <2>2, <2>3
<1>. QED
  BY <1>2, <1>3, NextRules DEF RuleInv

LEMMA RuleInvariant == Spec => []RuleInv
<1>1. ASSUME TablesInit PROVE RuleInv
  <2>1. PICK d \in 0 .. 2, n \in Names, r \in {None} \cup RuleRows :
           /\ d \in {0} \cup DeviceIds
           /\ d # 0 => secret # 0 /\ marked = 1 .. NumFiles
           /\ d = 0 => r = None
           /\ r # None => r.dev = d /\ r.iface \in {1, All}
           /\ device = [x \in DeviceIds |-> IF x <= d THEN secret ELSE None]
           /\ iface = FirstIface(d, n)
           /\ rule = [x \in RuleIds |-> IF x = 1 THEN r ELSE None]
           /\ astray = IF r # None /\ r.dev = 2 /\ r.iface = 1 THEN {1} ELSE {}
    BY <1>1, InitRows, Zenon
  <2>2. checked = None /\ copy.at = "idle"
    BY <1>1 DEF TablesInit, Idle
  <2>3. d # 0 => secret # None
    <3>1. PICK o \in Origins : /\ marked = 1 .. o.marked
                               /\ o.ran # 0 => secret \in {0, 1}
      BY <1>1 DEF TablesInit, Init
    <3>2. o.marked \in 0 .. NumFiles /\ (o.marked = NumFiles => o.ran = NumFiles)
      BY StartupAssumption
    <3>3. d # 0 => o.marked = NumFiles
      BY <2>1, <3>1, <3>2, SMTT(30) DEF NumFiles
    <3>. QED
      BY <3>1, <3>2, <3>3, Apart DEF NumFiles
  <2>4. ASSUME NEW x \in RuleIds, rule[x] # None
        PROVE  Kept(x)
    <3>1. rule[x] = r /\ r # None /\ d \in 1 .. 2 /\ d \in DeviceIds /\ x = 1
      BY <2>1, <2>4
    <3>2. r.dev = d /\ r.iface \in {1, All}
      BY <2>1, <3>1
    <3>3. device[d] # None
      BY <2>1, <2>3, <3>1, Ids
    <3>4. iface[1] = [dev |-> 1, name |-> n]
      BY <2>1, <3>1, Ids DEF FirstIface
    <3>5. iface[1] # None /\ iface[1].dev = 1
      <4>1. [dev |-> 1, name |-> n] \in [dev : DeviceIds, name : Names]
        BY Ids
      <4>2. [dev |-> 1, name |-> n] # None
        BY <4>1, TablesAssumption
      <4>. QED
        BY <3>4, <4>2
    <3>6. x \notin astray /\ r.iface # All => d = 1
      BY <2>1, <3>1, <3>2
    <3>. QED
      BY <3>1, <3>2, <3>3, <3>5, <3>6 DEF Sound, Kept
  <2>. QED
    BY <2>2, <2>4 DEF RuleInv
<1>2. StartInv => ReadyInv
  BY DEF StartInv
<1>. QED
  BY <1>1, <1>2, NextRuleInv, KeyTypesInvariant, TableInvariant, StartInvariant, PTL DEF Spec

\* The device and the interface of a rule exist, and the interface is the
\* device's own unless the rule's request named another's, though interfaces
\* are replaced and devices deleted while a rule is being saved or copied.
THEOREM RulesStayWithin == Spec => []RulesWithinDevice
<1>1. RuleInv => RulesWithinDevice
  BY DEF RuleInv, Kept, Sound, RulesWithinDevice
<1>. QED
  BY <1>1, RuleInvariant, PTL
-----------------------------------------------------------------------------
(* The type invariant.                                                         *)

BoundsInv ==
    /\ schema \subseteq Objects(1 .. NumFiles) /\ cut \subseteq 1 .. NumFiles
    /\ stops \in 0 .. MaxStops /\ faults \in 0 .. MaxFaults /\ unsaved \in BOOLEAN

\* Only ids of rules are recorded.
AstrayInv == astray \subseteq RuleIds

LEMMA NextAstray == AstrayInv /\ [Next]_vars => AstrayInv'
<1>. SUFFICES ASSUME astray \subseteq RuleIds, [Next]_vars
              PROVE  astray' \subseteq RuleIds
  BY DEF AstrayInv
<1>1. CASE SaveRule
  BY <1>1 DEF SaveRule
<1>2. CASE ~SaveRule
  <2>1. UNCHANGED astray
    BY <1>2, ZenonT(60) DEF Next, Copying, Starting, NoFault, Fault, CreateDevice, UpdateDevice,
       DeleteDevice, SetMonitoredInterfaces, UpdateNotificationConfig, ValidateRuleNotifyChannels,
       DeleteAlertRule, CopyDevice, CopyCreate, CopyList, CopyInterface, CopyListRules,
       CopyFindInterface, CopyRule, CopyEnds, vars, tableVars
  <2>. QED
    BY <2>1
<1>. QED
  BY <1>1, <1>2

LEMMA CrashBounds ==
  ASSUME LeftInv, BoundsInv, Crash
  PROVE  cut' \subseteq 1 .. NumFiles
<1>1. file \in 0 .. NumFiles
  BY DEF LeftInv
<1>2. cut' = cut \/ (cut' = cut \cup {file} /\ (file = 1 \/ file > 2))
  BY DEF Crash, HalfDone
<1>3. file = 1 \/ file > 2 => file \in 1 .. NumFiles
  BY <1>1 DEF NumFiles
<1>. QED
  BY <1>2, <1>3 DEF BoundsInv

LEMMA NextBounds == KeyTypes /\ LeftInv /\ BoundsInv /\ [Next]_vars => BoundsInv'
<1>. SUFFICES ASSUME KeyTypes, LeftInv, BoundsInv, [Next]_vars
              PROVE  BoundsInv'
  OBVIOUS
<1>. USE DEF database, process, history
<1>0. MaxStops \in Nat /\ MaxFaults \in Nat
  BY StartupAssumption
<1>1. CASE UNCHANGED <<schema, history>>
  BY <1>1 DEF BoundsInv
<1>2. CASE Execute
  <2>1. UNCHANGED <<stops, faults, unsaved>>
    BY <1>2 DEF Execute
  <2>2. CASE Ends
    BY <2>1, <2>2 DEF Ends, BoundsInv
  <2>3. CASE RunsMark \/ RunsFirstMark \/ RunsSeed
    BY <2>1, <2>3 DEF RunsMark, RunsFirstMark, RunsSeed, BoundsInv
  <2>4. ASSUME NEW i \in 1 .. Length(file), RunsFile(i)
        PROVE  BoundsInv'
    <3>1. file \in 1 .. NumFiles /\ schema' = schema \cup {Files[file][i].on} /\ UNCHANGED cut
      BY <2>4, FileEffect DEF RunsFile
    <3>2. NumFiles \in 0 .. NumFiles /\ file <= NumFiles
      BY <3>1 DEF NumFiles
    <3>3. Files[file][i].on \in Objects(1 .. NumFiles)
      BY <3>1, <3>2, InitObjects
    <3>. QED
      BY <2>1, <3>1, <3>3 DEF BoundsInv
  <2>. QED
    BY <1>2, <2>2, <2>3, <2>4, ExecuteSteps
<1>3. CASE Crash
  <2>1. UNCHANGED <<schema, faults, unsaved>> /\ cut' \subseteq 1 .. NumFiles
    BY <1>3, CrashBounds DEF Crash
  <2>2. stops < MaxStops /\ stops' = stops + 1 /\ stops \in 0 .. MaxStops
    BY <1>3 DEF Crash, BoundsInv
  <2>3. stops' \in 0 .. MaxStops
    BY <1>0, <2>2
  <2>. QED
    BY <2>1, <2>3 DEF BoundsInv
<1>4. ASSUME faults < MaxFaults, faults' = faults + 1, UNCHANGED <<schema, stops, cut>>,
             unsaved' \in BOOLEAN
      PROVE  BoundsInv'
  <2>1. faults \in 0 .. MaxFaults
    BY DEF BoundsInv
  <2>2. faults' \in 0 .. MaxFaults
    BY <1>0, <1>4, <2>1
  <2>. QED
    BY <1>4, <2>2 DEF BoundsInv
<1>5. CASE NewSecretUnsaved
  BY <1>4, <1>5 DEF NewSecretUnsaved, EnsureSecret
<1>6. CASE NewSecret
  BY <1>1, <1>6 DEF NewSecret, EnsureSecret
<1>7. CASE \/ \E c \in Configured \cup {None} : Start(c)
           \/ Bootstrap \/ NextFile \/ FilesDone \/ Repair \/ Seed \/ StoredSecret
  BY <1>1, <1>7 DEF Start, Bootstrap, NextFile, FilesDone, Repair, Seed, StoredSecret, Apply
<1>8. CASE Starting
  BY <1>2, <1>3, <1>5, <1>6, <1>7, <1>8 DEF Starting, StartNext, Progress
<1>9. CASE Fault
  <2>1. unsaved \in BOOLEAN
    BY DEF BoundsInv
  <2>. QED
    BY <1>4, <1>9, <2>1 DEF Fault
<1>10. CASE NoFault
  BY <1>1, <1>10 DEF NoFault, startVars
<1>11. CASE CopyCreate \/ CopyList \/ CopyInterface \/ CopyListRules
  BY <1>9, <1>10, <1>11 DEF CopyCreate, CopyList, CopyInterface, CopyListRules
<1>12. CASE CopyFindInterface \/ CopyRule \/ CopyEnds
  BY <1>9, <1>10, <1>12 DEF CopyFindInterface, CopyRule, CopyEnds
<1>13. CASE \/ CreateDevice \/ UpdateNotificationConfig \/ ValidateRuleNotifyChannels \/ SaveRule
            \/ \E d \in DeviceIds : UpdateDevice(d) \/ DeleteDevice(d) \/ SetMonitoredInterfaces(d)
                                    \/ CopyDevice(d)
            \/ \E r \in RuleIds : DeleteAlertRule(r)
            \/ UNCHANGED vars
  <2>1. CASE UpdateNotificationConfig
    BY <1>1, <2>1 DEF UpdateNotificationConfig
  <2>2. CASE CreateDevice \/ ValidateRuleNotifyChannels \/ SaveRule \/ UNCHANGED vars
    <3>1. UNCHANGED startVars
      BY <2>2 DEF CreateDevice, ValidateRuleNotifyChannels, SaveRule, vars
    <3>. QED
      BY <1>1, <3>1 DEF startVars
  <2>3. ASSUME NEW d \in DeviceIds,
               UpdateDevice(d) \/ DeleteDevice(d) \/ SetMonitoredInterfaces(d) \/ CopyDevice(d)
        PROVE  UNCHANGED startVars
    BY <2>3 DEF UpdateDevice, DeleteDevice, SetMonitoredInterfaces, CopyDevice
  <2>4. ASSUME NEW r \in RuleIds, DeleteAlertRule(r)
        PROVE  UNCHANGED startVars
    BY <2>4 DEF DeleteAlertRule
  <2>5. CASE UNCHANGED startVars
    BY <1>1, <2>5 DEF startVars
  <2>. QED
    BY <1>13, <2>1, <2>2, <2>3, <2>4, <2>5
<1>. QED
  BY <1>8, <1>11, <1>12, <1>13 DEF Next, Copying

LEMMA InitBounds == Init => BoundsInv
<1>. SUFFICES ASSUME Init
              PROVE  BoundsInv
  OBVIOUS
<1>1. PICK o \in Origins : schema = Objects(1 .. o.ran)
  BY DEF Init
<1>2. o.ran \in 0 .. NumFiles /\ MaxStops \in Nat /\ MaxFaults \in Nat
  BY StartupAssumption
<1>3. schema \subseteq Objects(1 .. NumFiles)
  <2>1. NumFiles \in 0 .. NumFiles
    BY DEF NumFiles
  <2>2. \A f \in 1 .. NumFiles : f <= NumFiles
    BY DEF NumFiles
  <2>3. \A f \in 1 .. NumFiles : \A i \in 1 .. Length(f) : Files[f][i].on \in Objects(1 .. NumFiles)
    BY <2>1, <2>2, InitObjects
  <2>4. \A x \in Objects(1 .. o.ran) :
          \E f \in 1 .. NumFiles : \E i \in 1 .. Length(f) : x = Files[f][i].on
    BY <1>2, InitObjects
  <2>. QED
    BY <1>1, <2>3, <2>4
<1>4. stops = 0 /\ faults = 0 /\ unsaved = FALSE /\ cut = {}
  BY DEF Init
<1>5. stops \in 0 .. MaxStops /\ faults \in 0 .. MaxFaults
  BY <1>2, <1>4
<1>6. unsaved \in BOOLEAN /\ cut \subseteq 1 .. NumFiles
  BY <1>4
<1>. QED
  BY <1>3, <1>5, <1>6 DEF BoundsInv

\* Every variable keeps its type.
THEOREM TypeCorrect == Spec => []TypeOK
<1>1. Spec => []BoundsInv
  <2>1. TablesInit => BoundsInv
    BY InitBounds DEF TablesInit
  <2>2. StartInv => LeftInv
    BY DEF StartInv
  <2>. QED
    BY <2>1, <2>2, NextBounds, KeyTypesInvariant, StartInvariant, PTL DEF Spec
<1>3. Spec => []AstrayInv
  <2>1. TablesInit => AstrayInv
    BY InitRows, Ids DEF AstrayInv
  <2>. QED
    BY <2>1, NextAstray, PTL DEF Spec
<1>2. KeyTypes /\ TableTypes /\ StartInv /\ BoundsInv /\ AstrayInv => TypeOK
  <2>. SUFFICES ASSUME KeyTypes, TableTypes, StartInv, BoundsInv, AstrayInv
                PROVE  TypeOK
    OBVIOUS
  <2>1. Len(left) <= 9
    <3>1. CASE file # 0
      <4>1. Len(left) <= Length(file) + 1 /\ Length(file) \in 1 .. 8 /\ left \in Seq(Statements)
        <5>1. file \in 1 .. NumFiles
          BY <3>1 DEF StartInv, LeftInv, NumFiles
        <5>. QED
          BY <3>1, <5>1, Lengths DEF StartInv, LeftInv, FileLeft
      <4>2. Len(left) \in Nat
        BY <4>1
      <4>. QED
        BY <4>1, <4>2
    <3>2. CASE file = 0
      <4>1. OtherLeft
        BY <3>2 DEF StartInv, LeftInv
      <4>2. \A a, b, c, d : /\ Len(<<>>) = 0 /\ Len(<<a>>) = 1 /\ Len(<<a, b>>) = 2
                            /\ Len(<<a, b, c>>) = 3 /\ Len(<<a, b, c, d>>) = 4
        OBVIOUS
      <4>3. Len(left) \in 0 .. 4
        <5>1. CASE pc = "files"
          BY <4>1, <4>2, <5>1 DEF OtherLeft
        <5>2. CASE pc = "seed"
          <6>1. \E a, b, c, d : left \in {<<>>, <<a>>, <<a, b>>, <<a, b, c>>, <<a, b, c, d>>}
            BY <4>1, <5>2, Zenon DEF OtherLeft
          <6>. QED
            BY <4>2, <6>1
        <5>3. CASE pc \notin {"files", "seed"}
          BY <4>1, <4>2, <5>3 DEF OtherLeft
        <5>. QED
          BY <5>1, <5>2, <5>3
      <4>4. PICK n \in 0 .. 4 : n = Len(left)
        BY <4>3
      <4>5. n <= 9
        OBVIOUS
      <4>. QED
        BY <4>4, <4>5
    <3>. QED
      BY <3>1, <3>2
  <2>2. config \in Configs \cup {None} /\ flags \in [Rules -> Flags \cup {None}]
    BY DEF StartInv, SettingsInv, SettingTypes
  <2>3. {secret, key} \subseteq Nat \cup Configured \cup {None}
    BY DEF KeyTypes, Keys
  <2>4. StartTypeOK
    BY <2>1, <2>2, <2>3 DEF StartTypeOK, StartInv, LeftInv, ReadyInv, BoundsInv, KeyTypes, Configs, Flags
  <2>. QED
    BY <2>4 DEF TypeOK, TableTypes, RowTypes, HandlerTypes, GivenOut, Keys, AstrayInv
<1>. QED
  BY <1>1, <1>2, <1>3, KeyTypesInvariant, TableInvariant, StartInvariant, PTL
=============================================================================
