--------------------------- MODULE Alerter_proofs ---------------------------
(* Proofs about Alerter: it is well typed, a rule fires only when its       *)
(* duration and its cooldown have passed, and a rule of one interface fires *)
(* as soon as they have.                                                    *)
EXTENDS Alerter, TLAPS

-----------------------------------------------------------------------------
(* The part of the type invariant that the argument needs.                 *)

Typed ==
    /\ clock \in Int /\ now \in Int
    /\ rules \in [Rules -> RuleTexts \cup {None}]
    /\ since \in [Rules -> Times] /\ until \in [Rules -> Times]
    /\ unmet \in [Rules -> Times]
    /\ fired \in [Rules -> Firings \cup {None}]
    /\ todo \subseteq {r \in Rules : rules[r] # None}
    /\ pc \in {"idle", "reload", "judge", "send"}
    /\ pc = "send" => cur \in todo
    /\ pc \in {"idle", "reload"} => todo = {}

Firing(r) == pc = "send" /\ cur = r

\* Nothing that is remembered lies in the future.
Past == \A r \in Rules :
    /\ since[r] # None => since[r] <= clock
    /\ unmet[r] # None => unmet[r] <= clock
    /\ fired[r] # None => fired[r].at <= clock

\* conditionSince was set after the last sample that did not meet the rule,
\* and after the rule last fired.
RunIsNew == \A r \in Rules : since[r] # None =>
    /\ unmet[r] # None => unmet[r] <= since[r]
    /\ fired[r] # None => Firing(r) \/ fired[r].at <= since[r]

\* cooldownUntil is that of the last firing, once its notification has ended.
CooldownKept == \A r \in Rules : fired[r] # None =>
    IF Firing(r)
    THEN now = fired[r].at /\ rules[r].cooldown = fired[r].cooldown
    ELSE until[r] = fired[r].at + fired[r].cooldown

DueInv == Typed /\ Past /\ RunIsNew /\ CooldownKept

LEMMA NoneIsApart == None \notin Int /\ None \notin RuleTexts /\ None \notin Firings
  BY AlerterAssumption

LEMMA EnabledTyped ==
  ASSUME rule \in [Rules -> [life : {"none", "on", "off", "gone"}, text : Texts]]
  PROVE  EnabledRules \in [Rules -> Texts \cup {None}]
  BY DEF EnabledRules

RuleRows == [Rules -> [life : {"none", "on", "off", "gone"}, text : Texts]]
Tallies  == [Rules -> [plain : Nat, notified : Nat]]

LEMMA DropTyped ==
  ASSUME NEW R \in SUBSET Rules, rule \in RuleRows, Drop(R)
  PROVE  rule' \in RuleRows
<1>1. \A r \in Rules : [rule[r] EXCEPT !.life = "gone"] \in
                          [life : {"none", "on", "off", "gone"}, text : Texts]
  BY DEF RuleRows
<1>. QED
  BY <1>1 DEF Drop, RuleRows

LEMMA RecordTyped ==
  ASSUME alerts \in Tallies, NEW r \in Rules, NEW kind \in {"plain", "notified"},
         Record(r, kind)
  PROVE  alerts' \in Tallies
<1>1. [alerts[r] EXCEPT ![kind] = @ + 1] \in [plain : Nat, notified : Nat]
  <2>1. CASE kind = "plain"
    BY <2>1 DEF Tallies
  <2>2. CASE kind = "notified"
    BY <2>2 DEF Tallies
  <2>. QED
    BY <2>1, <2>2
<1>2. alerts' = alerts \/ alerts' = [alerts EXCEPT ![r] = [alerts[r] EXCEPT ![kind] = @ + 1]]
  BY DEF Record, Tallies
<1>. QED
  BY <1>1, <1>2 DEF Tallies

LEMMA TextsTyped == \A t \in Texts : t \in RuleTexts
  BY AlerterAssumption

-----------------------------------------------------------------------------
(* The type invariant.                                                     *)

THEOREM TypeCorrect == Spec => []TypeOK
<1>. USE AlerterAssumption DEF Untold, Times
<1>1. Init => TypeOK
  <2>. SUFFICES ASSUME Init
                PROVE  TypeOK
    OBVIOUS
  <2>1. rule \in [Rules -> [life : {"none", "on", "off", "gone"}, text : Texts]]
    BY DEF Init
  <2>2. rules \in [Rules -> Texts \cup {None}]
    BY <2>1, EnabledTyped DEF Init
  <2>3. iface \in [Ifaces -> Links \cup {None}] /\ names = iface /\ usedIds \subseteq Ifaces
    BY DEF Init
  <2>4. \A i \in Ifaces : iface[i] # None => i \in usedIds
    BY DEF Init
  <2>. QED
    BY <2>1, <2>2, <2>3, <2>4 DEF Init, TypeOK
<1>2. TypeOK /\ [Next]_vars => TypeOK'
  <2>. SUFFICES ASSUME TypeOK, [Next]_vars
                PROVE  TypeOK'
    OBVIOUS
  <2>. USE DEF dbVars, memVars, runVars, history
  <2>1. CASE Advance
    BY <2>1 DEF Advance, TypeOK
  <2>2. ASSUME NEW l \in Links, Arrive(l)
        PROVE  TypeOK'
    <3>1. PICK v \in Traffic : samples' = IF Len(samples) < QueueCap
                                         THEN Append(samples, [link |-> l, rates |-> v])
                                         ELSE samples
      BY <2>2 DEF Arrive
    <3>2. [link |-> l, rates |-> v] \in Samples
      BY DEF Samples
    <3>3. samples' \in Seq(Samples) /\ Len(samples') <= QueueCap
      BY <3>1, <3>2 DEF TypeOK
    <3>4. /\ polled' \subseteq Links
          /\ UNCHANGED <<clock, dbVars, memVars, runVars, edits, faults, history>>
      BY <2>2 DEF Arrive, TypeOK
    <3>. QED
      BY <3>3, <3>4 DEF TypeOK
  <2>3. ASSUME NEW r \in Rules, SaveRule(r)
        PROVE  TypeOK'
    BY <2>3, SMTT(30) DEF SaveRule, Edit, TypeOK
  <2>4. ASSUME NEW r \in Rules, DeleteAlertRule(r)
        PROVE  TypeOK'
    <3>1. rule' \in RuleRows
      BY <2>4, DropTyped, ZenonT(60) DEF DeleteAlertRule, TypeOK, RuleRows
    <3>. QED
      BY <2>4, <3>1 DEF DeleteAlertRule, Edit, TypeOK, RuleRows
  <2>5. ASSUME NEW d \in Devices, SetMonitoredInterfaces(d)
        PROVE  TypeOK'
    <3>1. rule' \in RuleRows /\ edits' \in 0 .. MaxEdits
      <4>1. PICK R \in SUBSET Rules : Drop(R)
        BY <2>5 DEF SetMonitoredInterfaces
      <4>2. rule \in RuleRows /\ edits' \in 0 .. MaxEdits
        BY <2>5 DEF SetMonitoredInterfaces, Edit, TypeOK, RuleRows
      <4>. QED
        BY <4>1, <4>2, DropTyped
    <3>2. /\ iface' \in [Ifaces -> Links \cup {None}]
          /\ usedIds' \subseteq Ifaces
          /\ \A i \in Ifaces : iface'[i] # None => i \in usedIds'
      BY <2>5 DEF SetMonitoredInterfaces, TypeOK
    <3>. QED
      BY <2>5, <3>1, <3>2 DEF SetMonitoredInterfaces, TypeOK, RuleRows
  <2>6. CASE ReloadRules
    <3>1. rules' \in [Rules -> Texts \cup {None}]
      BY <2>6, EnabledTyped DEF ReloadRules, TypeOK
    <3>2. over' \in [Rules -> [Links -> Int \cup {None}]]
      BY <2>6 DEF ReloadRules, TypeOK
    <3>. QED
      BY <2>6, <3>1, <3>2 DEF ReloadRules, TypeOK
  <2>7. CASE ReloadFails
    BY <2>7 DEF ReloadFails, TypeOK
  <2>8. CASE Restart
    <3>1. rules' \in [Rules -> Texts \cup {None}]
      BY <2>8, EnabledTyped DEF Restart, TypeOK
    <3>. QED
      BY <2>8, <3>1 DEF Restart, TypeOK
  <2>9. CASE ReloadInterfaces
    <3>1. names' \in [Ifaces -> Links \cup {None}] /\ faults' \in 0 .. MaxFaults
      BY <2>9 DEF ReloadInterfaces, TypeOK
    <3>. QED
      BY <2>9, <3>1 DEF ReloadInterfaces, TypeOK
  <2>10. CASE Receive
    <3>1. Head(samples) \in Samples /\ samples' \in Seq(Samples) /\ Len(samples') <= QueueCap
      BY <2>10 DEF Receive, TypeOK
    <3>2. todo' \subseteq {r \in Rules : rules[r] # None}
      BY <2>10 DEF Receive, Matches
    <3>. QED
      BY <2>10, <3>1, <3>2 DEF Receive, TypeOK
  <2>11. CASE EndSample
    BY <2>11 DEF EndSample, TypeOK
  <2>12. CASE Sent
    <3>1. cur \in Rules /\ rules[cur] \in RuleTexts /\ rules[cur].cooldown \in Int
      BY <2>12, TextsTyped DEF Sent, TypeOK, RuleTexts
    <3>2. alerts' \in Tallies
      BY <2>12, <3>1, RecordTyped DEF Sent, TypeOK, Tallies
    <3>3. until' \in [Rules -> Int \cup {None}]
      BY <2>12, <3>1 DEF Sent, TypeOK
    <3>4. /\ since' \in [Rules -> Int \cup {None}]
          /\ todo' \subseteq {r \in Rules : rules'[r] # None}
          /\ sample' \in Samples /\ pc' = "judge" /\ cur' = None /\ now' = 0
          /\ UNCHANGED <<clock, rule, iface, usedIds, samples, polled, rules, names,
                         edits, faults, history>>
      BY <2>12 DEF Sent, TypeOK
    <3>5. sample' # None
      BY <3>4
    <3>. QED
      BY <3>2, <3>3, <3>4, <3>5 DEF TypeOK, Tallies
  <2>13. ASSUME NEW r \in Rules, JudgeUnmet(r) \/ JudgeMet(r) \/ Fire(r)
         PROVE  TypeOK'
    <3>1. rules[r] \in RuleTexts /\ sample.link \in Links /\ clock \in Int
      BY <2>13, TextsTyped DEF JudgeUnmet, JudgeMet, Fire, TypeOK, Samples
    <3>2. CASE JudgeUnmet(r)
      BY <3>1, <3>2 DEF JudgeUnmet, TypeOK
    <3>3. CASE JudgeMet(r)
      <4>1. Over(r) \in Int
        BY <3>1 DEF Over, TypeOK
      <4>. QED
        BY <3>1, <3>3, <4>1 DEF JudgeMet, Began, TypeOK
    <3>4. CASE Fire(r)
      <4>1. alerts' \in Tallies
        BY <3>4, RecordTyped DEF Fire, TypeOK, Tallies
      <4>2. fired' \in [Rules -> Firings \cup {None}]
        BY <3>1, <3>4 DEF Fire, TypeOK, RuleTexts, Firings
      <4>. QED
        BY <3>1, <3>4, <4>1, <4>2 DEF Fire, TypeOK, Tallies
    <3>. QED
      BY <2>13, <3>2, <3>3, <3>4
  <2>14. CASE UNCHANGED vars
    BY <2>14 DEF vars, TypeOK
  <2>. QED
    BY <2>1, <2>2, <2>3, <2>4, <2>5, <2>6, <2>7, <2>8, <2>9, <2>10, <2>11,
       <2>12, <2>13, <2>14 DEF Next, Engine
<1>. QED
  BY <1>1, <1>2, PTL DEF Spec
-----------------------------------------------------------------------------
(* A rule fires only when due.                                             *)

LEMMA InitDue == Init => DueInv
<1>. SUFFICES ASSUME Init
              PROVE  DueInv
  OBVIOUS
<1>1. rules \in [Rules -> RuleTexts \cup {None}]
  BY EnabledTyped, TextsTyped DEF Init
<1>2. Typed
  BY <1>1 DEF Init, Typed, Untold, Times
<1>. QED
  BY <1>2 DEF Init, DueInv, Past, RunIsNew, CooldownKept, Untold

\* Most steps leave what the engine remembers of its rules as it is.
LEMMA OtherDue ==
  ASSUME DueInv, UNCHANGED <<since, until, unmet, fired, cur, now>>,
         clock' \in Int, clock' >= clock, Typed', pc' = "send" <=> pc = "send",
         pc = "send" => rules' = rules
  PROVE  DueInv'
<1>1. Past'
  <2>. SUFFICES ASSUME NEW r \in Rules
                PROVE  /\ since[r] # None => since[r] <= clock'
                       /\ unmet[r] # None => unmet[r] <= clock'
                       /\ fired[r] # None => fired[r].at <= clock'
    BY DEF Past
  <2>1. /\ since[r] # None => since[r] <= clock /\ since[r] \in Int
        /\ unmet[r] # None => unmet[r] <= clock /\ unmet[r] \in Int
        /\ fired[r] # None => fired[r].at <= clock /\ fired[r].at \in Int
        /\ clock \in Int
    BY DEF DueInv, Past, Typed, Times, Firings
  <2>. QED
    BY <2>1
<1>2. RunIsNew'
  BY DEF DueInv, RunIsNew, Firing
<1>3. CooldownKept'
  BY DEF DueInv, CooldownKept, Firing
<1>. QED
  BY <1>1, <1>2, <1>3 DEF DueInv

LEMMA NextDue == TypeOK /\ DueInv /\ [Next]_vars => DueInv'
<1>. SUFFICES ASSUME TypeOK, DueInv, [Next]_vars
              PROVE  DueInv'
  OBVIOUS
<1>. USE NoneIsApart DEF dbVars, memVars, runVars, history
<1>0. Typed /\ \A r \in Rules : rules[r] # None => rules[r] \in RuleTexts
  BY DEF DueInv, Typed
<1>1. CASE Advance
  BY <1>0, <1>1, OtherDue, AlerterAssumption DEF Advance, Typed
<1>2. CASE \E l \in Links : Arrive(l)
  BY <1>0, <1>2, OtherDue DEF Arrive, Typed
<1>3. CASE \E r \in Rules : SaveRule(r) \/ DeleteAlertRule(r)
  BY <1>0, <1>3, OtherDue DEF SaveRule, DeleteAlertRule, Typed
<1>4. CASE \E d \in Devices : SetMonitoredInterfaces(d)
  BY <1>0, <1>4, OtherDue DEF SetMonitoredInterfaces, Typed
<1>5. CASE ReloadRules
  <2>1. rules' \in [Rules -> RuleTexts \cup {None}]
    BY <1>5, EnabledTyped, TextsTyped DEF ReloadRules, TypeOK
  <2>. QED
    BY <1>0, <1>5, <2>1, OtherDue DEF ReloadRules, Typed
<1>6. CASE ReloadFails
  BY <1>0, <1>6, OtherDue DEF ReloadFails, Typed
<1>7. CASE Restart
  <2>1. rules' \in [Rules -> RuleTexts \cup {None}]
    BY <1>7, EnabledTyped, TextsTyped DEF Restart, TypeOK, Untold
  <2>2. Typed'
    BY <1>0, <1>7, <2>1 DEF Restart, Typed, Untold, Times
  <2>. QED
    BY <1>7, <2>2 DEF Restart, DueInv, Past, RunIsNew, CooldownKept, Untold
<1>8. CASE ReloadInterfaces
  BY <1>0, <1>8, OtherDue DEF ReloadInterfaces, Typed
<1>9. CASE Receive
  <2>1. todo' \subseteq {r \in Rules : rules'[r] # None}
    BY <1>9 DEF Receive, Matches
  <2>. QED
    BY <1>0, <1>9, <2>1, OtherDue DEF Receive, Typed
<1>10. CASE EndSample
  BY <1>0, <1>10, OtherDue DEF EndSample, Typed
<1>11. CASE Sent
  <2>1. cur \in Rules /\ rules[cur] \in RuleTexts /\ rules[cur].cooldown \in Int
    BY <1>0, <1>11 DEF Sent, Typed, RuleTexts
  <2>2. Typed'
    BY <1>0, <1>11, <2>1 DEF Sent, Typed, Times
  <2>3. Past' /\ RunIsNew'
    BY <1>0, <1>11, <2>1 DEF Sent, DueInv, Past, RunIsNew, Firing, Typed
  <2>4. CooldownKept'
    BY <1>0, <1>11, <2>1 DEF Sent, DueInv, CooldownKept, Firing, Typed
  <2>. QED
    BY <2>2, <2>3, <2>4 DEF DueInv
<1>12. CASE \E r \in Rules : JudgeUnmet(r)
  <2>1. PICK r \in Rules : JudgeUnmet(r)
    BY <1>12
  <2>2. Typed'
    BY <1>0, <2>1 DEF JudgeUnmet, Typed, Times
  <2>3. Past' /\ RunIsNew'
    BY <1>0, <2>1 DEF JudgeUnmet, DueInv, Past, RunIsNew, Firing, Typed
  <2>4. CooldownKept'
    BY <1>0, <2>1 DEF JudgeUnmet, DueInv, CooldownKept, Firing, Typed
  <2>. QED
    BY <2>2, <2>3, <2>4 DEF DueInv
<1>13. CASE \E r \in Rules : JudgeMet(r)
  <2>1. PICK r \in Rules : JudgeMet(r)
    BY <1>13
  <2>2. Typed'
    BY <1>0, <2>1 DEF JudgeMet, Began, Typed, Times
  <2>3. Past' /\ RunIsNew'
    BY <1>0, <2>1 DEF JudgeMet, Began, DueInv, Past, RunIsNew, Firing, Typed
  <2>4. CooldownKept'
    BY <1>0, <2>1 DEF JudgeMet, Began, DueInv, CooldownKept, Firing, Typed
  <2>. QED
    BY <2>2, <2>3, <2>4 DEF DueInv
<1>14. CASE \E r \in Rules : Fire(r)
  <2>1. PICK r \in Rules : Fire(r)
    BY <1>14
  <2>2. rules[r] \in RuleTexts /\ rules[r].cooldown \in Int
    BY <1>0, <2>1 DEF Fire, Typed, RuleTexts
  <2>3. fired' = [fired EXCEPT ![r] = [at |-> clock, cooldown |-> rules[r].cooldown]]
    BY <2>1 DEF Fire
  <2>4. Typed'
    BY <1>0, <2>1, <2>2 DEF Fire, Typed, Firings
  <2>5. Past' /\ RunIsNew'
    BY <1>0, <2>1, <2>3 DEF Fire, DueInv, Past, RunIsNew, Firing, Typed
  <2>6. CooldownKept'
    BY <1>0, <2>1, <2>3 DEF Fire, DueInv, CooldownKept, Firing, Typed
  <2>. QED
    BY <2>4, <2>5, <2>6 DEF DueInv
<1>15. CASE UNCHANGED vars
  BY <1>0, <1>15, OtherDue DEF vars, Typed
<1>. QED
  BY <1>1, <1>2, <1>3, <1>4, <1>5, <1>6, <1>7, <1>8, <1>9, <1>10, <1>11,
     <1>12, <1>13, <1>14, <1>15 DEF Next, Engine

LEMMA FireDue == DueInv /\ [Next]_vars => [\A r \in Rules : Fires(r) => IsDue(r)]_vars
<1>. SUFFICES ASSUME DueInv, [Next]_vars, NEW r \in Rules, Fires(r)
              PROVE  IsDue(r)
  OBVIOUS
<1>. USE NoneIsApart DEF dbVars, memVars, runVars, history
<1>1. Fire(r)
  BY DEF Fires, Next, Engine, Advance, Arrive, SaveRule, DeleteAlertRule,
         SetMonitoredInterfaces, ReloadRules, ReloadFails, Restart,
         ReloadInterfaces, Receive, EndSample, Sent, JudgeUnmet, JudgeMet, Fire, vars
<1>2. /\ rules[r] \in RuleTexts /\ rules[r].duration \in Int /\ clock \in Int
      /\ unmet[r] \in Times /\ since[r] \in Times /\ until[r] \in Times
      /\ fired[r] # None => fired[r].at \in Int /\ fired[r].cooldown \in Int
  BY <1>1 DEF DueInv, Typed, Fire, RuleTexts, Firings
<1>3. /\ since[r] # None
      /\ clock - since[r] >= rules[r].duration
      /\ until[r] # None => clock > until[r]
      /\ pc = "judge"
  BY <1>1 DEF Fire, Due
<1>4. unmet[r] # None => unmet[r] <= since[r]
  BY <1>3 DEF DueInv, RunIsNew
<1>5. fired[r] # None => /\ fired[r].at <= since[r]
                         /\ until[r] = fired[r].at + fired[r].cooldown
  BY <1>3 DEF DueInv, RunIsNew, CooldownKept, Firing
<1>. QED
  BY <1>2, <1>3, <1>4, <1>5 DEF IsDue, Times

\* A rule never fires early, for any rules and interfaces, whatever is edited
\* and reloaded meanwhile and however long a notification takes.
THEOREM FiresOnlyWhenDue == Spec => FiresWhenDue
<1>1. Init => DueInv
  BY InitDue
<1>. QED
  BY <1>1, NextDue, FireDue, TypeCorrect, PTL DEF Spec, FiresWhenDue
-----------------------------------------------------------------------------
(* A rule of one interface fires in time.  Its state is that of one link: an  *)
(* id is an interface's for good, so that all samples a rule judges until it   *)
(* is edited are of the same link.                                          *)

Was(i, l) == i \in usedIds /\ iface[i] \in {l, None} /\ names[i] \in {l, None}

NamesInv == \A i \in Ifaces : names[i] # None => Was(i, names[i])
OverInv == \A r \in Rules, l \in Links :
    rules[r] # None /\ rules[r].iface # All /\ over[r][l] # None =>
        Was(rules[r].iface, l) /\ since[r] # None /\ since[r] <= over[r][l]
TodoInv == \A r \in todo : rules[r].iface # All => names[rules[r].iface] = sample.link
UntilInv ==
    /\ \A r \in Rules : until[r] # None => fired[r] # None
    /\ pc = "send" => fired[cur] # None /\ \A l \in Links : over[cur][l] = None
PromptInv == NamesInv /\ OverInv /\ TodoInv /\ UntilInv

\* What an id was it stays.
LEMMA StaysNamed ==
  ASSUME TypeOK, [Next]_vars,
         NEW i \in Ifaces, NEW l \in Links, Was(i, l)
  PROVE  Was(i, l)'
<1>. USE DEF dbVars, memVars
<1>1. CASE UNCHANGED <<iface, usedIds, names>>
  BY <1>1 DEF Was
<1>2. ASSUME NEW d \in Devices, SetMonitoredInterfaces(d)
      PROVE  Was(i, l)'
  <2>1. /\ usedIds \subseteq usedIds' /\ UNCHANGED names
        /\ iface'[i] \in {iface[i], None}
    BY <1>2 DEF SetMonitoredInterfaces, Was
  <2>. QED
    BY <2>1 DEF Was
<1>3. CASE ReloadInterfaces \/ Restart
  <2>1. names'[i] \in {iface[i], None} /\ UNCHANGED <<iface, usedIds>>
    BY <1>3 DEF ReloadInterfaces, Restart
  <2>. QED
    BY <2>1 DEF Was
<1>. QED
  BY <1>1, <1>2, <1>3 DEF Next, Engine, Advance, Arrive, SaveRule, DeleteAlertRule, ReloadRules,
     ReloadFails, Receive, JudgeUnmet, JudgeMet, Fire, Sent, EndSample, vars

LEMMA NextNames == TypeOK /\ NamesInv /\ [Next]_vars => NamesInv'
<1>. SUFFICES ASSUME TypeOK, NamesInv, [Next]_vars, NEW i \in Ifaces, names'[i] # None
              PROVE  Was(i, names[i])'
  BY DEF NamesInv
<1>. USE DEF dbVars, memVars
<1>1. CASE UNCHANGED names
  <2>1. names[i] \in Links /\ Was(i, names[i])
    BY <1>1 DEF TypeOK, NamesInv
  <2>. QED
    BY <1>1, <2>1, StaysNamed
<1>2. CASE ReloadInterfaces \/ Restart
  BY <1>2 DEF ReloadInterfaces, Restart, Was, TypeOK
<1>. QED
  BY <1>1, <1>2 DEF Next, Engine, Advance, Arrive, SaveRule, DeleteAlertRule, SetMonitoredInterfaces,
     ReloadRules, ReloadFails, Receive, JudgeUnmet, JudgeMet, Fire, Sent, EndSample, vars

LEMMA NextOver == TypeOK /\ DueInv /\ PromptInv /\ [Next]_vars => OverInv'
<1>. SUFFICES ASSUME TypeOK, DueInv, PromptInv, [Next]_vars, NEW r \in Rules, NEW l \in Links,
                     rules'[r] # None, rules'[r].iface # All, over'[r][l] # None
              PROVE  (Was(rules[r].iface, l) /\ since[r] # None /\ since[r] <= over[r][l])'
  BY DEF OverInv
<1>. USE NoneIsApart DEF dbVars, memVars, runVars, history
<1>0. /\ clock \in Int /\ since \in [Rules -> Times] /\ over \in [Rules -> [Links -> Times]]
      /\ \A x \in Rules : rules[x] # None => rules[x].iface \in Ifaces \cup {All}
      /\ \A x \in Rules : since[x] # None => since[x] <= clock
  BY TextsTyped, SMTT(30) DEF TypeOK, DueInv, Past, RuleTexts
<1>1. ASSUME rules'[r] = rules[r], over'[r][l] = over[r][l], since'[r] = since[r]
      PROVE  (Was(rules[r].iface, l) /\ since[r] # None /\ since[r] <= over[r][l])'
  <2>1. Was(rules[r].iface, l) /\ since[r] # None /\ since[r] <= over[r][l]
        /\ rules[r].iface \in Ifaces
    BY <1>0, <1>1 DEF PromptInv, OverInv
  <2>2. PICK i \in Ifaces : i = rules[r].iface
    BY <2>1
  <2>3. Was(i, l)'
    BY <2>1, <2>2, StaysNamed
  <2>. QED
    BY <1>1, <2>1, <2>2, <2>3
<1>2. CASE ReloadRules
  <2>1. rules'[r] = rules[r] /\ over'[r][l] = over[r][l] /\ since'[r] = since[r]
    BY <1>2 DEF ReloadRules
  <2>. QED
    BY <1>1, <2>1
<1>3. CASE Restart
  BY <1>3 DEF Restart
<1>4. ASSUME NEW x \in Rules, JudgeUnmet(x)
      PROVE  (Was(rules[r].iface, l) /\ since[r] # None /\ since[r] <= over[r][l])'
  <2>1. /\ rules' = rules /\ since' = [since EXCEPT ![x] = None]
        /\ over' = [over EXCEPT ![x][sample.link] = None]
        /\ x \in todo /\ sample \in Samples
    BY <1>4 DEF JudgeUnmet, TypeOK
  <2>2. sample.link \in Links /\ sample.link # None
    BY <2>1, AlerterAssumption DEF Samples
  <2>3. CASE x # r
    BY <1>0, <1>1, <2>1, <2>3
  <2>4. CASE x = r
    <3>1. l # sample.link /\ over[r][l] # None
      BY <1>0, <2>1, <2>2, <2>4
    <3>2. names[rules[r].iface] \in {l, None}
      BY <2>1, <3>1 DEF PromptInv, OverInv, Was
    <3>3. names[rules[r].iface] = sample.link
      BY <2>1, <2>4 DEF PromptInv, TodoInv
    <3>. QED
      BY <2>2, <3>1, <3>2, <3>3
  <2>. QED
    BY <2>3, <2>4
<1>5. ASSUME NEW x \in Rules, JudgeMet(x)
      PROVE  (Was(rules[r].iface, l) /\ since[r] # None /\ since[r] <= over[r][l])'
  <2>1. /\ rules' = rules /\ since' = [since EXCEPT ![x] = Began(x)]
        /\ over' = [over EXCEPT ![x][sample.link] = Over(x)]
        /\ x \in todo /\ sample \in Samples
    BY <1>5 DEF JudgeMet, TypeOK
  <2>2. sample.link \in Links /\ sample.link # None
    BY <2>1, AlerterAssumption DEF Samples
  <2>3. CASE x # r
    BY <1>0, <1>1, <2>1, <2>3
  <2>4. CASE x = r
    <3>1. PICK i \in Ifaces : i = rules[r].iface
      BY <1>0, <2>1
    <3>2. CASE l = sample.link
      <4>1. names[i] = l /\ l # None
        BY <2>1, <2>2, <2>4, <3>1, <3>2 DEF PromptInv, TodoInv
      <4>2. Was(i, l)
        BY <4>1 DEF PromptInv, NamesInv
      <4>3. Was(i, l)'
        BY <4>2, StaysNamed
      <4>4. since'[r] = Began(r) /\ over'[r][l] = Over(r)
        BY <1>0, <2>1, <2>2, <2>4, <3>2
      <4>5. over[r][l] # None => since[r] # None /\ since[r] <= over[r][l]
        BY <2>1 DEF PromptInv, OverInv
      <4>6. Began(r) # None /\ Began(r) <= Over(r)
        BY <1>0, <3>2, <4>5 DEF Began, Over, Times
      <4>. QED
        BY <2>1, <3>1, <4>3, <4>4, <4>6
    <3>3. CASE l # sample.link
      <4>1. over'[r][l] = over[r][l]
        BY <1>0, <2>1, <2>2, <2>4, <3>3
      <4>2. since[r] # None
        BY <2>1, <4>1 DEF PromptInv, OverInv
      <4>3. since'[r] = since[r]
        BY <1>0, <2>1, <2>4, <4>2 DEF Began
      <4>. QED
        BY <1>1, <2>1, <4>1, <4>3
    <3>. QED
      BY <3>2, <3>3
  <2>. QED
    BY <2>3, <2>4
<1>6. ASSUME NEW x \in Rules, Fire(x)
      PROVE  (Was(rules[r].iface, l) /\ since[r] # None /\ since[r] <= over[r][l])'
  <2>1. rules' = rules /\ since' = since /\ over' = [over EXCEPT ![x] = [k \in Links |-> None]]
    BY <1>6 DEF Fire
  <2>2. x # r
    BY <1>0, <2>1
  <2>. QED
    BY <1>0, <1>1, <2>1, <2>2
<1>7. CASE Sent
  <2>1. /\ rules' = rules /\ over' = over /\ since' = [since EXCEPT ![cur] = None]
        /\ \A k \in Links : over[cur][k] = None
    BY <1>7 DEF Sent, PromptInv, UntilInv
  <2>2. r # cur
    BY <2>1
  <2>. QED
    BY <1>0, <1>1, <2>1, <2>2
<1>8. CASE UNCHANGED <<rules, over, since>>
  BY <1>1, <1>8
<1>. QED
  BY <1>2, <1>3, <1>4, <1>5, <1>6, <1>7, <1>8 DEF Next, Engine, Advance, Arrive, SaveRule,
     DeleteAlertRule, SetMonitoredInterfaces, ReloadInterfaces, ReloadFails, Receive, EndSample, vars

LEMMA NextTodo == TypeOK /\ TodoInv /\ [Next]_vars => TodoInv'
<1>. SUFFICES ASSUME TypeOK, TodoInv, [Next]_vars
              PROVE  TodoInv'
  OBVIOUS
<1>. USE DEF dbVars, memVars, runVars, history
<1>1. CASE todo' = {}
  BY <1>1 DEF TodoInv
<1>2. CASE todo' \subseteq todo /\ UNCHANGED <<rules, names, sample>>
  BY <1>2 DEF TodoInv
<1>3. CASE ReloadRules \/ ReloadInterfaces \/ EndSample \/ Restart
  <2>1. todo' = {}
    BY <1>3 DEF ReloadRules, ReloadInterfaces, EndSample, Restart, TypeOK
  <2>. QED
    BY <1>1, <2>1
<1>4. CASE Receive
  BY <1>4 DEF Receive, Matches, TodoInv
<1>. QED
  BY <1>2, <1>3, <1>4 DEF Next, Engine, Advance, Arrive, SaveRule, DeleteAlertRule,
     SetMonitoredInterfaces, ReloadFails, JudgeUnmet, JudgeMet, Fire, Sent, vars

LEMMA NextUntil == TypeOK /\ UntilInv /\ [Next]_vars => UntilInv'
<1>. SUFFICES ASSUME TypeOK, UntilInv, [Next]_vars
              PROVE  UntilInv'
  OBVIOUS
<1>. USE NoneIsApart DEF dbVars, memVars, runVars, history
<1>1. ASSUME UNCHANGED <<until, fired, cur>>, pc' = "send" => pc = "send" /\ over' = over
      PROVE  UntilInv'
  BY <1>1 DEF UntilInv
<1>2. CASE Restart
  BY <1>2 DEF Restart, UntilInv, Untold
<1>3. ASSUME NEW x \in Rules, Fire(x)
      PROVE  UntilInv'
  <2>1. /\ fired' = [fired EXCEPT ![x] = [at |-> clock, cooldown |-> rules[x].cooldown]]
        /\ over' = [over EXCEPT ![x] = [k \in Links |-> None]]
        /\ cur' = x /\ UNCHANGED until /\ x \in todo
    BY <1>3 DEF Fire
  <2>2. [at |-> clock, cooldown |-> rules[x].cooldown] \in Firings
    BY <2>1, TextsTyped DEF TypeOK, RuleTexts, Firings
  <2>3. fired'[x] # None /\ \A r \in Rules \ {x} : fired'[r] = fired[r]
    BY <2>1, <2>2 DEF TypeOK
  <2>4. \A k \in Links : over'[x][k] = None
    BY <2>1 DEF TypeOK
  <2>. QED
    BY <2>1, <2>3, <2>4 DEF UntilInv
<1>4. CASE Sent
  <2>1. cur \in Rules /\ fired[cur] # None /\ UNCHANGED fired /\ pc' = "judge"
        /\ until' = [until EXCEPT ![cur] = now + rules[cur].cooldown]
    BY <1>4 DEF Sent, TypeOK, UntilInv
  <2>. QED
    BY <2>1 DEF UntilInv, TypeOK
<1>5. CASE ReloadRules \/ ReloadInterfaces \/ Receive \/ EndSample
  BY <1>1, <1>5 DEF ReloadRules, ReloadInterfaces, Receive, EndSample
<1>6. CASE \E r \in Rules : JudgeUnmet(r) \/ JudgeMet(r)
  BY <1>1, <1>6 DEF JudgeUnmet, JudgeMet
<1>. QED
  BY <1>1, <1>2, <1>3, <1>4, <1>5, <1>6 DEF Next, Engine, Advance, Arrive, SaveRule, DeleteAlertRule,
     SetMonitoredInterfaces, ReloadFails, vars

LEMMA PromptInvariant == Spec => [](TypeOK /\ DueInv /\ PromptInv)
<1>1. Init => PromptInv
  <2>. SUFFICES ASSUME Init
                PROVE  PromptInv
    OBVIOUS
  <2>1. names = iface /\ todo = {} /\ pc = "idle" /\ until = Untold
        /\ over = [r \in Rules |-> [l \in Links |-> None]]
        /\ \A i \in Ifaces : iface[i] # None <=> i \in usedIds
    BY DEF Init
  <2>. QED
    BY <2>1 DEF PromptInv, NamesInv, OverInv, TodoInv, UntilInv, Was, Untold
<1>2. TypeOK /\ DueInv /\ PromptInv /\ [Next]_vars => PromptInv'
  BY NextNames, NextOver, NextTodo, NextUntil DEF PromptInv
<1>3. Spec => []DueInv
  BY InitDue, NextDue, TypeCorrect, PTL DEF Spec
<1>. QED
  BY <1>1, <1>2, <1>3, TypeCorrect, PTL DEF Spec

\* A sample that shows that its rule has been met long enough is due.
LEMMA SustainedIsDue ==
  ASSUME TypeOK, DueInv, PromptInv, NEW r \in Rules, Sustained(r), rules[r].iface # All
  PROVE  Due(r)
<1>. USE NoneIsApart
<1>1. /\ pc = "judge" /\ r \in todo /\ over[r][sample.link] # None
      /\ clock - over[r][sample.link] >= rules[r].duration
      /\ fired[r] # None => clock > fired[r].at + fired[r].cooldown
  BY DEF Sustained
<1>2. sample.link \in Links
  BY <1>1 DEF TypeOK, Samples
<1>3. /\ rules[r] # None /\ rules[r].duration \in Int /\ clock \in Int
      /\ over[r][sample.link] \in Times /\ since[r] \in Times
  BY <1>1, <1>2, TextsTyped DEF TypeOK, RuleTexts
<1>4. since[r] # None /\ since[r] <= over[r][sample.link]
  BY <1>1, <1>2, <1>3 DEF PromptInv, OverInv
<1>5. until[r] # None => clock > until[r]
  BY <1>1 DEF PromptInv, UntilInv, DueInv, CooldownKept, Firing
<1>6. clock - since[r] >= rules[r].duration
  BY <1>1, <1>3, <1>4 DEF Times
<1>. QED
  BY <1>4, <1>5, <1>6 DEF Due

\* A rule of one interface fires at the first sample that shows its condition
\* met for its duration after its cooldown, though it is edited, its interface
\* is replaced and the engine restarts in between.
THEOREM InterfaceRulesFire == Spec => InterfaceRulePrompt
<1>1. TypeOK /\ DueInv /\ PromptInv /\ [Next]_vars =>
        [\A r \in Rules : Sustained(r) /\ rules[r].iface # All /\ r \notin todo' /\ pc' = "judge"
                          => pc = "send"]_vars
  <2>. SUFFICES ASSUME TypeOK, DueInv, PromptInv, [Next]_vars, NEW r \in Rules,
                       Sustained(r), rules[r].iface # All, r \notin todo', pc' = "judge", vars' # vars
                PROVE  FALSE
    OBVIOUS
  <2>. USE DEF dbVars, memVars, runVars, history
  <2>1. Due(r) /\ pc = "judge" /\ r \in todo /\ Met(rules[r], sample.rates)
    BY SustainedIsDue DEF Sustained
  <2>2. ~JudgeUnmet(r) /\ ~JudgeMet(r) /\ ~Fire(r)
    BY <2>1 DEF JudgeUnmet, JudgeMet, Fire
  <2>3. ASSUME NEW x \in Rules, JudgeUnmet(x) \/ JudgeMet(x) \/ Fire(x)
        PROVE  FALSE
    <3>1. todo' = todo \ {x} \/ todo' = todo
      BY <2>3 DEF JudgeUnmet, JudgeMet, Fire
    <3>. QED
      BY <2>1, <2>2, <2>3, <3>1
  <2>. QED
    BY <2>1, <2>3 DEF Next, Engine, Advance, Arrive, SaveRule, DeleteAlertRule, SetMonitoredInterfaces,
       ReloadRules, ReloadFails, Restart, ReloadInterfaces, Receive, EndSample, Sent
<1>. QED
  BY <1>1, PromptInvariant, PTL DEF Spec, InterfaceRulePrompt
=============================================================================
