------------------------------- MODULE Alerter -------------------------------
(***************************************************************************)
(* The alert engine, internal/alerter/alerter.go: one goroutine that takes *)
(* samples from a channel, judges each by the rules that match it, and     *)
(* sends notifications; and that refreshes its copy of the rules and of    *)
(* the interface names from a ticker.  The API edits the tables behind     *)
(* both at any time.                                                       *)
(*                                                                         *)
(* The clock is the monotonic clock of time.Now; it may move between any   *)
(* two steps, in particular while a notification blocks.  A link is an     *)
(* interface of a device, <<device, interface name>>; an interface id is   *)
(* the key of its row and is never used again.                             *)
(***************************************************************************)
EXTENDS Integers, Sequences, FiniteSets

CONSTANTS
    Links,      \* the interfaces that are polled
    Ifaces,     \* ids of monitored_interfaces
    Rules,      \* ids of alert_rules
    Texts,      \* bound: what a rule can say
    Traffic,    \* bound: the rates [tx, rx] of a sample
    None, All,
    QueueCap,   \* capacity of the alerter's channel
    Horizon,    \* bound: the last moment considered
    MaxEdits,   \* bound: edits of rules and interfaces
    MaxFaults   \* bound: failed database reads, restarts of the process

Devices == {l[1] : l \in Links}

RuleTexts == [dev : Devices, iface : Ifaces \cup {All},
              direction : {"tx", "rx", "both"}, condition : {"above", "below"},
              threshold : Int, duration : Int, cooldown : Int]

Samples == [link : Links, rates : Traffic]
Firings == [at : Int, cooldown : Int]

ASSUME AlerterAssumption ==
    /\ None \notin Int \cup Links \cup Rules \cup RuleTexts \cup Samples \cup Firings
    /\ All \notin Ifaces
    /\ Texts \subseteq RuleTexts
    /\ Traffic \subseteq [tx : Int, rx : Int]
    /\ QueueCap \in Nat \ {0}
    /\ Horizon \in Nat /\ MaxEdits \in Nat /\ MaxFaults \in Nat

VARIABLES
    clock,
    rule,        \* alert_rules: a rule's state and its text
    iface,       \* monitored_interfaces: the link of an id
    usedIds,     \* the ids given out so far
    alerts,      \* alert_history: a rule's rows with and without "notified"
    samples,     \* the channel
    polled,      \* bound: links already polled at this moment
    rules,       \* Engine.rules: the text of a rule, None if it has none
    names,       \* Engine.ifaces
    since,       \* conditionSince, by rule
    until,       \* cooldownUntil, by rule
    pc,
    sample, todo,\* the sample being judged, and the rules still to apply
    cur, now,    \* the rule being fired, and its time
    edits, faults,
    unmet,       \* history: when a rule last judged a sample that did not meet it
    fired,       \* history: a rule's last firing, its time and cooldown
    over         \* history: since when all samples of a link met the rule

dbVars  == <<rule, iface, usedIds, alerts>>
memVars == <<rules, names, since, until>>
runVars == <<pc, sample, todo, cur, now>>
history == <<unmet, fired, over>>
vars == <<clock, dbVars, samples, polled, memVars, runVars, edits, faults, history>>

-----------------------------------------------------------------------------
Untold == [r \in Rules |-> None]

\* What ListEnabledAlertRules returns.
EnabledRules == [r \in Rules |-> IF rule[r].life = "on" THEN rule[r].text ELSE None]

Init ==
    /\ clock = 0
    /\ rule \in [Rules -> [life : {"on", "none"}, text : Texts]]
    /\ usedIds \in SUBSET Ifaces
    /\ iface \in [Ifaces -> Links \cup {None}]
    /\ \A i \in Ifaces : iface[i] # None <=> i \in usedIds
    /\ \A i, j \in usedIds : iface[i] = iface[j] => i = j
    /\ \A r \in Rules : LET t == rule[r].text IN
          rule[r].life = "on" /\ t.iface # All =>
              t.iface \in usedIds /\ iface[t.iface][1] = t.dev
    /\ alerts = [r \in Rules |-> [plain |-> 0, notified |-> 0]]
    /\ samples = <<>> /\ polled = {}
    /\ rules = EnabledRules
    /\ names = iface
    /\ since = Untold /\ until = Untold
    /\ pc = "idle" /\ sample = None /\ todo = {} /\ cur = None /\ now = 0
    /\ edits = 0 /\ faults = 0
    /\ unmet = Untold /\ fired = Untold
    /\ over = [r \in Rules |-> [l \in Links |-> None]]

-----------------------------------------------------------------------------
(* What surrounds the engine.                                              *)

\* The next polls come.  At the horizon the clock stands still: polls go on,
\* but no more time is seen to pass.
Advance ==
    /\ clock' = IF clock < Horizon THEN clock + 1 ELSE clock
    /\ polled' = {}
    /\ UNCHANGED <<dbVars, samples, memVars, runVars, edits, faults, history>>

\* The fan-out offers a sample; a full channel loses it.
Arrive(l) == \E v \in Traffic :
    /\ l \notin polled
    /\ polled' = polled \cup {l}
    /\ samples' = IF Len(samples) < QueueCap
                  THEN Append(samples, [link |-> l, rates |-> v])
                  ELSE samples
    /\ UNCHANGED <<clock, dbVars, memVars, runVars, edits, faults, history>>

Edit == edits < MaxEdits /\ edits' = edits + 1

\* CreateAlertRule and UpdateAlertRule.
SaveRule(r) == \E t \in Texts, life \in {"on", "off"} :
    /\ Edit
    /\ rule[r].life # "gone"
    /\ t.iface # All => iface[t.iface] # None
    /\ rule' = [rule EXCEPT ![r] = [life |-> life, text |-> t]]
    /\ UNCHANGED <<clock, iface, usedIds, alerts, samples, polled, memVars,
                   runVars, faults, history>>

\* The rules in R are deleted.
Drop(R) == rule' = [r \in Rules |-> IF r \in R THEN [rule[r] EXCEPT !.life = "gone"]
                                    ELSE rule[r]]

DeleteAlertRule(r) ==
    /\ Edit
    /\ rule[r].life \in {"on", "off"}
    /\ Drop({r})
    /\ UNCHANGED <<clock, iface, usedIds, alerts, samples, polled, memVars,
                   runVars, faults, history>>

\* SetMonitoredInterfaces deletes the rows of the device and inserts new ones;
\* the rules that named a deleted row go with it.
SetMonitoredInterfaces(d) == \E new \in SUBSET (Ifaces \ usedIds) :
    \E to \in [new -> {l \in Links : l[1] = d}] :
        LET old == {i \in Ifaces : iface[i] # None /\ iface[i][1] = d}
        IN  /\ Edit
            /\ \A i, j \in new : to[i] = to[j] => i = j
            /\ iface' = [i \in Ifaces |-> IF i \in new THEN to[i]
                                          ELSE IF i \in old THEN None ELSE iface[i]]
            /\ usedIds' = usedIds \cup new
            /\ Drop({r \in Rules : /\ rule[r].life \in {"on", "off"}
                                   /\ rule[r].text.iface \in old})
            /\ UNCHANGED <<clock, alerts, samples, polled, memVars, runVars,
                           faults, history>>

-----------------------------------------------------------------------------
(* The engine.                                                             *)

\* The ticker wins the select: reload reads the devices and the rules.
ReloadRules ==
    /\ pc = "idle"
    /\ rules' = EnabledRules
    /\ over' = [r \in Rules |-> IF rules'[r] = rules[r] THEN over[r]
                                ELSE [l \in Links |-> None]]
    /\ pc' = "reload"
    /\ UNCHANGED <<clock, dbVars, samples, polled, names, since, until, sample,
                   todo, cur, now, edits, faults, unmet, fired>>

\* One of the two reads fails: the engine keeps what it has.
ReloadFails ==
    /\ pc = "idle"
    /\ faults < MaxFaults
    /\ faults' = faults + 1
    /\ UNCHANGED <<clock, dbVars, samples, polled, memVars, runVars, edits, history>>

ReloadInterfaces_skipped ==
    /\ pc = "reload"
    /\ pc' = "idle"
    /\ UNCHANGED <<clock, dbVars, samples, polled, rules, names, since, until, sample,
                   todo, cur, now, edits, faults, history>>
\* Then the interfaces of every device.  A device whose list cannot be read is
\* left with none.
ReloadInterfaces ==
    /\ pc = "reload"
    /\ \/ names' = iface /\ UNCHANGED faults
       \/ /\ faults < MaxFaults
          /\ faults' = faults + 1
          /\ \E D \in SUBSET Devices \ {{}} :
                names' = [i \in Ifaces |->
                            IF iface[i] # None /\ iface[i][1] \in D THEN None ELSE iface[i]]
    /\ pc' = "idle"
    /\ UNCHANGED <<clock, dbVars, samples, polled, rules, since, until, sample,
                   todo, cur, now, edits, history>>

\* The filter at the head of evaluate's loop.
Matches(r, s) ==
    /\ rules[r] # None
    /\ rules[r].dev = s.link[1]
    /\ rules[r].iface = All \/ names[rules[r].iface] = s.link

Exceeds(t, v) == IF t.condition = "above" THEN v > t.threshold ELSE v < t.threshold

Met(t, v) ==
    \/ t.direction \in {"tx", "both"} /\ Exceeds(t, v.tx)
    \/ t.direction \in {"rx", "both"} /\ Exceeds(t, v.rx)

\* A sample wins the select.
Receive ==
    /\ pc = "idle"
    /\ samples # <<>>
    /\ sample' = Head(samples)
    /\ samples' = Tail(samples)
    /\ todo' = {r \in Rules : Matches(r, Head(samples))}
    /\ pc' = "judge"
    /\ UNCHANGED <<clock, dbVars, polled, memVars, cur, now, edits, faults, history>>

\* When a rule whose condition is met fires.
Due_early(r) ==
    /\ since[r] # None
    /\ clock - since[r] >= rules[r].duration
    /\ until[r] # None => clock >= until[r]
Due(r) ==
    /\ since[r] # None
    /\ clock - since[r] >= rules[r].duration
    /\ until[r] # None => clock > until[r]

\* A row in alert_history refers to its rule; it is refused when that is gone.
Record(r, kind) ==
    alerts' = IF rule[r].life = "gone" THEN alerts ELSE [alerts EXCEPT ![r][kind] = @ + 1]

\* One rule of evaluate's loop.  A rule that fires is first recorded.
JudgeUnmet(r) ==
    /\ pc = "judge" /\ r \in todo
    /\ ~Met(rules[r], sample.rates)
    /\ since' = [since EXCEPT ![r] = None]
    /\ todo' = todo \ {r}
    /\ unmet' = [unmet EXCEPT ![r] = clock]
    /\ over' = [over EXCEPT ![r][sample.link] = None]
    /\ UNCHANGED <<clock, dbVars, samples, polled, rules, names, until, pc,
                   sample, cur, now, edits, faults, fired>>

\* conditionSince of a rule whose condition is met.
Began_anew(r) == clock
Began(r) == IF since[r] = None THEN clock ELSE since[r]

\* history: the link meets the rule, as it may have done for some time.
Over(r) == IF over[r][sample.link] = None THEN clock ELSE over[r][sample.link]

JudgeMet(r) ==
    /\ pc = "judge" /\ r \in todo
    /\ Met(rules[r], sample.rates)
    /\ ~Due(r)
    /\ since' = [since EXCEPT ![r] = Began(r)]
    /\ todo' = todo \ {r}
    /\ over' = [over EXCEPT ![r][sample.link] = Over(r)]
    /\ UNCHANGED <<clock, dbVars, samples, polled, rules, names, until, pc,
                   sample, cur, now, edits, faults, unmet, fired>>

Fire(r) ==
    /\ pc = "judge" /\ r \in todo
    /\ Met(rules[r], sample.rates)
    /\ Due(r)
    /\ Record(r, "plain")
    /\ pc' = "send" /\ cur' = r /\ now' = clock
    /\ fired' = [fired EXCEPT ![r] = [at |-> clock, cooldown |-> rules[r].cooldown]]
    /\ over' = [over EXCEPT ![r] = [l \in Links |-> None]]
    /\ UNCHANGED <<clock, rule, iface, usedIds, samples, polled, memVars, sample,
                   todo, edits, faults, unmet>>

\* The notification went through to at least one recipient or to none (no
\* configuration, no recipients, all refused twice); either starts the cooldown,
\* as of the time at which the rule was judged.
Sent == \E notified \in BOOLEAN :
    /\ pc = "send"
    /\ IF notified THEN Record(cur, "notified") ELSE UNCHANGED alerts
    /\ until' = [until EXCEPT ![cur] = now + rules[cur].cooldown]
    /\ since' = [since EXCEPT ![cur] = None]
    /\ todo' = todo \ {cur}
    /\ pc' = "judge" /\ cur' = None /\ now' = 0
    /\ UNCHANGED <<clock, rule, iface, usedIds, samples, polled, rules, names,
                   sample, edits, faults, history>>

EndSample_early ==
    /\ pc = "judge"
    /\ pc' = "idle" /\ sample' = None
    /\ UNCHANGED <<clock, dbVars, samples, polled, memVars, todo, cur, now,
                   edits, faults, history>>
EndSample ==
    /\ pc = "judge"
    /\ todo = {}
    /\ pc' = "idle" /\ sample' = None
    /\ UNCHANGED <<clock, dbVars, samples, polled, memVars, todo, cur, now,
                   edits, faults, history>>

\* The process stops, and New loads the rules again, or starts with none; what
\* the engine knew of its rules is forgotten.
Restart ==
    /\ faults < MaxFaults
    /\ faults' = faults + 1
    /\ samples' = <<>>
    /\ \/ rules' = EnabledRules /\ names' = iface
       \/ rules' = Untold /\ names' = [i \in Ifaces |-> None]
    /\ since' = Untold /\ until' = Untold
    /\ pc' = "idle" /\ sample' = None /\ todo' = {} /\ cur' = None /\ now' = 0
    /\ unmet' = Untold /\ fired' = Untold
    /\ over' = [r \in Rules |-> [l \in Links |-> None]]
    /\ UNCHANGED <<clock, dbVars, polled, edits>>

-----------------------------------------------------------------------------
Engine ==
    \/ ReloadInterfaces \/ Receive \/ EndSample \/ Sent
    \/ \E r \in Rules : JudgeUnmet(r) \/ JudgeMet(r) \/ Fire(r)

Next ==
    \/ Advance
    \/ \E l \in Links : Arrive(l)
    \/ \E r \in Rules : SaveRule(r) \/ DeleteAlertRule(r)
    \/ \E d \in Devices : SetMonitoredInterfaces(d)
    \/ ReloadRules \/ ReloadFails \/ Restart
    \/ Engine

Spec == Init /\ [][Next]_vars

\* A notification has timeouts and ends; the ticker wins the select in the end
\* however many samples wait, since select picks at random.
FairSpec == Spec /\ WF_vars(Engine) /\ SF_vars(ReloadRules)

-----------------------------------------------------------------------------
(* Properties.                                                             *)

Times == Int \cup {None}

TypeOK ==
    /\ clock \in 0 .. Horizon
    /\ rule \in [Rules -> [life : {"none", "on", "off", "gone"}, text : Texts]]
    /\ iface \in [Ifaces -> Links \cup {None}]
    /\ usedIds \subseteq Ifaces /\ \A i \in Ifaces : iface[i] # None => i \in usedIds
    /\ alerts \in [Rules -> [plain : Nat, notified : Nat]]
    /\ samples \in Seq(Samples) /\ Len(samples) <= QueueCap
    /\ polled \subseteq Links
    /\ rules \in [Rules -> Texts \cup {None}]
    /\ names \in [Ifaces -> Links \cup {None}]
    /\ since \in [Rules -> Times] /\ until \in [Rules -> Times]
    /\ pc \in {"idle", "reload", "judge", "send"}
    /\ sample \in Samples \cup {None} /\ (pc \in {"judge", "send"} <=> sample # None)
    /\ todo \subseteq {r \in Rules : rules[r] # None}
    /\ pc \in {"idle", "reload"} => todo = {}
    /\ cur \in Rules \cup {None} /\ (pc = "send" => cur \in todo)
    /\ now \in Int
    /\ edits \in 0 .. MaxEdits /\ faults \in 0 .. MaxFaults
    /\ unmet \in [Rules -> Times]
    /\ fired \in [Rules -> Firings \cup {None}]
    /\ over \in [Rules -> [Links -> Times]]

\* A rule fires when its condition held at every sample it judged for its
\* duration, and when its cooldown and its duration have passed since it last
\* fired, though rules are edited, reloaded and deleted meanwhile and though a
\* notification may take longer than the cooldown.
Fires(r) == pc = "judge" /\ pc' = "send" /\ cur' = r
IsDue(r) ==
    /\ unmet[r] # None => clock - unmet[r] >= rules[r].duration
    /\ fired[r] # None =>
          /\ clock > fired[r].at + fired[r].cooldown
          /\ clock - fired[r].at >= rules[r].duration
FiresWhenDue == [][\A r \in Rules : Fires(r) => IsDue(r)]_vars

\* A sample that shows that its link has met rule r for the duration.
Sustained(r) ==
    /\ pc = "judge" /\ r \in todo
    /\ Met(rules[r], sample.rates)
    /\ over[r][sample.link] # None
    /\ clock - over[r][sample.link] >= rules[r].duration
    /\ fired[r] # None => clock > fired[r].at + fired[r].cooldown

\* A rule with an interface does not judge such a sample without firing.  A rule
\* for all of them may: it has one state for all, which a quiet one resets.
InterfaceRulePrompt ==
    [][\A r \in Rules :
          Sustained(r) /\ rules[r].iface # All /\ r \notin todo' /\ pc' = "judge"
          => pc = "send"]_vars

\* Every edit of a rule or of the interfaces reaches the engine in the end.
EditsTakeEffect == <>[](rules = EnabledRules /\ names = iface)
=============================================================================
