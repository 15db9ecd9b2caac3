----------------------------- MODULE TenantConfig -----------------------------
(***************************************************************************)
(* One tenant's WAF configuration: the document, the two ways to change it *)
(* (updateWafConfig reads, checks and saves; updateTenant sets whatever    *)
(* the request names) and the panels that show and save it                 *)
(* (WafConfigPanel).                                                       *)
(* A save writes the paths that differ from what was read; if one of them  *)
(* is an array, Mongoose asks for the version that was read.  A panel      *)
(* starts from defaults, edits a copy, saves the whole copy, and fetches   *)
(* again; an answer that arrives replaces the copy.  The level stands for   *)
(* every field that is not an array: mode and the flags behave like it.    *)
(***************************************************************************)
EXTENDS Integers, Sequences, SequencesExt

CONSTANTS
    Panels,         \* panels that may be open, in any browser
    Rules,          \* custom rules
    Limits,         \* what a plan allows: found stored, or sent to updateTenant
    Levels,         \* paranoia levels the panels' slider offers and documents first hold
    SentLevels,     \* paranoia levels, rules and versions that updateTenant is sent:
    SentRules,      \*   any, as its request's interface is not checked at run time
    SentVersions,
    Stored,         \* configurations first found stored
    None,
    MaxRules,       \* bound: rules a panel collects
    MaxEdits,       \* bound: edits in all panels
    MaxSaves,       \* bound: saves in all panels
    MaxTroubles     \* bound: calls of updateTenant, and requests that fail

ASSUME ConfigAssumption ==
    /\ Stored \subseteq [level : Levels, rules : Seq(Rules)]
    /\ Levels \subseteq 1..4 /\ Limits \subseteq Int
    /\ SentLevels \subseteq Int /\ SentRules \subseteq Seq(Rules) /\ SentVersions \subseteq Nat
    /\ MaxEdits \in Nat /\ MaxSaves \in Nat /\ MaxTroubles \in Nat

VARIABLES
    doc,            \* the tenant document
    form,           \* each panel's wafConfig
    isLoading, isSaving,
    limit,          \* each panel's subscription.limits.custom_rules
    fetches,        \* each panel's fetches of the configuration in flight
    saving,         \* each panel's save on its way
    mounted,        \* the panels that have mounted and fetch
    calm,           \* history: one panel, no failure, and nothing done too soon
    edited,         \* history: while calm, the fields edited since a fetch arrived
    edits, saves, troubles

panels == <<form, isLoading, isSaving, limit, fetches, saving, mounted>>
history == <<calm, edited>>
bounds == <<edits, saves, troubles>>
vars == <<doc, panels, history, bounds>>

Fields == {"level", "rules"}
Config == [level : Int, rules : Seq(Rules)]
Default == [level |-> 1, rules |-> << >>]
Document == [config : Config, limit : Limits, version : Nat]

\* config: what the server has read for it, None before.
Fetches == [n : Nat, config : Config \cup {None}]

\* pc: the request on its way, the document read, the document saved.  old: the document
\* that was read.  overtaken: what updateTenant has changed of the document since.
NoSave == [pc |-> "none", config |-> None, old |-> None, overtaken |-> {}]
Saving == [pc : {"none", "saved"}, config : {None}, old : {None}, overtaken : {{}}]
          \cup [pc : {"sent"}, config : Config, old : {None}, overtaken : {{}}]
          \cup [pc : {"read"}, config : Config, old : Document,
                overtaken : SUBSET {"config", "limit", "version"}]

TypeOK ==
    /\ doc \in Document
    /\ mounted \subseteq Panels
    /\ form \in [Panels -> Config]
    /\ limit \in [Panels -> Limits \cup {None}]
    /\ isLoading \in [Panels -> BOOLEAN]
    /\ fetches \in [Panels -> SUBSET Fetches]
    /\ saving \in [Panels -> Saving]
    /\ isSaving = [p \in Panels |-> saving[p].pc # "none"]
    /\ calm \in BOOLEAN /\ edited \in SUBSET Fields
    /\ edits \in Nat /\ saves \in Nat /\ troubles \in Nat

Init ==
    /\ \E config \in Stored, l \in Limits : doc = [config |-> config, limit |-> l, version |-> 0]
    /\ mounted \in SUBSET Panels \ {{}}
    /\ form = [p \in Panels |-> Default]
    /\ isLoading = [p \in Panels |-> TRUE] /\ isSaving = [p \in Panels |-> FALSE]
    /\ limit = [p \in Panels |-> None]
    /\ fetches = [p \in Panels |-> IF p \in mounted THEN {[n |-> MaxSaves, config |-> None]}
                                                    ELSE {}]
    /\ saving = [p \in Panels |-> NoSave]
    /\ calm = (\A p, q \in mounted : p = q) /\ edited = {}
    /\ edits = MaxEdits /\ saves = MaxSaves /\ troubles = MaxTroubles

\* History: it stays calm if holds, and then these fields have been edited.
Calm(holds, fields) ==
    /\ calm' = (calm /\ holds)
    /\ edited' = IF calm /\ holds THEN fields ELSE {}

Trouble == troubles > 0 /\ troubles' = troubles - 1
Fault == Trouble /\ Calm(FALSE, {})
-------------------------------------------------------------------------------
\* fetchWafConfig; fetches of a panel are numbered by the saves still to come.
Fetching(p) == fetches' = [fetches EXCEPT ![p] = @ \cup {[n |-> saves, config |-> None]}]

\* getWafConfig reads the document.
ReadConfig(p, f) ==
    /\ f \in fetches[p] /\ f.config = None
    /\ fetches' = [fetches EXCEPT ![p] = (@ \ {f}) \cup {[f EXCEPT !.config = doc.config]}]
    /\ UNCHANGED <<doc, form, isLoading, isSaving, limit, saving, mounted, history, bounds>>

\* Mutant of Shown: the rules of the form stay.
ShownButRules(p, config) == [config EXCEPT !.rules = form[p].rules]
\* setWafConfig with an answer.
Shown(p, config) == config

ConfigArrives(p, f) ==
    /\ f \in fetches[p] /\ f.config # None
    /\ fetches' = [fetches EXCEPT ![p] = @ \ {f}]
    /\ form' = [form EXCEPT ![p] = Shown(p, f.config)]
    /\ Calm(TRUE, {})
    /\ UNCHANGED <<doc, isLoading, isSaving, limit, saving, mounted, bounds>>

\* The fetch fails: the form stays what it is, defaults included.
ConfigFails(p, f) ==
    /\ f \in fetches[p] /\ Fault
    /\ fetches' = [fetches EXCEPT ![p] = @ \ {f}]
    /\ UNCHANGED <<doc, form, isLoading, isSaving, limit, saving, mounted, edits, saves>>

\* getSubscriptionInfo arrives or fails; the panel stops loading in either case, with
\* or without its configuration.
SubscriptionArrives(p) ==
    /\ p \in mounted /\ isLoading[p]
    /\ limit' = [limit EXCEPT ![p] = doc.limit]
    /\ isLoading' = [isLoading EXCEPT ![p] = FALSE]
    /\ UNCHANGED <<doc, form, isSaving, fetches, saving, mounted, history, bounds>>
SubscriptionFails(p) ==
    /\ p \in mounted /\ isLoading[p] /\ Fault
    /\ isLoading' = [isLoading EXCEPT ![p] = FALSE]
    /\ UNCHANGED <<doc, form, isSaving, limit, fetches, saving, mounted, edits, saves>>
-------------------------------------------------------------------------------
\* The user edits a field of a panel that is not loading; also while it saves.
Edit(p, field, config) ==
    /\ p \in mounted /\ ~isLoading[p]
    /\ edits > 0 /\ edits' = edits - 1
    /\ form' = [form EXCEPT ![p] = config]
    /\ Calm(fetches[p] = {} /\ ~isSaving[p], edited \cup {field})
    /\ UNCHANGED <<doc, isLoading, isSaving, limit, fetches, saving, mounted, saves,
                   troubles>>

setLevel(p, level) == Edit(p, "level", [form[p] EXCEPT !.level = level])
\* Limited by the subscription if that is known.
handleAddCustomRule(p, rule) ==
    /\ limit[p] # None => Len(form[p].rules) < limit[p]
    /\ Len(form[p].rules) < MaxRules
    /\ Edit(p, "rules", [form[p] EXCEPT !.rules = Append(@, rule)])
handleRemoveCustomRule(p, i) ==
    /\ i \in DOMAIN form[p].rules
    /\ Edit(p, "rules", [form[p] EXCEPT !.rules = RemoveAt(@, i)])

handleSaveConfig(p) ==
    /\ p \in mounted /\ ~isLoading[p] /\ ~isSaving[p]
    /\ saves > 0 /\ saves' = saves - 1
    /\ isSaving' = [isSaving EXCEPT ![p] = TRUE]
    /\ saving' = [saving EXCEPT ![p] = [NoSave EXCEPT !.pc = "sent", !.config = form[p]]]
    /\ Calm(fetches[p] = {}, edited)
    /\ UNCHANGED <<doc, form, isLoading, limit, fetches, mounted, edits, troubles>>

\* The finally of handleSaveConfig.
Ended(p) ==
    /\ saving' = [saving EXCEPT ![p] = NoSave]
    /\ isSaving' = [isSaving EXCEPT ![p] = FALSE]

\* Mutant of Allowed: the panel has checked the limit.
AllowedByPanel(p) == TRUE
\* No more rules than the plan allows.
Allowed(p) == Len(saving[p].config.rules) <= doc.limit

\* updateWafConfig reads the document and checks the limit.
FindTenant(p) ==
    /\ saving[p].pc = "sent" /\ Allowed(p)
    /\ saving' = [saving EXCEPT ![p].pc = "read", ![p].old = doc]
    /\ UNCHANGED <<doc, form, isLoading, isSaving, limit, fetches, mounted, history, bounds>>
Conflict(p) ==
    /\ saving[p].pc = "sent" /\ ~Allowed(p)
    /\ Ended(p)
    /\ UNCHANGED <<doc, form, isLoading, limit, fetches, mounted, history, bounds>>

Clamp(level) == IF level < 1 THEN 1 ELSE IF level > 4 THEN 4 ELSE level

SetsRules(p) == saving[p].config.rules # saving[p].old.config.rules
\* The paths that were set to something else than was read.
Merged(p) ==
    LET level == Clamp(saving[p].config.level)
    IN  [level |-> IF level # saving[p].old.config.level THEN level ELSE doc.config.level,
         rules |-> IF SetsRules(p) THEN saving[p].config.rules ELSE doc.config.rules]

\* Mutant of Current: the version is not asked for.
CurrentAlways(p) == TRUE
\* An array is written only over the version that was read.
Current(p) == SetsRules(p) => doc.version = saving[p].old.version

\* tenant.save()
Save(p) ==
    /\ saving[p].pc = "read" /\ Current(p)
    /\ doc' = [doc EXCEPT !.config = Merged(p),
                          !.version = IF SetsRules(p) THEN @ + 1 ELSE @]
    /\ saving' = [saving EXCEPT ![p] = [NoSave EXCEPT !.pc = "saved"]]
    /\ UNCHANGED <<form, isLoading, isSaving, limit, fetches, mounted, history, bounds>>
VersionError(p) ==
    /\ saving[p].pc = "read" /\ ~Current(p)
    /\ Ended(p)
    /\ UNCHANGED <<doc, form, isLoading, limit, fetches, mounted, history, bounds>>

\* The answer: the panel fetches what was stored.
SaveReturns(p) ==
    /\ saving[p].pc = "saved"
    /\ Ended(p) /\ Fetching(p)
    /\ Calm(fetches[p] = {}, edited)
    /\ UNCHANGED <<doc, form, isLoading, limit, mounted, bounds>>

\* The request or the database fails, before or after the save.
SaveFails(p) ==
    /\ saving[p].pc # "none" /\ Fault
    /\ Ended(p)
    /\ UNCHANGED <<doc, form, isLoading, limit, fetches, mounted, edits, saves>>
-------------------------------------------------------------------------------
\* updateTenant sets what the body of the request names, and checks nothing: the document
\* has these fields then.
updateTenant(sent) ==
    /\ Trouble
    /\ doc' = sent
    /\ saving' = [p \in Panels |-> IF saving[p].pc # "read" THEN saving[p] ELSE
          [saving[p] EXCEPT !.overtaken = @ \cup {f \in DOMAIN sent : sent[f] # doc[f]}]]
    /\ Calm(sent.config = doc.config, edited)
    /\ UNCHANGED <<form, isLoading, isSaving, limit, fetches, mounted, edits, saves>>

\* What a request may make of the document: each field is sent, or stays.
Sent == [config : [level : SentLevels \cup {doc.config.level},
                   rules : SentRules \cup {doc.config.rules}],
         limit : Limits, version : SentVersions \cup {doc.version}]

Panel(p) ==
    \/ \E f \in fetches[p] : ReadConfig(p, f) \/ ConfigArrives(p, f) \/ ConfigFails(p, f)
    \/ SubscriptionArrives(p) \/ SubscriptionFails(p)
SaveStep(p) ==
    FindTenant(p) \/ Conflict(p) \/ Save(p) \/ VersionError(p) \/ SaveReturns(p) \/ SaveFails(p)
User(p) ==
    \/ handleSaveConfig(p)
    \/ \E level \in Levels \ {form[p].level} : setLevel(p, level)
    \/ \E rule \in Rules : handleAddCustomRule(p, rule)
    \/ \E i \in 1..MaxRules : handleRemoveCustomRule(p, i)

Next ==
    \/ \E p \in Panels : Panel(p) \/ SaveStep(p) \/ User(p)
    \/ \E sent \in Sent : updateTenant(sent)

Spec == Init /\ [][Next]_vars
-------------------------------------------------------------------------------
\* Rules that a save stores are within the plan, whatever panels without a known limit
\* send and however saves interleave.  updateTenant alone stores more than the plan
\* allows, or lowers it below what is stored; and if it changes the limit between a
\* save's read and its write, which does not look again, what is written is still within
\* the limit that was read.
RulesWithinPlan ==
    [][\A p \in Panels :
         Save(p) /\ doc'.config.rules # doc.config.rules
            => Len(doc'.config.rules) <= IF "limit" \in saving[p].overtaken
                                         THEN saving[p].old.limit ELSE doc'.limit]_vars

\* A save replaces only rules that updateWafConfig has read: of two saves that overlap
\* and both change the rules, the second fails; unless updateTenant replaced the
\* configuration in between, which leaves the version as it was, or the version.
NoRulesUnread ==
    [][\A p \in Panels :
         Save(p) /\ doc'.config.rules # doc.config.rules
            => \/ saving[p].overtaken \cap {"config", "version"} # {}
               \/ doc.config.rules = saving[p].old.config.rules]_vars

\* With one panel, no failure, no configuration stored by updateTenant, and a user who
\* waits for fetches and saves, a save changes the fields the user has edited, and no
\* other: neither the defaults the panel starts from nor an answer to an earlier fetch is
\* stored.  (A level outside the slider's range, which updateTenant alone could have
\* stored, would be clamped.)
SavesOnlyEdits ==
    [][\A p \in Panels :
         calm /\ Save(p) => \A field \in Fields \ edited :
                               doc'.config[field] = doc.config[field]]_vars
===============================================================================
