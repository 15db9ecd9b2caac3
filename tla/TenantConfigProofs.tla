-------------------------- MODULE TenantConfigProofs --------------------------
(***************************************************************************)
(* Type correctness of TenantConfig, that the rules a save stores are      *)
(* within the plan, that no save replaces rules that were not read for it, *)
(* and that a calm save changes only what was edited.                      *)
(*                                                                         *)
(* Checked: a save that has passed the check of the limit carries no more  *)
(* rules than the limit read for it, which is still the tenant's unless    *)
(* updateTenant has changed it.                                            *)
(* Versioned: a document with the version that a save has read holds the   *)
(* rules it has read, as only saves that set rules change rules and they   *)
(* advance the version; updateTenant changes them and does not, so a save  *)
(* it has overtaken is exempt.                                             *)
(* CalmInv: while one user waits for every answer, what a panel shows and  *)
(* saves is what is stored, but for the fields edited.                     *)
(***************************************************************************)
EXTENDS TenantConfig, TLAPS

Checked == \A p \in Panels : saving[p].pc = "read" =>
    /\ Len(saving[p].config.rules) <= saving[p].old.limit
    /\ "limit" \notin saving[p].overtaken => saving[p].old.limit = doc.limit

Versioned == \A p \in Panels :
    saving[p].pc = "read" /\ saving[p].overtaken \cap {"config", "version"} = {} =>
       /\ saving[p].old.version <= doc.version
       /\ saving[p].old.version = doc.version => saving[p].old.config.rules = doc.config.rules

-------------------------------------------------------------------------------
LEMMA DefaultIsConfig == Default \in Config /\ Len(Default.rules) = 0
BY DEF Default, Config

LEMMA InitTypeOK == Init => TypeOK
<1> SUFFICES ASSUME Init PROVE TypeOK OBVIOUS
<1>1. doc \in Document
  <2>1. PICK config \in Stored, l \in Limits : doc = [config |-> config, limit |-> l, version |-> 0]
    BY DEF Init
  <2>2. config \in [level : Levels, rules : Seq(Rules)] BY ConfigAssumption
  <2>3. Levels \subseteq Int BY ConfigAssumption
  <2>4. config \in Config BY <2>2, <2>3 DEF Config
  <2> QED BY <2>1, <2>4 DEF Document
<1>2. form \in [Panels -> Config] BY DefaultIsConfig DEF Init
<1>3. NoSave \in Saving /\ NoSave.pc = "none" BY DEF Saving, NoSave
<1>4. saving \in [Panels -> Saving] /\ isSaving = [p \in Panels |-> saving[p].pc # "none"]
  BY <1>3 DEF Init
<1>5. fetches \in [Panels -> SUBSET Fetches]
  <2>1. [n |-> MaxSaves, config |-> None] \in Fetches BY ConfigAssumption DEF Fetches
  <2> QED BY <2>1 DEF Init
<1>6. mounted \subseteq Panels /\ limit \in [Panels -> Limits \cup {None}]
  BY DEF Init
<1>7. isLoading \in [Panels -> BOOLEAN] BY DEF Init
<1>8. /\ calm \in BOOLEAN /\ edited \in SUBSET Fields
      /\ edits \in Nat /\ saves \in Nat /\ troubles \in Nat
  BY ConfigAssumption DEF Init
<1> QED BY <1>1, <1>2, <1>4, <1>5, <1>6, <1>7, <1>8 DEF TypeOK

\* What a step of the history may do.
LEMMA CalmTypeOK ==
    ASSUME TypeOK, NEW holds \in BOOLEAN, NEW fields \in SUBSET Fields, Calm(holds, fields)
    PROVE  calm' \in BOOLEAN /\ edited' \in SUBSET Fields
BY DEF Calm, TypeOK

LEMMA TroubleTypeOK == TypeOK /\ Trouble => troubles' \in Nat
BY DEF TypeOK, Trouble

LEMMA FaultTypeOK ==
    ASSUME TypeOK, Fault
    PROVE  troubles' \in Nat /\ calm' \in BOOLEAN /\ edited' = {}
BY DEF TypeOK, Trouble, Fault, Calm

LEMMA SavingFacts ==
    ASSUME TypeOK, NEW p \in Panels
    PROVE  /\ saving[p] \in Saving /\ (isSaving[p] <=> saving[p].pc # "none")
           /\ saving[p].pc = "sent" => saving[p].config \in Config
           /\ saving[p].pc = "read" => /\ saving[p].config \in Config
                                       /\ saving[p].old \in Document
                                       /\ saving[p].old.config \in Config
                                       /\ saving[p].old.version \in Nat
BY DEF TypeOK, Saving, Document

\* One panel's save is replaced.
LEMMA SavingTypeOK ==
    ASSUME TypeOK, NEW p \in Panels, NEW s \in Saving,
           saving' = [saving EXCEPT ![p] = s],
           isSaving' = [isSaving EXCEPT ![p] = (s.pc # "none")]
    PROVE  /\ saving' \in [Panels -> Saving]
           /\ isSaving' = [q \in Panels |-> saving'[q].pc # "none"]
BY DEF TypeOK

LEMMA EndedTypeOK ==
    ASSUME TypeOK, NEW p \in Panels, Ended(p)
    PROVE  /\ saving' \in [Panels -> Saving]
           /\ isSaving' = [q \in Panels |-> saving'[q].pc # "none"]
<1>1. NoSave \in Saving /\ NoSave.pc = "none" BY DEF Saving, NoSave
<1> QED BY <1>1 DEF Ended, TypeOK

LEMMA FetchingTypeOK ==
    ASSUME TypeOK, NEW p \in Panels, Fetching(p)
    PROVE  fetches' \in [Panels -> SUBSET Fetches]
<1>1. [n |-> saves, config |-> None] \in Fetches BY DEF TypeOK, Fetches
<1> QED BY <1>1 DEF Fetching, TypeOK

-------------------------------------------------------------------------------
\* The steps of a panel's fetches.
LEMMA PanelTypeOK ==
    ASSUME TypeOK, NEW p \in Panels, Panel(p)
    PROVE  TypeOK' /\ UNCHANGED <<doc, saving>>
<1>1. ASSUME NEW f \in fetches[p], ReadConfig(p, f) PROVE TypeOK' /\ UNCHANGED <<doc, saving>>
  <2> DEFINE g == [f EXCEPT !.config = doc.config]
  <2>1. f \in Fetches /\ doc.config \in Config BY <1>1 DEF TypeOK, Document
  <2>2. g \in Fetches BY <2>1 DEF Fetches
  <2>3. fetches' = [fetches EXCEPT ![p] = (fetches[p] \ {f}) \cup {g}] BY <1>1 DEF ReadConfig
  <2>4. fetches' \in [Panels -> SUBSET Fetches] BY <2>2, <2>3 DEF TypeOK
  <2>5. UNCHANGED <<doc, form, isLoading, isSaving, limit, saving, mounted, history, bounds>>
    BY <1>1 DEF ReadConfig
  <2> QED BY <2>4, <2>5 DEF TypeOK, history, bounds
<1>2. ASSUME NEW f \in fetches[p], ConfigArrives(p, f) PROVE TypeOK' /\ UNCHANGED <<doc, saving>>
  <2>1. f.config \in Config BY <1>2 DEF TypeOK, Fetches, ConfigArrives
  <2>2. form' \in [Panels -> Config] BY <1>2, <2>1 DEF TypeOK, ConfigArrives, Shown
  <2>3. fetches' \in [Panels -> SUBSET Fetches] BY <1>2 DEF TypeOK, ConfigArrives
  <2>4. UNCHANGED <<doc, isLoading, isSaving, limit, saving, mounted, bounds>> /\ Calm(TRUE, {})
    BY <1>2 DEF ConfigArrives
  <2>5. calm' \in BOOLEAN /\ edited' = {} BY <2>4 DEF Calm, TypeOK
  <2> QED BY <2>2, <2>3, <2>4, <2>5 DEF TypeOK, bounds
<1>3. ASSUME NEW f \in fetches[p], ConfigFails(p, f) PROVE TypeOK' /\ UNCHANGED <<doc, saving>>
  <2>1. fetches' \in [Panels -> SUBSET Fetches] BY <1>3 DEF TypeOK, ConfigFails
  <2>2. Fault /\ UNCHANGED <<doc, form, isLoading, isSaving, limit, saving, mounted, edits, saves>>
    BY <1>3 DEF ConfigFails
  <2>3. troubles' \in Nat /\ calm' \in BOOLEAN /\ edited' = {}
    BY <2>2, FaultTypeOK
  <2> QED BY <2>1, <2>2, <2>3 DEF TypeOK
<1>4. CASE SubscriptionArrives(p)
  <2>1. doc.limit \in Limits BY DEF TypeOK, Document
  <2>2. limit' \in [Panels -> Limits \cup {None}] /\ isLoading' \in [Panels -> BOOLEAN]
    BY <1>4, <2>1 DEF TypeOK, SubscriptionArrives
  <2>3. UNCHANGED <<doc, form, isSaving, fetches, saving, mounted, history, bounds>>
    BY <1>4 DEF SubscriptionArrives
  <2> QED BY <2>2, <2>3 DEF TypeOK, history, bounds
<1>5. CASE SubscriptionFails(p)
  <2>1. isLoading' \in [Panels -> BOOLEAN] BY <1>5 DEF TypeOK, SubscriptionFails
  <2>2. Fault /\ UNCHANGED <<doc, form, isSaving, limit, fetches, saving, mounted, edits, saves>>
    BY <1>5 DEF SubscriptionFails
  <2>3. troubles' \in Nat /\ calm' \in BOOLEAN /\ edited' = {}
    BY <2>2, FaultTypeOK
  <2> QED BY <2>1, <2>2, <2>3 DEF TypeOK
<1> QED BY <1>1, <1>2, <1>3, <1>4, <1>5 DEF Panel

\* The user's edits.
LEMMA EditTypeOK ==
    ASSUME TypeOK, NEW p \in Panels, NEW field \in Fields, NEW config \in Config,
           Edit(p, field, config)
    PROVE  TypeOK' /\ UNCHANGED <<doc, saving>>
<1>1. form' \in [Panels -> Config] BY DEF Edit, TypeOK
<1>2. edits' \in Nat BY DEF Edit, TypeOK
<1>3. edited' \in SUBSET Fields /\ calm' \in BOOLEAN
  BY DEF Edit, Calm, TypeOK
<1>4. UNCHANGED <<doc, isLoading, isSaving, limit, fetches, saving, mounted, saves, troubles>>
  BY DEF Edit
<1> QED BY <1>1, <1>2, <1>3, <1>4 DEF TypeOK

LEMMA RemoveAtIsSeq ==
    ASSUME NEW s \in Seq(Rules), NEW i \in 1..Len(s)
    PROVE  RemoveAt(s, i) \in Seq(Rules)
<1>1. SubSeq(s, 1, i - 1) \in Seq(Rules) BY DEF RemoveAt
<1>2. SubSeq(s, i + 1, Len(s)) \in Seq(Rules) BY DEF RemoveAt
<1> QED BY <1>1, <1>2 DEF RemoveAt

LEMMA UserTypeOK ==
    ASSUME TypeOK, NEW p \in Panels, User(p)
    PROVE  /\ TypeOK' /\ UNCHANGED doc
           /\ \A q \in Panels : saving'[q].pc = "read" => saving'[q] = saving[q]
<1>0. form[p] \in Config BY DEF TypeOK
<1>1. ASSUME NEW field \in Fields, NEW config \in Config, Edit(p, field, config)
      PROVE  /\ TypeOK' /\ UNCHANGED doc
             /\ \A q \in Panels : saving'[q].pc = "read" => saving'[q] = saving[q]
  BY <1>1, EditTypeOK
<1>2. CASE handleSaveConfig(p)
  <2> DEFINE s == [NoSave EXCEPT !.pc = "sent", !.config = form[p]]
  <2>1. s \in Saving /\ s.pc = "sent" BY <1>0 DEF Saving, NoSave
  <2> HIDE DEF s
  <2>2. /\ saving' = [saving EXCEPT ![p] = s] /\ isSaving' = [isSaving EXCEPT ![p] = TRUE]
        /\ Calm(fetches[p] = {}, edited) /\ saves > 0 /\ saves' = saves - 1
        /\ UNCHANGED <<doc, form, isLoading, limit, fetches, mounted, edits, troubles>>
    BY <1>2 DEF handleSaveConfig, s
  <2>3. /\ saving' \in [Panels -> Saving]
        /\ isSaving' = [q \in Panels |-> saving'[q].pc # "none"]
    BY <2>1, <2>2 DEF TypeOK
  <2>4. saves' \in Nat BY <2>2 DEF TypeOK
  <2>5. calm' \in BOOLEAN /\ edited' \in SUBSET Fields
    BY <2>2 DEF Calm, TypeOK
  <2>6. \A q \in Panels : saving'[q].pc = "read" => saving'[q] = saving[q]
    BY <2>1, <2>2 DEF TypeOK
  <2>7. TypeOK' BY <2>2, <2>3, <2>4, <2>5 DEF TypeOK
  <2> QED BY <2>2, <2>5, <2>6, <2>7
<1>3. ASSUME NEW level \in Levels, setLevel(p, level)
      PROVE  \E field \in Fields, config \in Config : Edit(p, field, config)
  <2>1. level \in Int BY ConfigAssumption
  <2>2. [form[p] EXCEPT !.level = level] \in Config BY <1>0, <2>1 DEF Config
  <2>3. "level" \in Fields BY DEF Fields
  <2> QED BY <1>3, <2>2, <2>3 DEF setLevel
<1>4. ASSUME NEW rule \in Rules, handleAddCustomRule(p, rule)
      PROVE  \E field \in Fields, config \in Config : Edit(p, field, config)
  <2>1. form[p].rules \in Seq(Rules) BY <1>0 DEF Config
  <2>2. Append(form[p].rules, rule) \in Seq(Rules) BY <2>1
  <2>3. [form[p] EXCEPT !.rules = Append(form[p].rules, rule)] \in Config
    BY <1>0, <2>2 DEF Config
  <2>4. "rules" \in Fields BY DEF Fields
  <2> QED BY <1>4, <2>3, <2>4 DEF handleAddCustomRule
<1>5. ASSUME NEW i \in 1..MaxRules, handleRemoveCustomRule(p, i)
      PROVE  \E field \in Fields, config \in Config : Edit(p, field, config)
  <2>1. form[p].rules \in Seq(Rules) BY <1>0 DEF Config
  <2>2. i \in 1..Len(form[p].rules) BY <1>5, <2>1 DEF handleRemoveCustomRule
  <2>3. RemoveAt(form[p].rules, i) \in Seq(Rules) BY <2>1, <2>2, RemoveAtIsSeq
  <2>4. [form[p] EXCEPT !.rules = RemoveAt(form[p].rules, i)] \in Config
    BY <1>0, <2>3 DEF Config
  <2>5. "rules" \in Fields BY DEF Fields
  <2> QED BY <1>5, <2>4, <2>5 DEF handleRemoveCustomRule
<1> QED BY <1>1, <1>2, <1>3, <1>4, <1>5 DEF User

-------------------------------------------------------------------------------
\* The steps of a save.
LEMMA FindTenantFacts ==
    ASSUME TypeOK, NEW p \in Panels, FindTenant(p)
    PROVE  /\ TypeOK' /\ UNCHANGED doc
           /\ Len(saving[p].config.rules) <= doc.limit
           /\ saving'[p].config = saving[p].config
           /\ saving'[p].pc = "read" /\ saving'[p].old = doc /\ saving'[p].overtaken = {}
           /\ \A q \in Panels \ {p} : saving'[q] = saving[q]
<1> DEFINE s == [saving[p] EXCEPT !.pc = "read", !.old = doc]
<1>1. saving[p].pc = "sent" /\ Allowed(p) BY DEF FindTenant
<1>2. saving[p] \in [pc : {"sent"}, config : Config, old : {None}, overtaken : {{}}]
  BY <1>1 DEF TypeOK, Saving
<1>3. doc \in Document BY DEF TypeOK
<1>4. /\ s \in [pc : {"read"}, config : Config, old : Document,
                overtaken : SUBSET {"config", "limit", "version"}]
      /\ s.pc = "read" /\ s.config = saving[p].config
      /\ s.old = doc /\ s.overtaken = {}
  BY <1>2, <1>3
<1>5. s \in Saving BY <1>4 DEF Saving
<1>6. saving' = [saving EXCEPT ![p] = s] BY DEF FindTenant, TypeOK
<1>7. UNCHANGED <<doc, form, isLoading, isSaving, limit, fetches, mounted, history, bounds>>
  BY DEF FindTenant
<1>8. saving'[p] = s /\ \A q \in Panels \ {p} : saving'[q] = saving[q]
  BY <1>6 DEF TypeOK
<1> HIDE DEF s
<1>9. saving' \in [Panels -> Saving] BY <1>5, <1>6 DEF TypeOK
<1>10. isSaving' = [q \in Panels |-> saving'[q].pc # "none"]
  BY <1>1, <1>4, <1>7, <1>8 DEF TypeOK
<1>11. TypeOK' BY <1>7, <1>9, <1>10 DEF TypeOK, history, bounds
<1> QED BY <1>1, <1>4, <1>7, <1>8, <1>11 DEF Allowed, history

\* A save that ends leaves the document, and holds nothing.
LEMMA EndFacts ==
    ASSUME TypeOK, NEW p \in Panels,
           Conflict(p) \/ VersionError(p) \/ SaveReturns(p) \/ SaveFails(p)
    PROVE  /\ TypeOK' /\ UNCHANGED doc
           /\ \A q \in Panels : saving'[q].pc = "read" => saving'[q] = saving[q]
<1>1. Ended(p) BY DEF Conflict, VersionError, SaveReturns, SaveFails
<1>2. /\ saving' \in [Panels -> Saving]
      /\ isSaving' = [q \in Panels |-> saving'[q].pc # "none"]
  BY <1>1, EndedTypeOK
<1>3. \A q \in Panels : saving'[q].pc = "read" => saving'[q] = saving[q]
  BY <1>1 DEF Ended, NoSave, TypeOK
<1>4. CASE Conflict(p) \/ VersionError(p)
  <2>1. UNCHANGED <<doc, form, isLoading, limit, fetches, mounted, history, bounds>>
    BY <1>4 DEF Conflict, VersionError
  <2> QED BY <1>2, <1>3, <2>1 DEF TypeOK, history, bounds
<1>5. CASE SaveReturns(p)
  <2>1. /\ Fetching(p) /\ Calm(fetches[p] = {}, edited)
        /\ UNCHANGED <<doc, form, isLoading, limit, mounted, bounds>>
    BY <1>5 DEF SaveReturns
  <2>2. fetches' \in [Panels -> SUBSET Fetches] BY <2>1, FetchingTypeOK
  <2>3. calm' \in BOOLEAN /\ edited' \in SUBSET Fields
    BY <2>1 DEF Calm, TypeOK
  <2> QED BY <1>2, <1>3, <2>1, <2>2, <2>3 DEF TypeOK, bounds
<1>6. CASE SaveFails(p)
  <2>1. Fault /\ UNCHANGED <<doc, form, isLoading, limit, fetches, mounted, edits, saves>>
    BY <1>6 DEF SaveFails
  <2>2. troubles' \in Nat /\ calm' \in BOOLEAN /\ edited' = {}
    BY <2>1, FaultTypeOK
  <2> QED BY <1>2, <1>3, <2>1, <2>2 DEF TypeOK
<1> QED BY <1>4, <1>5, <1>6

\* A save writes the rules it carries if it read others, over the version it read.
LEMMA SaveFacts ==
    ASSUME TypeOK, NEW p \in Panels, Save(p)
    PROVE  /\ TypeOK' /\ doc'.limit = doc.limit
           /\ saving[p].pc = "read"
           /\ \/ /\ doc'.config.rules = saving[p].config.rules
                 /\ doc.version = saving[p].old.version /\ doc'.version = doc.version + 1
              \/ doc'.config.rules = doc.config.rules /\ doc'.version = doc.version
           /\ \A q \in Panels : saving'[q].pc = "read" => saving'[q] = saving[q]
<1> DEFINE s == [NoSave EXCEPT !.pc = "saved"]
           v == IF SetsRules(p) THEN doc.version + 1 ELSE doc.version
<1>1. saving[p].pc = "read" /\ Current(p) BY DEF Save
<1>2. saving[p].config \in Config /\ saving[p].old.config \in Config BY <1>1, SavingFacts
<1>3. doc.config \in Config /\ doc.version \in Nat /\ doc.limit \in Limits
  BY DEF TypeOK, Document
<1>4. Merged(p) \in Config /\ Merged(p).rules = IF SetsRules(p) THEN saving[p].config.rules
                                                               ELSE doc.config.rules
  <2>1. /\ saving[p].config.level \in Int /\ saving[p].config.rules \in Seq(Rules)
        /\ doc.config.level \in Int /\ doc.config.rules \in Seq(Rules)
    BY <1>2, <1>3 DEF Config
  <2>2. Clamp(saving[p].config.level) \in Int BY <2>1 DEF Clamp
  <2>3. PICK level \in Int : level = IF Clamp(saving[p].config.level) # saving[p].old.config.level
                                     THEN Clamp(saving[p].config.level) ELSE doc.config.level
    BY <2>1, <2>2
  <2>4. PICK rules \in Seq(Rules) : rules = IF SetsRules(p) THEN saving[p].config.rules
                                                            ELSE doc.config.rules
    BY <2>1
  <2>5. Merged(p) = [level |-> level, rules |-> rules]
    BY <2>3, <2>4 DEF Merged, SetsRules
  <2> QED BY <2>4, <2>5 DEF Config
<1>5. PICK merged \in Config : merged = Merged(p) BY <1>4
<1>6. v \in Nat BY <1>3
<1>7. doc' = [doc EXCEPT !.config = merged, !.version = v] BY <1>5 DEF Save
<1> HIDE DEF v
<1>8. /\ doc' \in Document /\ doc'.config = merged /\ doc'.version = v
      /\ doc'.limit = doc.limit
  BY <1>3, <1>6, <1>7 DEF TypeOK, Document
<1>9. s \in Saving /\ s.pc = "saved" BY DEF Saving, NoSave
<1> HIDE DEF s
<1>10. saving' = [saving EXCEPT ![p] = s] BY DEF Save, s
<1>11. UNCHANGED <<form, isLoading, isSaving, limit, fetches, mounted, history, bounds>>
  BY DEF Save
<1>12. saving'[p] = s /\ \A q \in Panels \ {p} : saving'[q] = saving[q]
  BY <1>10 DEF TypeOK
<1>13. saving' \in [Panels -> Saving] BY <1>9, <1>10 DEF TypeOK
<1>14. isSaving' = [q \in Panels |-> saving'[q].pc # "none"]
  BY <1>1, <1>9, <1>11, <1>12 DEF TypeOK
<1>15. TypeOK' BY <1>8, <1>11, <1>13, <1>14 DEF TypeOK, history, bounds
<1>16. \A q \in Panels : saving'[q].pc = "read" => saving'[q] = saving[q]
  BY <1>9, <1>12
<1>17. SetsRules(p) => doc.version = saving[p].old.version BY <1>1 DEF Current
<1> QED BY <1>1, <1>4, <1>5, <1>8, <1>11, <1>15, <1>16, <1>17 DEF v, history

-------------------------------------------------------------------------------
\* What updateTenant leaves: the saves on their way, each with what changed under it.
LEMMA UpdateFacts ==
    ASSUME TypeOK, NEW sent \in Sent, updateTenant(sent)
    PROVE  /\ TypeOK' /\ doc' = sent /\ doc \in Document
           /\ \A q \in Panels : saving'[q].pc = "read" =>
                /\ saving[q].pc = "read"
                /\ saving'[q].config = saving[q].config /\ saving'[q].old = saving[q].old
                /\ \A f \in {"config", "limit", "version"} :
                     f \notin saving'[q].overtaken => f \notin saving[q].overtaken /\ sent[f] = doc[f]
<1> DEFINE D == {f \in DOMAIN sent : sent[f] # doc[f]}
           S(q) == IF saving[q].pc # "read" THEN saving[q]
                   ELSE [saving[q] EXCEPT !.overtaken = @ \cup D]
<1>1. sent \in Document
  <2>1. /\ doc.config \in Config /\ doc.config.level \in Int /\ doc.config.rules \in Seq(Rules)
        /\ doc.version \in Nat
    BY DEF TypeOK, Document, Config
  <2>2. /\ SentLevels \cup {doc.config.level} \subseteq Int
        /\ SentRules \cup {doc.config.rules} \subseteq Seq(Rules)
        /\ SentVersions \cup {doc.version} \subseteq Nat
    BY <2>1, ConfigAssumption
  <2>3. sent.config \in Config BY <2>2 DEF Sent, Config
  <2> QED BY <2>2, <2>3 DEF Sent, Document
<1>2. doc' = sent /\ doc \in Document BY DEF updateTenant, TypeOK
<1>3. /\ D \subseteq {"config", "limit", "version"}
      /\ \A f \in {"config", "limit", "version"} : f \notin D => sent[f] = doc[f]
  BY <1>1 DEF Document
<1>4. saving' = [q \in Panels |-> S(q)] BY DEF updateTenant
<1> HIDE DEF D
<1>5. ASSUME NEW q \in Panels
      PROVE  /\ S(q) \in Saving /\ S(q).pc = saving[q].pc
             /\ S(q).pc = "read" => /\ S(q).config = saving[q].config /\ S(q).old = saving[q].old
                                    /\ S(q).overtaken = saving[q].overtaken \cup D
  <2>1. CASE saving[q].pc # "read" BY <2>1 DEF TypeOK
  <2>2. CASE saving[q].pc = "read"
    <3>1. saving[q] \in [pc : {"read"}, config : Config, old : Document,
                         overtaken : SUBSET {"config", "limit", "version"}]
      BY <2>2 DEF TypeOK, Saving
    <3>2. S(q) \in [pc : {"read"}, config : Config, old : Document,
                    overtaken : SUBSET {"config", "limit", "version"}]
      BY <1>3, <2>2, <3>1
    <3> QED BY <2>2, <3>1, <3>2 DEF Saving
  <2> QED BY <2>1, <2>2
<1> HIDE DEF S
<1>6. \A q \in Panels : saving'[q] = S(q) BY <1>4
<1>7. /\ Trouble /\ Calm(sent.config = doc.config, edited)
      /\ UNCHANGED <<form, isLoading, isSaving, limit, fetches, mounted, edits, saves>>
  BY DEF updateTenant
<1>8. calm' \in BOOLEAN /\ edited' \in SUBSET Fields BY <1>7 DEF Calm, TypeOK
<1>9. saving' \in [Panels -> Saving] BY <1>4, <1>5
<1>10. isSaving' = [q \in Panels |-> saving'[q].pc # "none"]
  BY <1>5, <1>6, <1>7 DEF TypeOK
<1>11. troubles' \in Nat BY <1>7, TroubleTypeOK
<1>12. TypeOK' BY <1>1, <1>2, <1>7, <1>8, <1>9, <1>10, <1>11 DEF TypeOK
<1> QED BY <1>2, <1>3, <1>5, <1>6, <1>12

-------------------------------------------------------------------------------
\* What one step may do to the document and the saves.
LEMMA StepKinds ==
    ASSUME TypeOK, [Next]_vars
    PROVE  /\ TypeOK'
           /\ \/ /\ UNCHANGED doc
                 /\ \A q \in Panels : saving'[q].pc = "read" => saving'[q] = saving[q]
              \/ \E p \in Panels : FindTenant(p) \/ Save(p)
              \/ \E sent \in Sent : updateTenant(sent)
<1>1. CASE UNCHANGED vars
  BY <1>1 DEF vars, panels, history, bounds, TypeOK
<1>2. ASSUME NEW p \in Panels, Panel(p)
      PROVE  TypeOK' /\ UNCHANGED <<doc, saving>>
  BY <1>2, PanelTypeOK
<1>3. ASSUME NEW p \in Panels, User(p)
      PROVE  /\ TypeOK' /\ UNCHANGED doc
             /\ \A q \in Panels : saving'[q].pc = "read" => saving'[q] = saving[q]
  BY <1>3, UserTypeOK
<1>4. ASSUME NEW p \in Panels, Conflict(p) \/ VersionError(p) \/ SaveReturns(p) \/ SaveFails(p)
      PROVE  /\ TypeOK' /\ UNCHANGED doc
             /\ \A q \in Panels : saving'[q].pc = "read" => saving'[q] = saving[q]
  BY <1>4, EndFacts
<1>5. ASSUME NEW p \in Panels, FindTenant(p) PROVE TypeOK' BY <1>5, FindTenantFacts
<1>6. ASSUME NEW p \in Panels, Save(p) PROVE TypeOK' BY <1>6, SaveFacts
<1>7. ASSUME NEW sent \in Sent, updateTenant(sent) PROVE TypeOK'
  BY <1>7, UpdateFacts
<1>9. CASE Next
  <2>1. \/ \E p \in Panels : Panel(p) \/ SaveStep(p) \/ User(p)
        \/ \E sent \in Sent : updateTenant(sent)
    BY <1>9 DEF Next
  <2>2. ASSUME NEW p \in Panels, SaveStep(p)
        PROVE  \/ FindTenant(p) \/ Save(p)
               \/ Conflict(p) \/ VersionError(p) \/ SaveReturns(p) \/ SaveFails(p)
    BY <2>2 DEF SaveStep
  <2> QED BY <2>1, <2>2, <1>2, <1>3, <1>4, <1>5, <1>6, <1>7
<1> QED BY <1>1, <1>9

\* Documents, forms, fetches and saves keep their shape, and a panel's button is
\* disabled exactly while a save of its is on its way.
THEOREM ConfigTypeCorrect == Spec => []TypeOK
<1>1. TypeOK /\ [Next]_vars => TypeOK' BY StepKinds
<1> QED BY <1>1, InitTypeOK, PTL DEF Spec

LEMMA NextKeepsChecked == TypeOK /\ Checked /\ [Next]_vars => Checked'
<1> SUFFICES ASSUME TypeOK, Checked, [Next]_vars PROVE Checked' OBVIOUS
<1>1. ASSUME UNCHANGED doc,
             \A q \in Panels : saving'[q].pc = "read" => saving'[q] = saving[q]
      PROVE  Checked'
  BY <1>1 DEF Checked
<1>2. ASSUME NEW p \in Panels, FindTenant(p) PROVE Checked'
  BY <1>2, FindTenantFacts DEF Checked
<1>3. ASSUME NEW p \in Panels, Save(p) PROVE Checked'
  BY <1>3, SaveFacts DEF Checked
<1>4. ASSUME NEW sent \in Sent, updateTenant(sent) PROVE Checked'
  BY <1>4, UpdateFacts DEF Checked
<1> QED BY <1>1, <1>2, <1>3, <1>4, StepKinds

\* However saves of any panels and updates of the tenant interleave, a save stores no
\* more rules than the plan allows, or allowed when it was read if updateTenant has
\* changed it since.
THEOREM ConfigRulesWithinPlan == Spec => RulesWithinPlan
<1>1. Init => Checked BY DEF Init, NoSave, Checked
<1>2. TypeOK /\ Checked /\ [Next]_vars => TypeOK' /\ Checked'
  BY StepKinds, NextKeepsChecked
<1>3. TypeOK /\ Checked =>
        \A p \in Panels :
           Save(p) /\ doc'.config.rules # doc.config.rules
              => Len(doc'.config.rules) <= IF "limit" \in saving[p].overtaken
                                           THEN saving[p].old.limit ELSE doc'.limit
  BY SaveFacts DEF Checked
<1> QED BY <1>1, <1>2, <1>3, InitTypeOK, PTL DEF Spec, RulesWithinPlan

LEMMA NextKeepsVersioned == TypeOK /\ Versioned /\ [Next]_vars => Versioned'
<1> SUFFICES ASSUME TypeOK, Versioned, [Next]_vars PROVE Versioned' OBVIOUS
<1>1. doc.version \in Nat BY DEF TypeOK, Document
<1>2. ASSUME UNCHANGED doc,
             \A q \in Panels : saving'[q].pc = "read" => saving'[q] = saving[q]
      PROVE  Versioned'
  BY <1>2 DEF Versioned
<1>3. ASSUME NEW p \in Panels, FindTenant(p) PROVE Versioned'
  BY <1>1, <1>3, FindTenantFacts DEF Versioned
<1>4. ASSUME NEW p \in Panels, Save(p) PROVE Versioned'
  <2>1. \/ doc'.version = doc.version + 1
        \/ doc'.config.rules = doc.config.rules /\ doc'.version = doc.version
    BY <1>4, SaveFacts
  <2>2. \A q \in Panels : saving'[q].pc = "read" => saving'[q] = saving[q]
    BY <1>4, SaveFacts
  <2>3. \A q \in Panels : saving[q].pc = "read" => saving[q].old.version \in Nat
    BY SavingFacts
  <2> QED BY <1>1, <2>1, <2>2, <2>3 DEF Versioned
<1>5. ASSUME NEW sent \in Sent, updateTenant(sent) PROVE Versioned'
  <2> SUFFICES ASSUME NEW q \in Panels, saving'[q].pc = "read",
                      saving'[q].overtaken \cap {"config", "version"} = {}
               PROVE  /\ saving'[q].old.version <= doc'.version
                      /\ saving'[q].old.version = doc'.version
                           => saving'[q].old.config.rules = doc'.config.rules
    BY DEF Versioned
  <2>1. "config" \notin saving'[q].overtaken /\ "version" \notin saving'[q].overtaken
    OBVIOUS
  <2>2. /\ saving[q].pc = "read" /\ saving'[q].old = saving[q].old /\ doc' = sent
        /\ \A f \in {"config", "limit", "version"} :
             f \notin saving'[q].overtaken => f \notin saving[q].overtaken /\ sent[f] = doc[f]
    BY <1>5, UpdateFacts
  <2>3. /\ "config" \notin saving[q].overtaken /\ "version" \notin saving[q].overtaken
        /\ sent["config"] = doc["config"] /\ sent["version"] = doc["version"]
    BY <2>1, <2>2
  <2> QED BY <2>2, <2>3 DEF Versioned
<1> QED BY <1>2, <1>3, <1>4, <1>5, StepKinds

\* Of two saves that overlap and both set rules, the second is refused: no save
\* replaces rules that were not read for it, unless updateTenant stored them.
THEOREM ConfigNoRulesUnread == Spec => NoRulesUnread
<1>1. Init => Versioned BY DEF Init, NoSave, Versioned
<1>2. TypeOK /\ Versioned /\ [Next]_vars => TypeOK' /\ Versioned'
  BY StepKinds, NextKeepsVersioned
<1>3. TypeOK /\ Versioned =>
        \A p \in Panels :
           Save(p) /\ doc'.config.rules # doc.config.rules
              => \/ saving[p].overtaken \cap {"config", "version"} # {}
                 \/ doc.config.rules = saving[p].old.config.rules
  BY SaveFacts DEF Versioned
<1> QED BY <1>1, <1>2, <1>3, InitTypeOK, PTL DEF Spec, NoRulesUnread
-------------------------------------------------------------------------------
\* What a configuration c has in the fields that were not edited is stored.
Agrees(c) == \A field \in Fields \ edited : c[field] = doc.config[field]

\* What a panel has fetched is stored; and what it shows after that, and saves, is
\* stored, but for the fields edited.
CalmPanel(p) ==
    /\ p \notin mounted => saving[p].pc = "none" /\ fetches[p] = {}
    /\ saving[p].pc # "none" => fetches[p] = {}
    /\ \A f \in fetches[p] : f.config \in {None, doc.config}
    /\ p \in mounted /\ fetches[p] = {} => Agrees(form[p])
    /\ saving[p].pc \in {"sent", "read"} => Agrees(saving[p].config)
    /\ saving[p].pc = "read" => saving[p].old.config = doc.config
CalmInv == calm =>
    /\ \A p, q \in mounted : p = q
    /\ doc.config.level \in 1..4
    /\ \A p \in Panels : CalmPanel(p)

LEMMA InitCalm == Init => CalmInv
<1> SUFFICES ASSUME Init, calm PROVE CalmInv
  BY DEF CalmInv
<1>1. PICK config \in Stored, l \in Limits : doc = [config |-> config, limit |-> l, version |-> 0]
  BY DEF Init
<1>2. config \in [level : Levels, rules : Seq(Rules)]
  BY ConfigAssumption
<1>3. doc.config.level \in 1..4
  BY <1>1, <1>2, ConfigAssumption
<1>4. ASSUME NEW p \in Panels PROVE CalmPanel(p)
  <2>1. saving[p].pc = "none"
    BY DEF Init, NoSave
  <2>2. CASE p \in mounted
    <3>1. fetches[p] = {[n |-> MaxSaves, config |-> None]}
      BY <2>2 DEF Init
    <3>2. fetches[p] # {} /\ \A f \in fetches[p] : f.config = None
      BY <3>1
    <3> QED  BY <2>1, <2>2, <3>2 DEF CalmPanel
  <2>3. CASE p \notin mounted
    <3>1. fetches[p] = {}
      BY <2>3 DEF Init
    <3> QED  BY <2>1, <2>3, <3>1 DEF CalmPanel
  <2> QED  BY <2>2, <2>3
<1> QED  BY <1>3, <1>4 DEF Init, CalmInv

\* A step of the one panel there.
LEMMA CalmStep ==
    ASSUME CalmInv, calm, NEW p \in mounted, p \in Panels, mounted' = mounted,
           \A q \in Panels \ {p} : saving'[q] = saving[q] /\ fetches'[q] = fetches[q],
           doc'.config.level \in 1..4, CalmPanel(p)'
    PROVE  CalmInv'
<1>1. ASSUME NEW q \in Panels \ {p} PROVE CalmPanel(q)'
  <2>1. q \notin mounted /\ CalmPanel(q)
    BY DEF CalmInv
  <2> QED  BY <2>1 DEF CalmPanel
<1> QED  BY <1>1 DEF CalmInv

LEMMA CalmUnchanged ==
    ASSUME CalmInv, UNCHANGED <<doc.config, form, saving, fetches, mounted, calm, edited>>
    PROVE  CalmInv'
BY DEF CalmInv, CalmPanel, Agrees

\* A step that is not calm ends the calm, and none begins it.
LEMMA CalmFacts == \A holds, fields : Calm(holds, fields) /\ calm' => calm /\ holds /\ edited' = fields
BY DEF Calm
LEMMA FaultEndsCalm == Fault => ~calm'
BY DEF Fault, Calm

\* The panel's fetches arrive.
LEMMA PanelKeepsCalm ==
    ASSUME TypeOK, CalmInv, NEW p \in Panels, Panel(p)
    PROVE  CalmInv'
<1>1. ASSUME NEW f \in fetches[p], ReadConfig(p, f), calm' PROVE CalmInv'
  <2> DEFINE g == [f EXCEPT !.config = doc.config]
  <2>1. /\ fetches' = [fetches EXCEPT ![p] = (fetches[p] \ {f}) \cup {g}]
        /\ UNCHANGED <<doc, form, saving, mounted, calm, edited>>
    BY <1>1 DEF ReadConfig, history
  <2>2. calm /\ p \in mounted /\ CalmPanel(p) /\ doc.config.level \in 1..4
    BY <1>1, <2>1 DEF CalmInv, CalmPanel
  <2>3. g.config = doc.config
    BY DEF TypeOK, Fetches
  <2>4. /\ fetches'[p] = (fetches[p] \ {f}) \cup {g}
        /\ \A q \in Panels \ {p} : fetches'[q] = fetches[q]
    BY <2>1 DEF TypeOK
  <2>5. CalmPanel(p)'
    BY <2>1, <2>2, <2>3, <2>4 DEF CalmPanel
  <2> QED  BY <2>1, <2>2, <2>4, <2>5, CalmStep
<1>2. ASSUME NEW f \in fetches[p], ConfigArrives(p, f), calm' PROVE CalmInv'
  <2>1. /\ fetches' = [fetches EXCEPT ![p] = fetches[p] \ {f}]
        /\ form' = [form EXCEPT ![p] = f.config] /\ f.config # None
        /\ Calm(TRUE, {}) /\ UNCHANGED <<doc, saving, mounted>>
    BY <1>2 DEF ConfigArrives, Shown
  <2>2. calm /\ edited' = {}
    BY <1>2, <2>1, CalmFacts
  <2>3. p \in mounted /\ CalmPanel(p) /\ doc.config.level \in 1..4
    BY <1>2, <2>2 DEF CalmInv, CalmPanel
  <2>4. f.config = doc.config /\ saving[p].pc = "none"
    BY <2>1, <2>3 DEF CalmPanel
  <2>5. /\ fetches'[p] = fetches[p] \ {f} /\ form'[p] = doc.config
        /\ \A q \in Panels \ {p} : fetches'[q] = fetches[q]
    BY <2>1, <2>4 DEF TypeOK
  <2>6. Agrees(form[p])'
    BY <2>1, <2>5 DEF Agrees
  <2>7. CalmPanel(p)'
    BY <2>1, <2>3, <2>4, <2>5, <2>6 DEF CalmPanel
  <2> QED  BY <2>1, <2>2, <2>3, <2>5, <2>7, CalmStep
<1>3. ASSUME NEW f \in fetches[p], ConfigFails(p, f) PROVE ~calm'
  BY <1>3, FaultEndsCalm DEF ConfigFails
<1>4. CASE SubscriptionArrives(p)
  BY <1>4, CalmUnchanged DEF SubscriptionArrives, history
<1>5. CASE SubscriptionFails(p)
  BY <1>5, FaultEndsCalm DEF SubscriptionFails, CalmInv
<1>6. ~calm' => CalmInv'
  BY DEF CalmInv
<1> QED  BY <1>1, <1>2, <1>3, <1>4, <1>5, <1>6 DEF Panel

\* The user edits a field, or saves.
LEMMA UserKeepsCalm ==
    ASSUME TypeOK, CalmInv, NEW p \in Panels, User(p)
    PROVE  CalmInv'
<1>0. ~calm' => CalmInv'
  BY DEF CalmInv
<1>1. ASSUME NEW field \in Fields, NEW config, Edit(p, field, config), calm',
             \A other \in Fields \ {field} : config[other] = form[p][other]
      PROVE  CalmInv'
  <2>1. /\ p \in mounted /\ form' = [form EXCEPT ![p] = config]
        /\ Calm(fetches[p] = {} /\ ~isSaving[p], edited \cup {field})
        /\ UNCHANGED <<doc, fetches, saving, mounted>>
    BY <1>1 DEF Edit
  <2>2. calm /\ fetches[p] = {} /\ ~isSaving[p] /\ edited' = edited \cup {field}
    BY <1>1, <2>1, CalmFacts
  <2>3. saving[p].pc = "none" /\ CalmPanel(p) /\ doc.config.level \in 1..4
    BY <2>2, SavingFacts DEF CalmInv
  <2>4. form'[p] = config /\ Agrees(form[p])
    BY <2>1, <2>2, <2>3 DEF CalmPanel, TypeOK
  <2>5. Agrees(form[p])'
    BY <1>1, <2>1, <2>2, <2>4 DEF Agrees
  <2>6. CalmPanel(p)'
    BY <2>1, <2>2, <2>3, <2>5 DEF CalmPanel
  <2> QED  BY <2>1, <2>2, <2>3, <2>6, CalmStep
<1>2. ASSUME handleSaveConfig(p), calm' PROVE CalmInv'
  <2> DEFINE s == [NoSave EXCEPT !.pc = "sent", !.config = form[p]]
  <2>1. /\ p \in mounted /\ saving' = [saving EXCEPT ![p] = s] /\ Calm(fetches[p] = {}, edited)
        /\ UNCHANGED <<doc, form, fetches, mounted>>
    BY <1>2 DEF handleSaveConfig
  <2>2. calm /\ fetches[p] = {} /\ edited' = edited
    BY <1>2, <2>1, CalmFacts
  <2>3. CalmPanel(p) /\ doc.config.level \in 1..4 /\ Agrees(form[p])
    BY <2>1, <2>2 DEF CalmInv, CalmPanel
  <2>4. s.pc = "sent" /\ s.config = form[p]
    BY DEF NoSave
  <2> HIDE DEF s
  <2>5. saving'[p] = s /\ \A q \in Panels \ {p} : saving'[q] = saving[q]
    BY <2>1 DEF TypeOK
  <2>6. CalmPanel(p)'
    BY <2>1, <2>2, <2>3, <2>4, <2>5 DEF CalmPanel, Agrees
  <2> QED  BY <2>1, <2>2, <2>3, <2>5, <2>6, CalmStep
<1>3. form[p] \in Config /\ Fields = {"level", "rules"}
  BY DEF TypeOK, Fields
<1>4. ASSUME NEW level, setLevel(p, level), calm' PROVE CalmInv'
  BY <1>1, <1>3, <1>4 DEF setLevel, Config
<1>5. ASSUME NEW rule, handleAddCustomRule(p, rule), calm' PROVE CalmInv'
  BY <1>1, <1>3, <1>5 DEF handleAddCustomRule, Config
<1>6. ASSUME NEW i, handleRemoveCustomRule(p, i), calm' PROVE CalmInv'
  BY <1>1, <1>3, <1>6 DEF handleRemoveCustomRule, Config
<1> QED  BY <1>0, <1>2, <1>4, <1>5, <1>6 DEF User

\* A calm save writes the fields edited, and no other.
LEMMA SaveWrites ==
    ASSUME TypeOK, CalmInv, calm, NEW p \in Panels, Save(p)
    PROVE  /\ \A field \in Fields \ edited : doc'.config[field] = doc.config[field]
           /\ doc'.config.level \in 1..4
<1>1. /\ saving[p].pc = "read" /\ doc' = [doc EXCEPT !.config = Merged(p),
                                   !.version = IF SetsRules(p) THEN @ + 1 ELSE @]
  BY DEF Save
<1>2. doc'.config = Merged(p)
  BY <1>1 DEF TypeOK, Document
<1>3. saving[p].old.config = doc.config /\ Agrees(saving[p].config) /\ doc.config.level \in 1..4
  BY <1>1 DEF CalmInv, CalmPanel
<1>4. saving[p].config.level \in Int
  BY <1>1, SavingFacts DEF Config
<1>5. /\ Clamp(saving[p].config.level) \in 1..4
      /\ saving[p].config.level = doc.config.level
           => Clamp(saving[p].config.level) = doc.config.level
  BY <1>3, <1>4 DEF Clamp
<1>6. Merged(p).level \in 1..4
  BY <1>3, <1>5 DEF Merged
<1>7. "level" \notin edited => Merged(p).level = doc.config.level
  BY <1>3, <1>5 DEF Merged, Agrees, Fields
<1>8. "rules" \notin edited => Merged(p).rules = doc.config.rules
  BY <1>3 DEF Merged, SetsRules, Agrees, Fields
<1> QED  BY <1>2, <1>6, <1>7, <1>8 DEF Fields

\* The save on its way.
LEMMA SaveKeepsCalm ==
    ASSUME TypeOK, CalmInv, NEW p \in Panels, SaveStep(p)
    PROVE  CalmInv'
<1> SUFFICES ASSUME calm' PROVE CalmInv'
  BY DEF CalmInv
<1>1. calm
  BY CalmFacts, FaultEndsCalm DEF SaveStep, FindTenant, Conflict, Save, VersionError,
     SaveReturns, SaveFails, history
<1>2. saving[p].pc # "none" /\ ~SaveFails(p)
  BY FaultEndsCalm DEF SaveStep, FindTenant, Conflict, Save, VersionError, SaveReturns, SaveFails
<1>3. /\ p \in mounted /\ fetches[p] = {} /\ Agrees(form[p]) /\ CalmPanel(p)
      /\ doc.config.level \in 1..4
  BY <1>1, <1>2 DEF CalmInv, CalmPanel
<1>4. ASSUME FindTenant(p) PROVE CalmInv'
  <2>1. /\ saving'[p].config = saving[p].config /\ saving'[p].old = doc
        /\ \A q \in Panels \ {p} : saving'[q] = saving[q]
    BY <1>4, FindTenantFacts
  <2>2. saving[p].pc = "sent" /\ UNCHANGED <<doc, form, fetches, mounted, calm, edited>>
    BY <1>4 DEF FindTenant, history
  <2>3. CalmPanel(p)'
    BY <1>3, <2>1, <2>2 DEF CalmPanel, Agrees
  <2> QED  BY <1>1, <1>3, <2>1, <2>2, <2>3, CalmStep
<1>5. ASSUME Ended(p), UNCHANGED <<doc, form, mounted, edited>>, fetches' = fetches \/ Fetching(p)
      PROVE  CalmInv'
  <2>1. saving'[p].pc = "none" /\ \A q \in Panels \ {p} : saving'[q] = saving[q]
    BY <1>5 DEF Ended, NoSave, TypeOK
  <2>2. \A q \in Panels \ {p} : fetches'[q] = fetches[q]
    BY <1>5 DEF Fetching, TypeOK
  <2>3. \A f \in fetches'[p] : f.config = None
    BY <1>3, <1>5 DEF Fetching, TypeOK
  <2>4. CalmPanel(p)'
    BY <1>3, <1>5, <2>1, <2>3 DEF CalmPanel, Agrees
  <2> QED  BY <1>1, <1>3, <1>5, <2>1, <2>2, <2>4, CalmStep
<1>6. CASE Conflict(p) \/ VersionError(p)
  BY <1>5, <1>6 DEF Conflict, VersionError, history
<1>7. ASSUME SaveReturns(p) PROVE CalmInv'
  <2>1. Ended(p) /\ Fetching(p) /\ Calm(fetches[p] = {}, edited) /\ UNCHANGED <<doc, form, mounted>>
    BY <1>7 DEF SaveReturns
  <2>2. edited' = edited
    BY <2>1, CalmFacts
  <2> QED  BY <1>5, <2>1, <2>2
<1>8. ASSUME Save(p) PROVE CalmInv'
  <2>1. /\ saving' = [saving EXCEPT ![p] = [NoSave EXCEPT !.pc = "saved"]]
        /\ UNCHANGED <<form, fetches, mounted, calm, edited>>
    BY <1>8 DEF Save, history
  <2>2. saving'[p].pc = "saved" /\ \A q \in Panels \ {p} : saving'[q] = saving[q]
    BY <2>1 DEF NoSave, TypeOK
  <2>3. /\ \A field \in Fields \ edited : doc'.config[field] = doc.config[field]
        /\ doc'.config.level \in 1..4
    BY <1>1, <1>8, SaveWrites
  <2>4. Agrees(form[p])'
    BY <1>3, <2>1, <2>3 DEF Agrees
  <2>5. CalmPanel(p)'
    BY <1>3, <2>1, <2>2, <2>4 DEF CalmPanel
  <2> QED  BY <1>1, <1>3, <2>1, <2>2, <2>3, <2>5, CalmStep
<1> QED  BY <1>2, <1>4, <1>6, <1>7, <1>8 DEF SaveStep

LEMMA NextKeepsCalm == TypeOK /\ CalmInv /\ [Next]_vars => CalmInv'
<1> SUFFICES ASSUME TypeOK, CalmInv, [Next]_vars PROVE CalmInv'
  OBVIOUS
<1>1. CASE UNCHANGED vars
  BY <1>1, CalmUnchanged DEF vars, panels, history
<1>2. ASSUME NEW sent \in Sent, updateTenant(sent) PROVE CalmInv'
  <2> SUFFICES ASSUME calm' PROVE CalmInv' BY DEF CalmInv
  <2>1. Calm(sent.config = doc.config, edited) /\ UNCHANGED <<form, fetches, mounted>>
    BY <1>2 DEF updateTenant
  <2>2. calm /\ sent.config = doc.config /\ edited' = edited BY <2>1, CalmFacts
  <2>3. doc'.config = doc.config BY <1>2, <2>2 DEF updateTenant
  <2>4. ASSUME NEW p \in Panels PROVE CalmPanel(p)'
    <3>1. /\ saving'[p].pc = saving[p].pc /\ saving'[p].config = saving[p].config
          /\ saving'[p].old = saving[p].old
      BY <1>2 DEF updateTenant, TypeOK, Saving
    <3>2. CalmPanel(p) BY <2>2 DEF CalmInv
    <3> QED BY <2>1, <2>2, <2>3, <3>1, <3>2 DEF CalmPanel, Agrees
  <2> QED BY <2>1, <2>2, <2>3, <2>4 DEF CalmInv
<1> QED BY <1>1, <1>2, PanelKeepsCalm, UserKeepsCalm, SaveKeepsCalm DEF Next

\* With one panel, no failure, and a user who waits for fetches and saves, a save changes
\* what the user has edited and nothing else.
THEOREM ConfigSavesOnlyEdits == Spec => SavesOnlyEdits
<1>1. TypeOK /\ CalmInv /\ [Next]_vars => TypeOK' /\ CalmInv'
  BY StepKinds, NextKeepsCalm
<1>2. TypeOK /\ CalmInv =>
        \A p \in Panels :
           calm /\ Save(p) => \A field \in Fields \ edited :
                                 doc'.config[field] = doc.config[field]
  BY SaveWrites
<1> QED  BY <1>1, <1>2, InitTypeOK, InitCalm, PTL DEF Spec, SavesOnlyEdits
===============================================================================
