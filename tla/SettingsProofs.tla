--------------------------- MODULE SettingsProofs ---------------------------
(***************************************************************************)
(* The safety theorems of Settings, for any values of credentials, any     *)
(* labels and any number of starts, commands and edits.  The file may      *)
(* change between a writer's load and its save, so nothing relates the two *)
(* copies: what is kept is a relation between what a writer has loaded,    *)
(* what it holds, and the keyring.                                         *)
(***************************************************************************)
EXTENDS Settings, TLAPS

----------------------------------------------------------------------------
(* Configurations.                                                         *)

\* A configuration has its four fields.
LEMMA ConfigFields ==
    ASSUME NEW c \in Config
    PROVE  /\ c.keys \in [Credentials -> Key]
           /\ c.alias \in [Labels -> {"none", "default", "own"}]
           /\ c.seeded \in BOOLEAN /\ c.baseline \in SUBSET Labels
  BY DEF Config

\* What an empty file parses to.
LEMMA BlankIsConfig ==
    /\ Blank \in Config /\ \A c \in Credentials : Blank.keys[c] = NoKey
    /\ Blank.seeded = FALSE /\ Blank.keys \in [Credentials -> Key]
  BY DEF Blank, Config, Key

\* Writing a credential into a configuration, or taking it out, changes that alone.
LEMMA ConfigWithKey ==
    ASSUME NEW cfg \in Config, NEW c \in Credentials, NEW v \in Key
    PROVE  LET after == [cfg EXCEPT !.keys[c] = v]
           IN  /\ after \in Config
               /\ after.keys[c] = v
               /\ \A d \in Credentials : d # c => after.keys[d] = cfg.keys[d]
               /\ after.alias = cfg.alias /\ after.seeded = cfg.seeded
               /\ after.baseline = cfg.baseline
  BY DEF Config

\* Replacing an alias changes no credential.
LEMMA ConfigWithAlias ==
    ASSUME NEW cfg \in Config, NEW l \in Labels, NEW a \in {"none", "default", "own"}
    PROVE  LET after == [cfg EXCEPT !.alias[l] = a]
           IN  after \in Config /\ after.keys = cfg.keys
  BY DEF Config

\* Seeding gives an unseeded copy the default aliases and leaves a seeded one alone.
LEMMA SeedingKeeps ==
    ASSUME NEW cfg \in Config
    PROVE  /\ Seeded(cfg) \in Config /\ Seeded(cfg).keys = cfg.keys /\ Seeded(cfg).seeded
           /\ cfg.seeded => Seeded(cfg) = cfg
<1>1. CASE cfg.seeded
  BY <1>1 DEF Seeded
<1>2. CASE ~cfg.seeded
  <2> DEFINE after == [cfg EXCEPT !.alias = [l \in Labels |-> "default"], !.seeded = TRUE,
                                  !.baseline = Labels]
  <2>1. after \in Config /\ after.keys = cfg.keys /\ after.seeded = TRUE
    BY DEF Config
  <2>2. Seeded(cfg) = after
    BY <1>2 DEF Seeded
  <2> QED  BY <1>2, <2>1, <2>2
<1> QED  BY <1>1, <1>2

\* A merge adds defaults alone, and restores a removed one only when asked to.
LEMMA MergingKeeps ==
    ASSUME NEW cfg \in Config, NEW restore \in BOOLEAN
    PROVE  LET after == Merged(cfg, restore)
           IN  /\ after \in Config /\ after.keys = cfg.keys /\ after.seeded
               /\ cfg.baseline \subseteq after.baseline
               /\ \A l \in Labels : after.alias[l] # cfg.alias[l] =>
                     /\ cfg.alias[l] = "none"
                     /\ l \in cfg.baseline => restore
<1> DEFINE added == Additions(cfg) \cup (IF restore THEN Removed(cfg) ELSE {})
           base == cfg.baseline \cup Additions(cfg) \cup Removed(cfg) \cup Conflicts(cfg)
           alias == [l \in Labels |-> IF l \in added THEN "default" ELSE cfg.alias[l]]
           after == Merged(cfg, restore)
<1>1. base \in SUBSET Labels /\ cfg.baseline \subseteq base
  BY ConfigFields DEF Additions, Removed, Conflicts
<1>2. alias \in [Labels -> {"none", "default", "own"}]
  BY ConfigFields
<1>3. \A l \in added : cfg.alias[l] = "none" /\ (l \in cfg.baseline => restore)
  BY DEF Additions, Removed
<1>4. after = [cfg EXCEPT !.alias = alias, !.seeded = TRUE, !.baseline = base]
  BY DEF Merged
<1>5. \A l \in Labels : alias[l] # cfg.alias[l] => l \in added
  OBVIOUS
<1> HIDE DEF added, base, alias, after
<1>6. /\ after \in Config /\ after.keys = cfg.keys /\ after.seeded = TRUE
      /\ after.alias = alias /\ after.baseline = base
  BY <1>1, <1>2, <1>4 DEF Config
<1>7. \A l \in Labels : after.alias[l] # cfg.alias[l] =>
        cfg.alias[l] = "none" /\ (l \in cfg.baseline => restore)
  BY <1>3, <1>5, <1>6
<1> QED  BY <1>1, <1>6, <1>7 DEF after

----------------------------------------------------------------------------
(* The copies of the two writers.                                          *)

CopyOK(p) ==
    /\ \A c \in Credentials :
          loaded[p].keys[c] # NoKey /\ conf[p].keys[c] = NoKey => items[c] # NoKey
    /\ loaded[p].seeded => conf[p].seeded
    /\ loaded[p].seeded =>
         /\ loaded[p].baseline \subseteq conf[p].baseline
         /\ \A l \in Labels : conf[p].alias[l] # loaded[p].alias[l] =>
              /\ loaded[p].alias[l] = "none"
              /\ l \in loaded[p].baseline => p = "cli" /\ command = "restore"

FlowOK ==
    /\ StoresAreValues
    /\ pc["cli"] \in {"idle", "loading"} => conf["cli"] = loaded["cli"]

\* The invariant is about types, each writer's copy, and where the writers are.
LEMMA SettingsParts ==
    /\ SettingsInv <=> SettingsTypeOK /\ FlowOK /\ \A p \in Writers : CopyOK(p)
    /\ SettingsInv' <=> SettingsTypeOK' /\ FlowOK' /\ \A p \in Writers : CopyOK(p)'
  BY DEF SettingsInv, MovedKeysAreStored, CopiesFollow, AliasesAreTheUsers, CopyOK, FlowOK

\* A copy that is what was loaded needs nothing more.
LEMMA FreshCopy ==
    ASSUME NEW p, conf'[p] = loaded'[p]
    PROVE  CopyOK(p)'
  BY DEF CopyOK

\* A copy nobody touches stays what it was, as credentials are only added to the keyring.
LEMMA UntouchedCopy ==
    ASSUME NEW p \in Writers, CopyOK(p), conf'[p] = conf[p], loaded'[p] = loaded[p],
           \A c \in Credentials : items[c] # NoKey => items'[c] # NoKey,
           p = "cli" => command' = command
    PROVE  CopyOK(p)'
  BY DEF CopyOK, Writers

\* Nor does one that a credential is taken out of once it is stored.
LEMMA StrippedCopy ==
    ASSUME NEW p \in Writers, CopyOK(p), NEW c \in Credentials, conf[p] \in Config,
           conf'[p] = [conf[p] EXCEPT !.keys[c] = NoKey], loaded'[p] = loaded[p],
           \A d \in Credentials : items[d] # NoKey => items'[d] # NoKey,
           items'[c] # NoKey, p = "cli" => command' = command
    PROVE  CopyOK(p)'
<1>1. /\ \A d \in Credentials : d # c => conf'[p].keys[d] = conf[p].keys[d]
      /\ conf'[p].alias = conf[p].alias /\ conf'[p].seeded = conf[p].seeded
      /\ conf'[p].baseline = conf[p].baseline
  BY ConfigWithKey DEF Key
<1> QED  BY <1>1 DEF CopyOK, Writers

----------------------------------------------------------------------------
(* The starting daemon.                                                    *)

\* Loading the file.
LEMMA StartKeepsInv == ASSUME SettingsInv, Start PROVE SettingsInv'
<1>1. SettingsTypeOK /\ FlowOK /\ \A p \in Writers : CopyOK(p)
  BY SettingsParts
<1>2. SettingsTypeOK'
  <2>1. /\ conf' \in [Writers -> Config] /\ loaded' \in [Writers -> Config]
        /\ cache' \in [Credentials -> Key]
    BY <1>1, ConfigFields DEF SettingsTypeOK, Start, Load
  <2>2. starts' \in 0 .. MaxStarts
    BY <1>1, SettingsAssumption DEF SettingsTypeOK, Start
  <2>3. /\ pc' \in [Writers -> DaemonStages \cup CliStages]
        /\ pc'["daemon"] = "opening" /\ pc'["cli"] = pc["cli"] /\ pc["daemon"] = "down"
    BY <1>1 DEF SettingsTypeOK, Start, Goto, Writers, DaemonStages
  <2> QED  BY <1>1, <2>1, <2>2, <2>3 DEF SettingsTypeOK, Start, DaemonStages
<1>3. FlowOK'
  BY <1>1 DEF FlowOK, StoresAreValues, SettingsTypeOK, Start, Load, Goto, Writers
<1>4. CopyOK("daemon")'
  <2>1. conf'["daemon"] = loaded'["daemon"]
    BY <1>1 DEF Start, Load, SettingsTypeOK, Writers
  <2> QED  BY <2>1, FreshCopy
<1>5. CopyOK("cli")'
  <2>1. conf'["cli"] = conf["cli"] /\ loaded'["cli"] = loaded["cli"]
    BY <1>1 DEF Start, Load, SettingsTypeOK, Writers
  <2> QED  BY <1>1, <2>1, UntouchedCopy DEF Start, Writers
<1> QED  BY <1>2, <1>3, <1>4, <1>5, SettingsParts DEF Writers

\* Steps that touch no copy and take nothing out of the keyring.
LEMMA CopiesUntouched ==
    ASSUME SettingsInv, UNCHANGED <<conf, loaded, command>>,
           \A c \in Credentials : items[c] # NoKey => items'[c] # NoKey
    PROVE  \A p \in Writers : CopyOK(p)'
  BY SettingsParts, UntouchedCopy

\* Waiting for the keyring.
LEMMA OpenStoreKeepsInv == ASSUME SettingsInv, OpenStore PROVE SettingsInv'
<1>1. SettingsTypeOK /\ FlowOK
  BY SettingsParts
<1>2. SettingsTypeOK'
  BY <1>1 DEF SettingsTypeOK, OpenStore, Opens, Refuses, memory, running, budgets, Goto, Writers,
     DaemonStages
<1>3. FlowOK'
  BY <1>1 DEF FlowOK, StoresAreValues, SettingsTypeOK, OpenStore, memory, Goto, Writers
<1>4. \A p \in Writers : CopyOK(p)'
  BY CopiesUntouched DEF OpenStore, memory
<1> QED  BY <1>2, <1>3, <1>4, SettingsParts

\* The keyring's value wins, or the file's is about to be stored.
LEMMA ResolveNextKeepsInv ==
    ASSUME SettingsInv, NEW c \in Credentials, ResolveNext(c) PROVE SettingsInv'
<1>1. SettingsTypeOK /\ FlowOK /\ \A p \in Writers : CopyOK(p)
  BY SettingsParts
<1>2. /\ pc["daemon"] = "moving" /\ c \in left /\ (c = "huggingface" => "civitai" \notin left)
      /\ UNCHANGED <<file, items, loaded, command, asking, cooling, budgets>>
      /\ Opens \/ Refuses
  BY DEF ResolveNext
<1>3. CASE /\ items[c] # NoKey
           /\ cache' = [cache EXCEPT ![c] = items[c]]
           /\ conf' = [conf EXCEPT !["daemon"].keys[c] = NoKey]
           /\ left' = left \ {c} /\ UNCHANGED pc
  <2>1. /\ conf'["daemon"] = [conf["daemon"] EXCEPT !.keys[c] = NoKey]
        /\ conf'["cli"] = conf["cli"] /\ conf["daemon"] \in Config
    BY <1>1, <1>3 DEF SettingsTypeOK, Writers
  <2>2. conf'["daemon"] \in Config
    BY <2>1, ConfigWithKey DEF Key
  <2>3. conf' \in [Writers -> Config]
    <3>1. conf' = [conf EXCEPT !["daemon"] = conf'["daemon"]]
      BY <1>1, <1>3, <2>1 DEF SettingsTypeOK, Writers
    <3> QED  BY <1>1, <2>2, <3>1 DEF SettingsTypeOK
  <2>4. SettingsTypeOK'
    BY <1>1, <1>2, <1>3, <2>3 DEF SettingsTypeOK, Opens, Refuses, budgets
  <2>5. FlowOK'
    BY <1>1, <1>2, <1>3, <2>1 DEF FlowOK, StoresAreValues
  <2>6. CopyOK("daemon")' /\ CopyOK("cli")'
    BY <1>1, <1>2, <1>3, <2>1, StrippedCopy, UntouchedCopy DEF Writers
  <2> QED  BY <2>4, <2>5, <2>6, SettingsParts DEF Writers
<1>4. CASE /\ conf["daemon"].keys[c] # NoKey /\ Goto("daemon", "storing")
           /\ UNCHANGED <<left, cache, conf>>
  <2>1. SettingsTypeOK'
    BY <1>1, <1>2, <1>4 DEF SettingsTypeOK, Opens, Refuses, budgets, Goto, Writers, DaemonStages
  <2>2. FlowOK'
    BY <1>1, <1>2, <1>4 DEF FlowOK, StoresAreValues, SettingsTypeOK, Goto, Writers
  <2>3. \A p \in Writers : CopyOK(p)'
    BY <1>2, <1>4, CopiesUntouched
  <2> QED  BY <2>1, <2>2, <2>3, SettingsParts
<1>5. CASE left' = left \ {c} /\ UNCHANGED <<pc, cache, conf>>
  <2>1. SettingsTypeOK'
    BY <1>1, <1>2, <1>5 DEF SettingsTypeOK, Opens, Refuses, budgets
  <2>2. FlowOK'
    BY <1>1, <1>2, <1>5 DEF FlowOK, StoresAreValues
  <2>3. \A p \in Writers : CopyOK(p)'
    BY <1>2, <1>5, CopiesUntouched
  <2> QED  BY <2>1, <2>2, <2>3, SettingsParts
<1> QED  BY <1>3, <1>4, <1>5 DEF ResolveNext

\* Storing a credential: a failed store leaves the plaintext copy.
LEMMA StoreNextKeepsInv ==
    ASSUME SettingsInv, NEW c \in Credentials, StoreNext(c) PROVE SettingsInv'
<1>1. SettingsTypeOK /\ FlowOK /\ \A p \in Writers : CopyOK(p)
  BY SettingsParts
<1>2. /\ pc["daemon"] = "storing" /\ c \in left /\ (c = "huggingface" => "civitai" \notin left)
      /\ left' = left \ {c} /\ Goto("daemon", "moving")
      /\ UNCHANGED <<file, loaded, command, running, budgets>>
      /\ Opens \/ Refuses
  BY DEF StoreNext
<1>3. conf["daemon"].keys[c] # NoKey
  <2>1. PICK d \in left : /\ d = "huggingface" => "civitai" \notin left
                          /\ conf["daemon"].keys[d] # NoKey
    BY <1>1, <1>2 DEF FlowOK, StoresAreValues
  <2> QED  BY <1>1, <1>2, <2>1 DEF Credentials, SettingsTypeOK
<1>4. CASE /\ items' = [items EXCEPT ![c] = conf["daemon"].keys[c]]
           /\ conf' = [conf EXCEPT !["daemon"].keys[c] = NoKey]
  <2>1. /\ conf'["daemon"] = [conf["daemon"] EXCEPT !.keys[c] = NoKey]
        /\ conf'["cli"] = conf["cli"] /\ conf["daemon"] \in Config
    BY <1>1, <1>4 DEF SettingsTypeOK, Writers
  <2>2. conf'["daemon"] \in Config /\ conf["daemon"].keys[c] \in Key
    <3>1. NoKey \in Key
      BY DEF Key
    <3>2. conf'["daemon"] \in Config
      BY <2>1, <3>1, ConfigWithKey
    <3>3. conf["daemon"].keys[c] \in Key
      BY <2>1, ConfigFields
    <3> QED  BY <3>2, <3>3
  <2>3. conf' \in [Writers -> Config]
    <3>1. conf' = [conf EXCEPT !["daemon"] = conf'["daemon"]]
      BY <1>1, <1>4, <2>1 DEF SettingsTypeOK, Writers
    <3> QED  BY <1>1, <2>2, <3>1 DEF SettingsTypeOK
  <2>4. /\ items' \in [Credentials -> Key] /\ items'[c] # NoKey
        /\ \A d \in Credentials : items[d] # NoKey => items'[d] # NoKey
    BY <1>1, <1>3, <1>4, <2>2 DEF SettingsTypeOK
  <2>5. SettingsTypeOK'
    BY <1>1, <1>2, <2>3, <2>4 DEF SettingsTypeOK, Opens, Refuses, budgets, running, Goto, Writers,
       DaemonStages
  <2>6. FlowOK'
    BY <1>1, <1>2, <2>1, <2>4 DEF FlowOK, StoresAreValues, SettingsTypeOK, Goto, Writers
  <2>7. CopyOK("daemon")' /\ CopyOK("cli")'
    BY <1>1, <1>2, <2>1, <2>4, StrippedCopy, UntouchedCopy DEF Writers
  <2> QED  BY <2>5, <2>6, <2>7, SettingsParts DEF Writers
<1>5. CASE UNCHANGED <<items, conf>>
  <2>1. SettingsTypeOK'
    BY <1>1, <1>2, <1>5 DEF SettingsTypeOK, Opens, Refuses, budgets, running, Goto, Writers,
       DaemonStages
  <2>2. FlowOK'
    BY <1>1, <1>2, <1>5 DEF FlowOK, StoresAreValues, SettingsTypeOK, Goto, Writers
  <2>3. \A p \in Writers : CopyOK(p)'
    BY <1>2, <1>5, CopiesUntouched
  <2> QED  BY <2>1, <2>2, <2>3, SettingsParts
<1> QED  BY <1>4, <1>5 DEF StoreNext

\* A writer's stage changes, of either process.
LEMMA StagesChange ==
    ASSUME SettingsTypeOK, NEW p \in Writers, NEW place, Goto(p, place),
           place \in IF p = "daemon" THEN DaemonStages ELSE CliStages
    PROVE  /\ pc' \in [Writers -> DaemonStages \cup CliStages]
           /\ pc'["daemon"] \in DaemonStages /\ pc'["cli"] \in CliStages
           /\ pc'[p] = place /\ \A q \in Writers : q # p => pc'[q] = pc[q]
  BY DEF SettingsTypeOK, Goto, Writers

\* The file is truncated before it is written, if the copy lacks a credential.
LEMMA StripKeepsInv == ASSUME SettingsInv, Strip PROVE SettingsInv'
<1>1. SettingsTypeOK /\ FlowOK /\ Blank \in Config
  BY SettingsParts, BlankIsConfig
<1>2. PICK place \in {"saving", "stripped"} : Goto("daemon", place)
  BY DEF Strip
<1>3. /\ pc' \in [Writers -> DaemonStages \cup CliStages]
      /\ pc'["daemon"] = place /\ pc'["cli"] = pc["cli"] /\ place \in DaemonStages
  BY <1>1, <1>2, StagesChange DEF Writers, DaemonStages
<1>4. file' \in Config
  BY <1>1 DEF Strip, SettingsTypeOK
<1>5. SettingsTypeOK'
  BY <1>1, <1>3, <1>4 DEF SettingsTypeOK, Strip, memory, running, budgets
<1>6. FlowOK'
  BY <1>1, <1>2, <1>3 DEF FlowOK, StoresAreValues, Strip, memory
<1>7. \A p \in Writers : CopyOK(p)'
  BY CopiesUntouched DEF Strip, memory
<1> QED  BY <1>5, <1>6, <1>7, SettingsParts

\* The copy without the credentials is written, and is what the file now holds.
LEMMA StrippedKeepsInv == ASSUME SettingsInv, Stripped PROVE SettingsInv'
<1>1. SettingsTypeOK /\ FlowOK /\ \A p \in Writers : CopyOK(p)
  BY SettingsParts
<1>2. /\ pc["daemon"] = "stripped" /\ file' = conf["daemon"]
      /\ loaded' = [loaded EXCEPT !["daemon"] = conf["daemon"]]
      /\ UNCHANGED <<keyring, items, conf, left, command, running, budgets>>
  BY DEF Stripped
<1>3. /\ pc' \in [Writers -> DaemonStages \cup CliStages]
      /\ pc'["daemon"] = "saving" /\ pc'["cli"] = pc["cli"]
  BY <1>1, StagesChange DEF Stripped, Writers, DaemonStages
<1>4. /\ loaded' \in [Writers -> Config] /\ file' \in Config
      /\ loaded'["daemon"] = conf["daemon"] /\ loaded'["cli"] = loaded["cli"]
  BY <1>1, <1>2 DEF SettingsTypeOK, Writers
<1>5. SettingsTypeOK'
  BY <1>1, <1>2, <1>3, <1>4 DEF SettingsTypeOK, running, budgets, DaemonStages
<1>6. FlowOK'
  BY <1>1, <1>2, <1>3, <1>4 DEF FlowOK, StoresAreValues
<1>7. CopyOK("daemon")' /\ CopyOK("cli")'
  BY <1>1, <1>2, <1>4, FreshCopy, UntouchedCopy DEF Writers
<1> QED  BY <1>5, <1>6, <1>7, SettingsParts DEF Writers

\* Seeding touches no alias of a copy that was seeded.
LEMMA SaveKeepsInv == ASSUME SettingsInv, Save PROVE SettingsInv'
<1>1. SettingsTypeOK /\ FlowOK /\ \A p \in Writers : CopyOK(p)
  BY SettingsParts
<1>2. /\ pc["daemon"] = "saving" /\ file' = Blank
      /\ conf' = [conf EXCEPT !["daemon"] = Seeded(@)]
      /\ UNCHANGED <<keyring, items, loaded, left, command, running, budgets>>
  BY DEF Save
<1>3. /\ pc' \in [Writers -> DaemonStages \cup CliStages]
      /\ pc'["daemon"] = "writing" /\ pc'["cli"] = pc["cli"]
  BY <1>1, StagesChange DEF Save, Writers, DaemonStages
<1>4. /\ conf["daemon"] \in Config /\ conf'["daemon"] = Seeded(conf["daemon"])
      /\ conf'["cli"] = conf["cli"]
  BY <1>1, <1>2 DEF SettingsTypeOK, Writers
<1>5. /\ conf'["daemon"] \in Config /\ conf'["daemon"].keys = conf["daemon"].keys
      /\ conf'["daemon"].seeded
      /\ conf["daemon"].seeded => conf'["daemon"] = conf["daemon"]
  BY <1>4, SeedingKeeps
<1>6. conf' \in [Writers -> Config]
  BY <1>1, <1>2, <1>4, <1>5 DEF SettingsTypeOK, Writers
<1>7. SettingsTypeOK'
  BY <1>1, <1>2, <1>3, <1>6, BlankIsConfig DEF SettingsTypeOK, running, budgets, DaemonStages
<1>8. FlowOK'
  BY <1>1, <1>2, <1>3, <1>4 DEF FlowOK, StoresAreValues
<1>9. CopyOK("daemon")'
  BY <1>1, <1>2, <1>5 DEF CopyOK, Writers
<1>10. CopyOK("cli")'
  BY <1>1, <1>2, <1>4, UntouchedCopy DEF Writers
<1> QED  BY <1>7, <1>8, <1>9, <1>10, SettingsParts DEF Writers

----------------------------------------------------------------------------
(* Ends of a save, of the daemon and of commands.                          *)

\* A command that ends holds nothing.
LEMMA DoneKeeps ==
    ASSUME SettingsInv, Done
    PROVE  /\ pc' \in [Writers -> DaemonStages \cup CliStages]
           /\ pc'["cli"] = "idle" /\ pc'["daemon"] = pc["daemon"]
           /\ conf' \in [Writers -> Config] /\ loaded' \in [Writers -> Config]
           /\ conf'["daemon"] = conf["daemon"] /\ loaded'["daemon"] = loaded["daemon"]
           /\ conf'["cli"] = Blank /\ loaded'["cli"] = Blank
           /\ command' = "none"
<1>1. SettingsTypeOK /\ Goto("cli", "idle")
  BY SettingsParts DEF Done
<1>2. /\ pc' \in [Writers -> DaemonStages \cup CliStages]
      /\ pc'["cli"] = "idle" /\ pc'["daemon"] = pc["daemon"]
  BY <1>1, StagesChange DEF Writers, CliStages
<1>3. /\ conf' = [conf EXCEPT !["cli"] = Blank] /\ loaded' = [loaded EXCEPT !["cli"] = Blank]
      /\ command' = "none"
  BY DEF Done
<1> QED  BY <1>1, <1>2, <1>3, BlankIsConfig DEF SettingsTypeOK, Writers

\* The command line ends beside a daemon that goes on.
LEMMA EndOfCommand ==
    ASSUME SettingsInv, Done, file' \in Config,
           keyring' \in {"absent", "locked", "open"},
           UNCHANGED <<items, left, running, budgets>>
    PROVE  SettingsInv'
<1>1. SettingsTypeOK /\ FlowOK /\ \A p \in Writers : CopyOK(p)
  BY SettingsParts
<1>2. SettingsTypeOK'
  BY <1>1, DoneKeeps DEF SettingsTypeOK, running, budgets, CliStages
<1>3. FlowOK'
  BY <1>1, DoneKeeps DEF FlowOK, StoresAreValues
<1>4. CopyOK("daemon")' /\ CopyOK("cli")'
  BY <1>1, DoneKeeps, FreshCopy, UntouchedCopy DEF Writers
<1> QED  BY <1>2, <1>3, <1>4, SettingsParts DEF Writers

\* A save ends.
LEMMA WriteKeepsInv == ASSUME SettingsInv, NEW p \in Writers, Write(p) PROVE SettingsInv'
<1>1. SettingsTypeOK /\ FlowOK /\ file' \in Config
  BY SettingsParts DEF Write, SettingsTypeOK
<1>2. CASE p = "daemon"
  <2>1. pc["daemon"] = "writing" /\ UNCHANGED <<keyring, items, memory, left, running, budgets>>
    BY <1>2 DEF Write
  <2>2. /\ pc' \in [Writers -> DaemonStages \cup CliStages]
        /\ pc'["daemon"] = "up" /\ pc'["cli"] = pc["cli"]
    BY <1>1, <1>2, StagesChange DEF Write, Writers, DaemonStages
  <2>3. SettingsTypeOK'
    BY <1>1, <2>1, <2>2 DEF SettingsTypeOK, memory, running, budgets, DaemonStages
  <2>4. FlowOK'
    BY <1>1, <2>1, <2>2 DEF FlowOK, StoresAreValues, memory
  <2>5. \A q \in Writers : CopyOK(q)'
    BY <2>1, CopiesUntouched DEF memory
  <2> QED  BY <2>3, <2>4, <2>5, SettingsParts
<1>3. CASE p = "cli"
  <2>1. Done /\ UNCHANGED <<keyring, items, left, running, budgets>>
    BY <1>3 DEF Write
  <2> QED  BY <1>1, <2>1, EndOfCommand DEF SettingsTypeOK
<1> QED  BY <1>2, <1>3 DEF Writers

\* A process stops at any step.
LEMMA StopKeepsInv == ASSUME SettingsInv, NEW p \in Writers, Stop(p) PROVE SettingsInv'
<1>1. SettingsTypeOK /\ FlowOK /\ \A q \in Writers : CopyOK(q)
  BY SettingsParts
<1>2. CASE p = "daemon"
  <2>1. /\ left' = {} /\ conf' = [conf EXCEPT !["daemon"] = Blank]
        /\ loaded' = [loaded EXCEPT !["daemon"] = Blank]
        /\ cache' = Blank.keys /\ cooling' = FALSE /\ asking' = [a \in Askers |-> {}]
        /\ UNCHANGED <<command, file, keyring, items, budgets>>
    BY <1>2 DEF Stop
  <2>2. /\ pc' \in [Writers -> DaemonStages \cup CliStages]
        /\ pc'["daemon"] = "down" /\ pc'["cli"] = pc["cli"]
    BY <1>1, <1>2, StagesChange DEF Stop, Writers, DaemonStages
  <2>3. /\ conf' \in [Writers -> Config] /\ loaded' \in [Writers -> Config]
        /\ conf'["daemon"] = Blank /\ loaded'["daemon"] = Blank
        /\ conf'["cli"] = conf["cli"] /\ loaded'["cli"] = loaded["cli"]
    BY <1>1, <2>1, BlankIsConfig DEF SettingsTypeOK, Writers
  <2>4. SettingsTypeOK'
    BY <1>1, <2>1, <2>2, <2>3, BlankIsConfig DEF SettingsTypeOK, budgets, DaemonStages
  <2>5. FlowOK'
    BY <1>1, <2>1, <2>2, <2>3 DEF FlowOK, StoresAreValues
  <2>6. CopyOK("daemon")' /\ CopyOK("cli")'
    BY <1>1, <2>1, <2>3, FreshCopy, UntouchedCopy DEF Writers
  <2> QED  BY <2>4, <2>5, <2>6, SettingsParts DEF Writers
<1>3. CASE p = "cli"
  <2>1. Done /\ UNCHANGED <<file, keyring, items, left, running, budgets>>
    BY <1>3 DEF Stop
  <2> QED  BY <1>1, <2>1, EndOfCommand DEF SettingsTypeOK
<1> QED  BY <1>2, <1>3 DEF Writers

----------------------------------------------------------------------------
(* The command line, the user, the keyring and a running daemon.           *)

\* A credential is stored before the file is looked at.
LEMMA SetKeyKeepsInv ==
    ASSUME SettingsInv, NEW c \in Credentials, NEW s \in Secrets, SetKey(c, s)
    PROVE  SettingsInv'
<1>1. SettingsTypeOK /\ FlowOK /\ \A p \in Writers : CopyOK(p)
  BY SettingsParts
<1>2. /\ pc["cli"] = "idle" /\ commands < MaxCommands /\ commands' = commands + 1
      /\ Opens /\ items' = [items EXCEPT ![c] = s] /\ command' = c
      /\ UNCHANGED <<file, conf, loaded, left, running, starts, edits>>
  BY DEF SetKey
<1>3. /\ pc' \in [Writers -> DaemonStages \cup CliStages]
      /\ pc'["cli"] = "loading" /\ pc'["daemon"] = pc["daemon"]
  BY <1>1, StagesChange DEF SetKey, Writers, CliStages
<1>4. s \in Key /\ s # NoKey
  BY SettingsAssumption DEF Key
<1>5. /\ items' \in [Credentials -> Key] /\ items'[c] # NoKey
      /\ \A d \in Credentials : items[d] # NoKey => items'[d] # NoKey
  BY <1>1, <1>2, <1>4 DEF SettingsTypeOK
<1>6. commands' \in 0 .. MaxCommands
  BY <1>1, <1>2, SettingsAssumption DEF SettingsTypeOK
<1>7. SettingsTypeOK'
  BY <1>1, <1>2, <1>3, <1>5, <1>6 DEF SettingsTypeOK, Opens, running, CliStages
<1>8. conf["cli"] = loaded["cli"]
  BY <1>1, <1>2 DEF FlowOK
<1>9. FlowOK'
  BY <1>1, <1>2, <1>3, <1>5, <1>8 DEF FlowOK, StoresAreValues
<1>10. CopyOK("daemon")' /\ CopyOK("cli")'
  BY <1>1, <1>2, <1>5, <1>8, FreshCopy, UntouchedCopy DEF Writers
<1> QED  BY <1>7, <1>9, <1>10, SettingsParts DEF Writers

\* The file is loaded only now, and rewritten if it holds the credential stored.
LEMMA ForgetPlaintextKeepsInv == ASSUME SettingsInv, ForgetPlaintext PROVE SettingsInv'
<1>1. SettingsTypeOK /\ FlowOK /\ \A p \in Writers : CopyOK(p)
  BY SettingsParts
<1>2. command \in Credentials /\ items[command] # NoKey /\ file \in Config
  BY <1>1 DEF FlowOK, StoresAreValues, ForgetPlaintext, SettingsTypeOK
<1>3. UNCHANGED <<file, keyring, items, left, running, budgets>>
  BY DEF ForgetPlaintext
<1>4. CASE Done
  BY <1>1, <1>3, <1>4, EndOfCommand DEF SettingsTypeOK
<1>5. CASE /\ loaded' = [loaded EXCEPT !["cli"] = file]
           /\ conf' = [conf EXCEPT !["cli"] = [file EXCEPT !.keys[command] = NoKey]]
           /\ Goto("cli", "truncating") /\ UNCHANGED command
  <2> DEFINE copy == [file EXCEPT !.keys[command] = NoKey]
  <2>1. NoKey \in Key
    BY DEF Key
  <2>2. /\ copy \in Config /\ copy.alias = file.alias /\ copy.seeded = file.seeded
        /\ copy.baseline = file.baseline
        /\ \A d \in Credentials : d # command => copy.keys[d] = file.keys[d]
    BY <1>2, <2>1, ConfigWithKey
  <2> HIDE DEF copy
  <2>3. conf' = [conf EXCEPT !["cli"] = copy]
    BY <1>5 DEF copy
  <2>4. /\ conf' \in [Writers -> Config] /\ loaded' \in [Writers -> Config]
        /\ conf'["cli"] = copy /\ loaded'["cli"] = file
        /\ conf'["daemon"] = conf["daemon"] /\ loaded'["daemon"] = loaded["daemon"]
    BY <1>1, <1>2, <1>5, <2>2, <2>3 DEF SettingsTypeOK, Writers
  <2>5. /\ pc' \in [Writers -> DaemonStages \cup CliStages]
        /\ pc'["cli"] = "truncating" /\ pc'["daemon"] = pc["daemon"]
    BY <1>1, <1>5, StagesChange DEF Writers, CliStages
  <2>6. SettingsTypeOK'
    BY <1>1, <1>3, <1>5, <2>4, <2>5 DEF SettingsTypeOK, running, budgets, CliStages
  <2>7. FlowOK'
    BY <1>1, <1>3, <2>4, <2>5 DEF FlowOK, StoresAreValues
  <2>8. CopyOK("cli")'
    BY <1>2, <1>3, <2>2, <2>4 DEF CopyOK
  <2>9. CopyOK("daemon")'
    BY <1>1, <1>3, <2>4, UntouchedCopy DEF Writers
  <2> QED  BY <2>6, <2>7, <2>8, <2>9, SettingsParts DEF Writers
<1> QED  BY <1>4, <1>5 DEF ForgetPlaintext

\* A merge brings back what was removed under the command that asks for it.
LEMMA MergeKeepsInv ==
    ASSUME SettingsInv, NEW restore \in BOOLEAN, Merge(restore) PROVE SettingsInv'
<1>1. SettingsTypeOK /\ FlowOK /\ \A p \in Writers : CopyOK(p)
  BY SettingsParts
<1>2. /\ commands < MaxCommands /\ commands' = commands + 1
      /\ loaded' = [loaded EXCEPT !["cli"] = file]
      /\ conf' = [conf EXCEPT !["cli"] = Merged(file, restore)]
      /\ command' = IF restore THEN "restore" ELSE "merge"
      /\ UNCHANGED <<file, keyring, items, left, running, starts, edits>>
  BY DEF Merge
<1> DEFINE copy == Merged(file, restore)
<1>3. /\ copy \in Config /\ copy.keys = file.keys /\ copy.seeded
      /\ file.baseline \subseteq copy.baseline
      /\ \A l \in Labels : copy.alias[l] # file.alias[l] =>
            file.alias[l] = "none" /\ (l \in file.baseline => restore)
  BY <1>1, MergingKeeps DEF SettingsTypeOK
<1>4. conf' = [conf EXCEPT !["cli"] = copy]
  BY <1>2
<1> HIDE DEF copy
<1>5. /\ conf' \in [Writers -> Config] /\ loaded' \in [Writers -> Config]
      /\ conf'["cli"] = copy /\ loaded'["cli"] = file
      /\ conf'["daemon"] = conf["daemon"] /\ loaded'["daemon"] = loaded["daemon"]
  BY <1>1, <1>2, <1>3, <1>4 DEF SettingsTypeOK, Writers
<1>6. /\ pc' \in [Writers -> DaemonStages \cup CliStages]
      /\ pc'["cli"] = "truncating" /\ pc'["daemon"] = pc["daemon"]
  BY <1>1, StagesChange DEF Merge, Writers, CliStages
<1>7. commands' \in 0 .. MaxCommands
  BY <1>1, <1>2, SettingsAssumption DEF SettingsTypeOK
<1>8. SettingsTypeOK'
  BY <1>1, <1>2, <1>5, <1>6, <1>7 DEF SettingsTypeOK, running, CliStages
<1>9. FlowOK'
  BY <1>1, <1>2, <1>5, <1>6 DEF FlowOK, StoresAreValues
<1>10. CopyOK("cli")'
  <2>1. restore => command' = "restore"
    BY <1>2
  <2> QED  BY <1>3, <1>5, <2>1 DEF CopyOK
<1>11. CopyOK("daemon")'
  BY <1>1, <1>2, <1>5, UntouchedCopy DEF Writers
<1> QED  BY <1>8, <1>9, <1>10, <1>11, SettingsParts DEF Writers

\* The first half of a save.
LEMMA TruncateKeepsInv == ASSUME SettingsInv, Truncate PROVE SettingsInv'
<1>1. SettingsTypeOK /\ FlowOK
  BY SettingsParts
<1>2. /\ pc' \in [Writers -> DaemonStages \cup CliStages]
      /\ pc'["cli"] = "writing" /\ pc'["daemon"] = pc["daemon"]
  BY <1>1, StagesChange DEF Truncate, Writers, CliStages
<1>3. SettingsTypeOK'
  BY <1>1, <1>2, BlankIsConfig DEF SettingsTypeOK, Truncate, memory, running, budgets, CliStages
<1>4. FlowOK'
  BY <1>1, <1>2 DEF FlowOK, StoresAreValues, Truncate, memory
<1>5. \A p \in Writers : CopyOK(p)'
  BY CopiesUntouched DEF Truncate, memory
<1> QED  BY <1>3, <1>4, <1>5, SettingsParts

\* An edit changes the file alone, and takes no credential out of it.
LEMMA EditChangesFile ==
    ASSUME SettingsTypeOK, Edit
    PROVE  file' \in Config /\ \A c \in Credentials : file.keys[c] # NoKey => file'.keys[c] # NoKey
<1>1. ASSUME NEW c \in Credentials, NEW s \in Secrets, file' = [file EXCEPT !.keys[c] = s]
      PROVE  /\ file' \in Config
             /\ \A d \in Credentials : file.keys[d] # NoKey => file'.keys[d] # NoKey
  <2>1. s \in Key /\ s # NoKey /\ file \in Config
    BY SettingsAssumption DEF Key, SettingsTypeOK
  <2> QED  BY <1>1, <2>1, ConfigWithKey
<1>2. ASSUME NEW l \in Labels, NEW a \in {"none", "own"}, file' = [file EXCEPT !.alias[l] = a]
      PROVE  file' \in Config /\ file'.keys = file.keys
  BY <1>2, ConfigWithAlias DEF SettingsTypeOK
<1> QED  BY <1>1, <1>2 DEF Edit

\* Editing, the keyring's own changes, and a running daemon's questions.
LEMMA OthersKeepInv ==
    ASSUME SettingsInv,
           Edit \/ KeyringChanges \/ CooldownEnds \/ \E a \in Askers : Ask(a) \/ Answer(a)
    PROVE  SettingsInv'
<1>1. SettingsTypeOK /\ FlowOK
  BY SettingsParts
<1>2. UNCHANGED <<pc, items, memory, left>>
  BY DEF Edit, KeyringChanges, CooldownEnds, Ask, Answer
<1>3. FlowOK'
  BY <1>1, <1>2 DEF FlowOK, StoresAreValues, memory
<1>4. \A p \in Writers : CopyOK(p)'
  BY <1>2, CopiesUntouched DEF memory
<1>5. SettingsTypeOK'
  <2>1. CASE Edit
    <3>1. edits' \in 0 .. MaxEdits
      BY <1>1, <2>1, SettingsAssumption DEF Edit, SettingsTypeOK
    <3> QED  BY <1>1, <2>1, <3>1, EditChangesFile DEF Edit, SettingsTypeOK, memory, running
  <2>2. CASE KeyringChanges
    BY <1>1, <2>2 DEF KeyringChanges, SettingsTypeOK, memory, running, budgets
  <2>3. CASE CooldownEnds
    BY <1>1, <2>3 DEF CooldownEnds, SettingsTypeOK, memory, budgets
  <2>4. ASSUME NEW a \in Askers, Ask(a)  PROVE SettingsTypeOK'
    BY <1>1, <2>4 DEF Ask, Missing, SettingsTypeOK, memory, budgets
  <2>5. ASSUME NEW a \in Askers, Answer(a)  PROVE SettingsTypeOK'
    <3>1. cache' \in [Credentials -> Key] /\ keyring' \in {"absent", "locked", "open"}
      BY <1>1, <2>5 DEF Answer, Opens, Refuses, SettingsTypeOK
    <3>2. asking' \in [Askers -> SUBSET Credentials]
          /\ \A b \in Askers : asking'[b] # {} => asking[b] # {}
      BY <1>1, <2>5 DEF Answer, SettingsTypeOK
    <3> QED  BY <1>1, <2>5, <3>1, <3>2 DEF Answer, SettingsTypeOK, memory, budgets
  <2> QED  BY <2>1, <2>2, <2>3, <2>4, <2>5
<1> QED  BY <1>3, <1>4, <1>5, SettingsParts

----------------------------------------------------------------------------
(* The theorems.                                                           *)

\* A first start finds an installation of either kind.
LEMMA InitSettingsInv == ASSUME SettingsInit PROVE SettingsInv
<1> DEFINE s == CHOOSE s \in Secrets : TRUE
<1>1. s \in Key
  BY SettingsAssumption DEF Key
<1>2. file \in Config
  <2>1. [Blank EXCEPT !.keys["civitai"] = s] \in Config
    BY <1>1, BlankIsConfig, ConfigWithKey DEF Credentials
  <2>2. [Blank EXCEPT !.seeded = TRUE] \in Config
    BY BlankIsConfig DEF Config
  <2> QED  BY <2>1, <2>2, BlankIsConfig DEF SettingsInit
<1>3. /\ pc \in [Writers -> DaemonStages \cup CliStages]
      /\ pc["daemon"] = "down" /\ pc["cli"] = "idle"
  BY DEF SettingsInit, Writers, DaemonStages, CliStages
<1>4. /\ conf \in [Writers -> Config] /\ loaded = conf
      /\ \A p \in Writers : conf[p] = loaded[p]
  BY BlankIsConfig DEF SettingsInit
<1>5. cache \in [Credentials -> Key] /\ items \in [Credentials -> Key]
  BY BlankIsConfig DEF SettingsInit, Key
<1>6. /\ MaxStarts \in Nat /\ MaxCommands \in Nat /\ MaxEdits \in Nat
      /\ keyring \in {"absent", "open"} /\ left = {} /\ command = "none"
      /\ asking = [a \in Askers |-> {}] /\ cooling = FALSE
      /\ starts = 0 /\ commands = 0 /\ edits = 0
  BY SettingsAssumption DEF SettingsInit
<1>7. SettingsTypeOK
  <2>1. starts \in 0 .. MaxStarts /\ commands \in 0 .. MaxCommands /\ edits \in 0 .. MaxEdits
    BY <1>6
  <2>2. asking \in [Askers -> SUBSET Credentials] /\ \A a \in Askers : asking[a] = {}
    BY <1>6
  <2>3. loaded \in [Writers -> Config] /\ left \subseteq Credentials
    BY <1>4, <1>6
  <2>4. pc["daemon"] \in DaemonStages /\ pc["cli"] \in CliStages
    BY <1>3 DEF DaemonStages, CliStages
  <2> QED  BY <1>2, <1>3, <1>4, <1>5, <1>6, <2>1, <2>2, <2>3, <2>4 DEF SettingsTypeOK
<1>8. FlowOK
  BY <1>3, <1>4 DEF FlowOK, StoresAreValues, Writers
<1>9. \A p \in Writers : CopyOK(p)
  BY <1>4 DEF CopyOK
<1> QED  BY <1>7, <1>8, <1>9, SettingsParts

\* Every step preserves the invariant.
LEMMA NextSettingsInv == ASSUME SettingsInv, [SettingsNext]_settingsVars PROVE SettingsInv'
<1>1. CASE UNCHANGED settingsVars
  <2>1. SettingsTypeOK /\ FlowOK
    BY SettingsParts
  <2>2. SettingsTypeOK'
    BY <1>1, <2>1 DEF settingsVars, SettingsTypeOK
  <2>3. FlowOK'
    BY <1>1, <2>1 DEF settingsVars, FlowOK, StoresAreValues
  <2>4. \A p \in Writers : CopyOK(p)'
    BY <1>1, CopiesUntouched DEF settingsVars
  <2> QED  BY <2>2, <2>3, <2>4, SettingsParts
<1>2. CASE SettingsNext
  BY <1>2, StartKeepsInv, OpenStoreKeepsInv, ResolveNextKeepsInv, StoreNextKeepsInv, StripKeepsInv,
     StrippedKeepsInv, SaveKeepsInv, WriteKeepsInv, StopKeepsInv, SetKeyKeepsInv,
     ForgetPlaintextKeepsInv, MergeKeepsInv, TruncateKeepsInv, OthersKeepInv DEF SettingsNext
<1> QED  BY <1>1, <1>2

\* The settings have their types, what a writer took out of its copy is in the
\* keyring, and what is about to be stored is a value, whatever the two processes,
\* the user and the keyring do between each other's steps.
THEOREM SettingsInvariant == SettingsSpec => []SettingsInv
<1>1. SettingsInit => SettingsInv
  BY InitSettingsInv
<1>2. SettingsInv /\ [SettingsNext]_settingsVars => SettingsInv'
  BY NextSettingsInv
<1> QED  BY <1>1, <1>2, PTL DEF SettingsSpec

\* No save changes an alias the user set, brings back one the user removed unless the
\* command asked for it, or forgets a merged default: for every set of labels.
THEOREM AliasesStayTheUsers == SettingsSpec => []AliasesAreTheUsers
<1>1. SettingsInv => AliasesAreTheUsers
  BY DEF SettingsInv
<1> QED  BY <1>1, SettingsInvariant, PTL

----------------------------------------------------------------------------
(* Credentials.                                                            *)

Excused ==
    \E p \in Writers : \/ Overwrites(p)
                       \/ Writing(p) /\ pc'[p] \in {"down", "idle"} /\ UNCHANGED file

\* A credential stays held as long as the file, the keyring and the copies that are
\* being written keep it.
LEMMA HeldStays ==
    ASSUME NEW c \in Credentials, Held(c),
           file.keys[c] # NoKey => file'.keys[c] # NoKey, items[c] # NoKey => items'[c] # NoKey,
           \A p \in Writers : Writing(p) /\ conf[p].keys[c] # NoKey =>
                                 Writing(p)' /\ conf'[p].keys[c] # NoKey
    PROVE  Held(c)'
  BY DEF Held

\* A writer that truncates the file it has loaded, less what is in the keyring, holds
\* the rest; if it is another file that it truncates, it writes over a change.
LEMMA TruncatingKeeps ==
    ASSUME NEW c \in Credentials, NEW p \in Writers, SettingsInv, Held(c),
           ~Writing(p), Writing(p)', pc'[p] # pc[p], file' = Blank, UNCHANGED items,
           conf'[p].keys = conf[p].keys,
           \A q \in Writers : q # p => pc'[q] = pc[q] /\ conf'[q] = conf[q]
    PROVE  Held(c)' \/ Excused
<1>1. CopyOK(p)
  BY SettingsParts
<1>2. CASE file.keys[c] = NoKey
  BY <1>2 DEF Held, Writing
<1>3. CASE file.keys[c] # NoKey /\ file # loaded[p]
  <2>1. file' # file
    BY <1>3, BlankIsConfig
  <2> QED  BY <1>3, <2>1 DEF Excused, Overwrites
<1>4. CASE file.keys[c] # NoKey /\ file = loaded[p]
  <2>1. conf[p].keys[c] # NoKey \/ items[c] # NoKey
    BY <1>1, <1>4 DEF CopyOK
  <2> QED  BY <2>1 DEF Held
<1> QED  BY <1>2, <1>3, <1>4

\* A writer that ends its save leaves in the file what it held; if the file is no longer
\* the truncated one, it writes over a change.
LEMMA WritingKeeps ==
    ASSUME NEW c \in Credentials, NEW p \in Writers, Held(c),
           Writing(p), pc'[p] # pc[p], file' = conf[p], UNCHANGED items,
           \A q \in Writers : q # p => pc'[q] = pc[q] /\ conf'[q] = conf[q]
    PROVE  Held(c)' \/ Excused
<1>1. CASE conf[p].keys[c] # NoKey
  BY <1>1 DEF Held
<1>2. CASE conf[p].keys[c] = NoKey /\ file.keys[c] = NoKey
  BY <1>2 DEF Held, Writing
<1>3. CASE conf[p].keys[c] = NoKey /\ file.keys[c] # NoKey
  <2>1. file # Blank /\ file' # file
    BY <1>3, BlankIsConfig
  <2> QED  BY <2>1 DEF Excused, Overwrites
<1> QED  BY <1>1, <1>2, <1>3

\* The daemon's steps.
LEMMA DaemonKeepsKeys ==
    ASSUME NEW c \in Credentials, SettingsInv, Held(c),
           \/ Start \/ OpenStore \/ Strip \/ Stripped \/ Save
           \/ \E d \in Credentials : ResolveNext(d) \/ StoreNext(d)
    PROVE  Held(c)' \/ Excused
<1>1. SettingsTypeOK /\ SettingsInv' /\ SettingsTypeOK'
  BY StartKeepsInv, OpenStoreKeepsInv, StripKeepsInv, StrippedKeepsInv, SaveKeepsInv,
     ResolveNextKeepsInv, StoreNextKeepsInv DEF SettingsInv
<1>2. CASE Start \/ OpenStore
  <2>1. /\ ~Writing("daemon") /\ pc'["cli"] = pc["cli"] /\ conf'["cli"] = conf["cli"]
        /\ UNCHANGED <<file, items>>
    BY <1>1, <1>2 DEF Start, OpenStore, Writing, Goto, Load, memory, SettingsTypeOK, Writers
  <2> QED  BY <2>1, HeldStays DEF Writing, Writers
<1>3. ASSUME NEW d \in Credentials, ResolveNext(d) \/ StoreNext(d)  PROVE Held(c)'
  <2>1. /\ ~Writing("daemon") /\ pc'["cli"] = pc["cli"] /\ conf'["cli"] = conf["cli"]
        /\ UNCHANGED file
    BY <1>1, <1>3 DEF ResolveNext, StoreNext, Writing, Goto, SettingsTypeOK, Writers
  <2>2. items[c] # NoKey => items'[c] # NoKey
    <3>1. CASE ResolveNext(d)
      BY <3>1 DEF ResolveNext
    <3>2. CASE StoreNext(d)
      <4>1. conf["daemon"].keys[d] # NoKey
        BY <1>1, <3>2 DEF SettingsInv, StoresAreValues, StoreNext, Credentials, SettingsTypeOK
      <4> QED  BY <1>1, <3>2, <4>1 DEF StoreNext, SettingsTypeOK
    <3> QED  BY <1>3, <3>1, <3>2
  <2> QED  BY <2>1, <2>2, HeldStays DEF Writing, Writers
<1>4. CASE Strip
  <2>1. /\ pc["daemon"] = "moving" /\ UNCHANGED <<items, conf>> /\ pc'["cli"] = pc["cli"]
    BY <1>1, <1>4 DEF Strip, memory, Goto, SettingsTypeOK, Writers
  <2>2. CASE UNCHANGED file
    BY <2>1, <2>2, HeldStays DEF Writing, Writers
  <2>3. CASE file' = Blank /\ Goto("daemon", "stripped")
    <3>1. pc'["daemon"] = "stripped"
      BY <1>1, <2>3 DEF Goto, SettingsTypeOK, Writers
    <3> QED  BY <2>1, <2>3, <3>1, TruncatingKeeps DEF Writing, Writers
  <2> QED  BY <1>4, <2>2, <2>3 DEF Strip
<1>5. CASE Stripped
  <2>1. /\ pc["daemon"] = "stripped" /\ pc'["daemon"] = "saving" /\ pc'["cli"] = pc["cli"]
        /\ UNCHANGED <<items, conf>> /\ file' = conf["daemon"]
    BY <1>1, <1>5 DEF Stripped, Goto, SettingsTypeOK, Writers
  <2> QED  BY <2>1, WritingKeeps DEF Writing, Writers
<1>6. CASE Save
  <2>1. /\ pc["daemon"] = "saving" /\ pc'["daemon"] = "writing" /\ pc'["cli"] = pc["cli"]
        /\ UNCHANGED items /\ file' = Blank /\ conf'["cli"] = conf["cli"]
        /\ conf'["daemon"] = Seeded(conf["daemon"]) /\ conf["daemon"] \in Config
    BY <1>1, <1>6 DEF Save, Goto, SettingsTypeOK, Writers
  <2>2. conf'["daemon"].keys = conf["daemon"].keys
    BY <2>1, SeedingKeeps
  <2> QED  BY <2>1, <2>2, TruncatingKeeps DEF Writing, Writers
<1> QED  BY <1>2, <1>3, <1>4, <1>5, <1>6

\* The command line's, the ends of both processes, and all others.
LEMMA OthersKeepKeys ==
    ASSUME NEW c \in Credentials, SettingsInv, Held(c),
           \/ \E p \in Writers : Write(p) \/ Stop(p)
           \/ \E d \in Credentials, s \in Secrets : SetKey(d, s)
           \/ ForgetPlaintext \/ Truncate \/ \E restore \in BOOLEAN : Merge(restore)
           \/ Edit \/ KeyringChanges \/ CooldownEnds
           \/ \E a \in Askers : Ask(a) \/ Answer(a)
    PROVE  Held(c)' \/ Excused
<1>1. SettingsTypeOK
  BY DEF SettingsInv
<1>2. ASSUME NEW p \in Writers, Write(p)  PROVE Held(c)' \/ Excused
  <2>1. /\ pc[p] = "writing" /\ pc'[p] # pc[p] /\ file' = conf[p] /\ UNCHANGED items
        /\ \A q \in Writers : q # p => pc'[q] = pc[q] /\ conf'[q] = conf[q]
    BY <1>1, <1>2 DEF Write, Done, Goto, memory, SettingsTypeOK, Writers
  <2> QED  BY <2>1, WritingKeeps DEF Writing
<1>3. ASSUME NEW p \in Writers, Stop(p)  PROVE Held(c)' \/ Excused
  <2>1. /\ pc'[p] \in {"down", "idle"} /\ UNCHANGED <<file, items>>
        /\ \A q \in Writers : q # p => pc'[q] = pc[q] /\ conf'[q] = conf[q]
    BY <1>1, <1>3 DEF Stop, Done, Goto, SettingsTypeOK, Writers
  <2>2. CASE Writing(p)
    BY <2>1, <2>2 DEF Excused
  <2>3. CASE ~Writing(p)
    <3>1. \A q \in Writers : Writing(q) => Writing(q)' /\ conf'[q] = conf[q]
      BY <2>1, <2>3 DEF Writing
    <3> QED  BY <2>1, <3>1, HeldStays
  <2> QED  BY <2>2, <2>3
<1>4. ASSUME NEW d \in Credentials, NEW s \in Secrets, SetKey(d, s)  PROVE Held(c)'
  <2>1. /\ pc["cli"] = "idle" /\ pc'["daemon"] = pc["daemon"] /\ UNCHANGED <<file, conf>>
        /\ items' = [items EXCEPT ![d] = s] /\ s # NoKey
    BY <1>1, <1>4, SettingsAssumption DEF SetKey, Goto, SettingsTypeOK, Writers
  <2>2. items[c] # NoKey => items'[c] # NoKey
    BY <1>1, <2>1 DEF SettingsTypeOK
  <2> QED  BY <2>1, <2>2, HeldStays DEF Writing, Writers
<1>5. CASE ForgetPlaintext \/ \E restore \in BOOLEAN : Merge(restore)
  <2>1. /\ ~Writing("cli") /\ pc'["daemon"] = pc["daemon"] /\ conf'["daemon"] = conf["daemon"]
        /\ UNCHANGED <<file, items>>
    BY <1>1, <1>5 DEF ForgetPlaintext, Merge, Done, Writing, Goto, SettingsTypeOK, Writers
  <2> QED  BY <2>1, HeldStays DEF Writing, Writers
<1>6. CASE Truncate
  <2>1. /\ pc["cli"] = "truncating" /\ pc'["cli"] = "writing" /\ pc'["daemon"] = pc["daemon"]
        /\ UNCHANGED <<items, conf>> /\ file' = Blank
    BY <1>1, <1>6 DEF Truncate, Goto, memory, SettingsTypeOK, Writers
  <2> QED  BY <2>1, TruncatingKeeps DEF Writing, Writers
<1>7. CASE Edit
  <2>1. UNCHANGED <<items, pc, conf>>
    BY <1>7 DEF Edit, memory
  <2> QED  BY <1>1, <1>7, <2>1, EditChangesFile, HeldStays DEF Writing
<1>8. CASE KeyringChanges \/ CooldownEnds \/ \E a \in Askers : Ask(a) \/ Answer(a)
  <2>1. UNCHANGED <<file, items, pc, conf>>
    BY <1>8 DEF KeyringChanges, CooldownEnds, Ask, Answer, memory
  <2> QED  BY <2>1, HeldStays DEF Writing
<1> QED  BY <1>2, <1>3, <1>4, <1>5, <1>6, <1>7, <1>8

\* A credential leaves the last place that holds it only when a writer is stopped
\* between truncating the file and writing it, or writes over a file that another has
\* changed: whatever the daemon's migration, set-key, a merge, the user and the keyring
\* do between each other's steps, and however often.
THEOREM CredentialsAreKept == SettingsSpec => KeysAreKept
<1> DEFINE Step ==
        \A c \in Credentials :
            Held(c) /\ ~Held(c)' =>
                \E p \in Writers :
                    \/ Overwrites(p)
                    \/ Writing(p) /\ pc'[p] \in {"down", "idle"} /\ UNCHANGED file
<1>1. SettingsInv /\ [SettingsNext]_settingsVars => [Step]_settingsVars
  BY DaemonKeepsKeys, OthersKeepKeys DEF SettingsNext, Excused
<1> QED  BY <1>1, SettingsInvariant, PTL DEF SettingsSpec, KeysAreKept

=============================================================================
