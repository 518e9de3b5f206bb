------------------------------ MODULE Settings ------------------------------
(***************************************************************************)
(* The settings of the program and the credentials they name: config.toml, *)
(* the system keyring, and the processes that move values between the two. *)
(*                                                                         *)
(* The daemon loads the file when it starts, waits for the keyring, moves  *)
(* the plaintext credentials into it, seeds the family aliases and saves   *)
(* the copy it loaded (daemon/mod.rs, config.rs). The command line stores  *)
(* a credential in the keyring and takes it out of the file, or merges new *)
(* default aliases into the file (cli/mod.rs), with no lock between the    *)
(* two processes. A running daemon without a credential asks the keyring   *)
(* again, at most once per cooldown (secrets.rs).                          *)
(*                                                                         *)
(* A save is std::fs::write, which truncates the file and then writes it:  *)
(* an empty file parses as the default configuration, so a reader between  *)
(* the two steps loads Blank. Values of credentials, labels and times are  *)
(* abstract; the fields of the file nobody rewrites are left out.          *)
(***************************************************************************)
EXTENDS Naturals, FiniteSets

CONSTANTS
  Secrets,      \* the values a credential can have
  NoKey,        \* the value of a credential that is not set
  Labels,       \* the source labels this release ships an alias for
  MaxStarts,    \* bound: starts of the daemon
  MaxCommands,  \* bound: commands given on the command line
  MaxEdits      \* bound: edits of the file by its user

ASSUME SettingsAssumption ==
  /\ NoKey \notin Secrets /\ Secrets # {}
  /\ {MaxStarts, MaxCommands, MaxEdits} \subseteq Nat

Credentials == {"civitai", "huggingface"}
Key == Secrets \cup {NoKey}
Writers == {"daemon", "cli"}
Askers == {"scanner", "request"}
Config == [keys: [Credentials -> Key], alias: [Labels -> {"none", "default", "own"}],
           seeded: BOOLEAN, baseline: SUBSET Labels]

\* Config::default, which is also what an empty file parses to.
Blank == [keys |-> [c \in Credentials |-> NoKey], alias |-> [l \in Labels |-> "none"],
          seeded |-> FALSE, baseline |-> {}]

VARIABLES
  file,      \* config.toml
  keyring,   \* "absent", "locked" or "open"
  items,     \* the credentials in the keyring
  pc,        \* where each writer of the file is
  conf,      \* the configuration each writer holds in memory
  loaded,    \* what it read from the file
  left,      \* the credentials the starting daemon has still to resolve
  command,   \* the command the command line is running
  cache,     \* the credentials the daemon uses
  asking,    \* the credentials each asker has asked the keyring for
  cooling,   \* whether the keyring was asked less than a cooldown ago
  starts, commands, edits   \* what has been used of the bounds

settingsVars == <<file, keyring, items, pc, conf, loaded, left, command, cache, asking, cooling,
          starts, commands, edits>>

budgets == <<starts, commands, edits>>
running == <<cache, asking, cooling>>
memory == <<conf, loaded, command>>

----------------------------------------------------------------------------
(***************************************************************************)
(* The aliases: a snapshot the user owns, and the defaults last merged.    *)
(***************************************************************************)

Seeded(c) ==
  IF c.seeded THEN c
  ELSE [c EXCEPT !.alias = [l \in Labels |-> "default"], !.seeded = TRUE, !.baseline = Labels]

\* A slip: the baseline is not consulted.
AbsentLabels(c) == {l \in Labels : c.alias[l] = "none"}

Additions(c) == {l \in Labels : c.alias[l] = "none" /\ l \notin c.baseline}

Removed(c) == {l \in Labels : c.alias[l] = "none" /\ l \in c.baseline}

Conflicts(c) == {l \in Labels : c.alias[l] = "own"}

Merged(c, restore) ==
  LET added == Additions(c) \cup (IF restore THEN Removed(c) ELSE {})
  IN  [c EXCEPT !.alias = [l \in Labels |-> IF l \in added THEN "default" ELSE @[l]],
                !.seeded = TRUE,
                !.baseline = @ \cup Additions(c) \cup Removed(c) \cup Conflicts(c)]

----------------------------------------------------------------------------
(***************************************************************************)
(* The starting daemon.                                                    *)
(***************************************************************************)

Load(p) == /\ conf' = [conf EXCEPT ![p] = file]
           /\ loaded' = [loaded EXCEPT ![p] = file]

Goto(p, place) == pc' = [pc EXCEPT ![p] = place]

\* A command ends, and what it held with it.
Done == /\ Goto("cli", "idle") /\ command' = "none"
        /\ conf' = [conf EXCEPT !["cli"] = Blank]
        /\ loaded' = [loaded EXCEPT !["cli"] = Blank]

\* Config::load, and the plaintext credentials seed the cache.
Start == /\ pc["daemon"] = "down" /\ starts < MaxStarts
         /\ starts' = starts + 1
         /\ Load("daemon") /\ Goto("daemon", "opening")
         /\ cache' = file.keys
         /\ cooling' = FALSE
         /\ UNCHANGED <<file, keyring, items, left, command, asking, commands, edits>>

\* Store::open_ready: an absent keyring is waited for and then given up, a locked one
\* asks its user, who unlocks it or dismisses the prompt.
Opens == keyring # "absent" /\ keyring' = "open"
Refuses == keyring # "open" /\ UNCHANGED keyring

OpenStore == /\ pc["daemon"] = "opening"
             /\ \/ Opens /\ Goto("daemon", "moving") /\ left' = Credentials
                \/ Refuses /\ Goto("daemon", "saving") /\ UNCHANGED left
             /\ UNCHANGED <<file, items, memory, running, budgets>>

\* The value in the keyring wins and the plaintext copy is dropped; a value only the
\* file has is about to be stored; one that cannot be read stays where it is.
ResolveNext(c) ==
  /\ pc["daemon"] = "moving" /\ c \in left
  /\ c = "huggingface" => "civitai" \notin left
  /\ \/ /\ Opens
        /\ \/ /\ items[c] # NoKey
              /\ cache' = [cache EXCEPT ![c] = items[c]]
              /\ conf' = [conf EXCEPT !["daemon"].keys[c] = NoKey]
              /\ left' = left \ {c} /\ UNCHANGED pc
           \/ /\ items[c] = NoKey
              /\ IF conf["daemon"].keys[c] # NoKey
                 THEN Goto("daemon", "storing") /\ UNCHANGED left
                 ELSE left' = left \ {c} /\ UNCHANGED pc
              /\ UNCHANGED <<cache, conf>>
     \/ Refuses /\ left' = left \ {c} /\ UNCHANGED <<pc, cache, conf>>
  /\ UNCHANGED <<file, items, loaded, command, asking, cooling, budgets>>

\* A slip: a failed store drops the plaintext copy all the same.
StoreOrDropNext(c) ==
  /\ pc["daemon"] = "storing" /\ c \in left
  /\ conf' = [conf EXCEPT !["daemon"].keys[c] = NoKey]
  /\ \/ Opens /\ items' = [items EXCEPT ![c] = conf["daemon"].keys[c]]
     \/ Refuses /\ UNCHANGED items
  /\ left' = left \ {c} /\ Goto("daemon", "moving")
  /\ UNCHANGED <<file, loaded, command, running, budgets>>

\* Store::set, then the plaintext copy is dropped; a failed store leaves it.
StoreNext(c) ==
  /\ pc["daemon"] = "storing" /\ c \in left
  /\ c = "huggingface" => "civitai" \notin left
  /\ \/ /\ Opens
        /\ items' = [items EXCEPT ![c] = conf["daemon"].keys[c]]
        /\ conf' = [conf EXCEPT !["daemon"].keys[c] = NoKey]
     \/ Refuses /\ UNCHANGED <<items, conf>>
  /\ left' = left \ {c} /\ Goto("daemon", "moving")
  /\ UNCHANGED <<file, loaded, command, running, budgets>>

\* A slip: the file is rewritten before every credential is resolved.
StripEarly == /\ pc["daemon"] = "moving" /\ left # Credentials
              /\ Goto("daemon", "stripped") /\ file' = Blank
              /\ UNCHANGED <<keyring, items, memory, left, running, budgets>>

\* The credentials taken out of the copy are taken out of the file first, ...
Strip == /\ pc["daemon"] = "moving" /\ left = {}
         /\ IF conf["daemon"].keys = loaded["daemon"].keys
            THEN Goto("daemon", "saving") /\ UNCHANGED file
            ELSE Goto("daemon", "stripped") /\ file' = Blank
         /\ UNCHANGED <<keyring, items, memory, left, running, budgets>>

Stripped == /\ pc["daemon"] = "stripped"
            /\ file' = conf["daemon"]
            /\ loaded' = [loaded EXCEPT !["daemon"] = conf["daemon"]]
            /\ Goto("daemon", "saving")
            /\ UNCHANGED <<keyring, items, conf, left, command, running, budgets>>

\* ... and the copy, seeded with the default aliases, is saved in any case.
Save == /\ pc["daemon"] = "saving"
        /\ conf' = [conf EXCEPT !["daemon"] = Seeded(@)]
        /\ file' = Blank /\ Goto("daemon", "writing")
        /\ UNCHANGED <<keyring, items, loaded, left, command, running, budgets>>

Write(p) == /\ pc[p] = "writing"
            /\ file' = conf[p]
            /\ IF p = "daemon" THEN Goto(p, "up") /\ UNCHANGED memory ELSE Done
            /\ UNCHANGED <<keyring, items, left, running, budgets>>

\* Stop, at any step: the daemon loses what it holds, a truncated file stays truncated.
Stop(p) == /\ pc[p] \notin {"down", "idle"}
           /\ IF p = "daemon"
              THEN /\ Goto(p, "down") /\ left' = {}
                   /\ conf' = [conf EXCEPT ![p] = Blank]
                   /\ loaded' = [loaded EXCEPT ![p] = Blank]
                   /\ cache' = Blank.keys /\ cooling' = FALSE
                   /\ asking' = [a \in Askers |-> {}]
                   /\ UNCHANGED command
              ELSE Done /\ UNCHANGED <<left, running>>
           /\ UNCHANGED <<file, keyring, items, budgets>>

----------------------------------------------------------------------------
(***************************************************************************)
(* The command line.                                                       *)
(***************************************************************************)

\* set-key, for a value the service accepted or could not be asked about.
SetKey(c, s) ==
  /\ pc["cli"] = "idle" /\ commands < MaxCommands
  /\ commands' = commands + 1
  /\ Opens /\ items' = [items EXCEPT ![c] = s]
  /\ command' = c /\ Goto("cli", "loading")
  /\ UNCHANGED <<file, conf, loaded, left, running, starts, edits>>

\* The file is loaded only now, and rewritten only when it holds a plaintext copy.
ForgetPlaintext ==
  /\ pc["cli"] = "loading"
  /\ IF file.keys[command] = NoKey
     THEN Done
     ELSE /\ loaded' = [loaded EXCEPT !["cli"] = file]
          /\ conf' = [conf EXCEPT !["cli"] = [file EXCEPT !.keys[command] = NoKey]]
          /\ Goto("cli", "truncating") /\ UNCHANGED command
  /\ UNCHANGED <<file, keyring, items, left, running, budgets>>

\* families --merge --apply, when there is something to merge.
Merge(restore) ==
  /\ pc["cli"] = "idle" /\ commands < MaxCommands
  /\ Additions(file) \cup Removed(file) \cup Conflicts(file) # {}
  /\ commands' = commands + 1
  /\ loaded' = [loaded EXCEPT !["cli"] = file]
  /\ conf' = [conf EXCEPT !["cli"] = Merged(file, restore)]
  /\ command' = IF restore THEN "restore" ELSE "merge"
  /\ Goto("cli", "truncating")
  /\ UNCHANGED <<file, keyring, items, left, running, starts, edits>>

Truncate == /\ pc["cli"] = "truncating"
            /\ file' = Blank /\ Goto("cli", "writing")
            /\ UNCHANGED <<keyring, items, memory, left, running, budgets>>

----------------------------------------------------------------------------
(***************************************************************************)
(* The user and the keyring.                                               *)
(***************************************************************************)

\* The user writes a credential into the file, or removes or replaces an alias.
Edit == /\ edits < MaxEdits /\ edits' = edits + 1
        /\ \/ \E c \in Credentials, s \in Secrets : file' = [file EXCEPT !.keys[c] = s]
           \/ \E l \in Labels, a \in {"none", "own"} : file' = [file EXCEPT !.alias[l] = a]
        /\ UNCHANGED <<keyring, items, pc, memory, left, running, starts, commands>>

\* A provider claims the bus name, with the collection sealed or not; it is sealed again.
KeyringChanges == /\ \/ keyring = "absent" /\ keyring' \in {"locked", "open"}
                     \/ keyring = "open" /\ keyring' = "locked"
                  /\ UNCHANGED <<file, items, pc, memory, left, running, budgets>>

----------------------------------------------------------------------------
(***************************************************************************)
(* A running daemon that lacks a credential.                               *)
(***************************************************************************)

Missing == {c \in Credentials : cache[c] = NoKey}

\* Cache::refresh starts its cooldown before it asks. The scanner waits for the key of
\* CivitAI; a request asks when the credential it needs is missing.
Ask(a) == /\ pc["daemon"] = "up" /\ asking[a] = {} /\ ~cooling
          /\ IF a = "scanner" THEN "civitai" \in Missing ELSE Missing # {}
          /\ asking' = [asking EXCEPT ![a] = Missing]
          /\ cooling' = TRUE
          /\ UNCHANGED <<file, keyring, items, pc, memory, left, cache, budgets>>

Answer(a) == /\ asking[a] # {}
             /\ \/ /\ Opens
                   /\ cache' = [c \in Credentials |->
                                  IF c \in asking[a] /\ items[c] # NoKey THEN items[c]
                                  ELSE cache[c]]
                \/ Refuses /\ UNCHANGED cache
             /\ asking' = [asking EXCEPT ![a] = {}]
             /\ UNCHANGED <<file, items, pc, memory, left, cooling, budgets>>

\* A slip: one refresh for the life of the process.
CooldownForever == FALSE /\ UNCHANGED settingsVars

CooldownEnds == /\ cooling /\ cooling' = FALSE
                /\ UNCHANGED <<file, keyring, items, pc, memory, left, cache, asking, budgets>>

----------------------------------------------------------------------------
SettingsInit ==
  /\ file \in {Blank, [Blank EXCEPT !.keys["civitai"] = CHOOSE s \in Secrets : TRUE],
               [Blank EXCEPT !.seeded = TRUE]}
  /\ keyring \in {"absent", "open"}
  /\ items = [c \in Credentials |-> NoKey]
  /\ pc = [p \in Writers |-> IF p = "daemon" THEN "down" ELSE "idle"]
  /\ conf = [p \in Writers |-> Blank] /\ loaded = [p \in Writers |-> Blank]
  /\ left = {} /\ command = "none"
  /\ cache = Blank.keys /\ asking = [a \in Askers |-> {}] /\ cooling = FALSE
  /\ starts = 0 /\ commands = 0 /\ edits = 0

SettingsNext ==
  \/ Start \/ OpenStore \/ Strip \/ Stripped \/ Save
  \/ \E c \in Credentials : ResolveNext(c) \/ StoreNext(c)
  \/ \E p \in Writers : Write(p) \/ Stop(p)
  \/ \E c \in Credentials, s \in Secrets : SetKey(c, s)
  \/ ForgetPlaintext \/ Truncate \/ \E restore \in BOOLEAN : Merge(restore)
  \/ Edit \/ KeyringChanges \/ CooldownEnds
  \/ \E a \in Askers : Ask(a) \/ Answer(a)

\* The scanner polls for as long as it has no key, an asked keyring answers, time passes.
SettingsFairness ==
  /\ WF_settingsVars(Ask("scanner")) /\ WF_settingsVars(CooldownEnds)
  /\ \A a \in Askers : WF_settingsVars(Answer(a))

----------------------------------------------------------------------------
DaemonStages == {"down", "opening", "moving", "storing", "stripped", "saving", "writing", "up"}
CliStages == {"idle", "loading", "truncating", "writing"}

SettingsTypeOK ==
  /\ file \in Config /\ keyring \in {"absent", "locked", "open"}
  /\ items \in [Credentials -> Key] /\ cache \in [Credentials -> Key]
  /\ conf \in [Writers -> Config] /\ loaded \in [Writers -> Config]
  /\ pc \in [Writers -> DaemonStages \cup CliStages]
  /\ pc["daemon"] \in DaemonStages /\ pc["cli"] \in CliStages
  /\ left \subseteq Credentials /\ command \in Credentials \cup {"none", "merge", "restore"}
  /\ asking \in [Askers -> SUBSET Credentials] /\ cooling \in BOOLEAN
  /\ left # {} => pc["daemon"] \in {"moving", "storing"}
  /\ (\E a \in Askers : asking[a] # {}) => pc["daemon"] = "up"
  /\ starts \in 0 .. MaxStarts /\ commands \in 0 .. MaxCommands /\ edits \in 0 .. MaxEdits

Writing(p) == pc[p] \in {"stripped", "writing"}

Held(c) == \/ file.keys[c] # NoKey
           \/ items[c] # NoKey
           \/ \E p \in Writers : Writing(p) /\ conf[p].keys[c] # NoKey

\* This step of p replaces a file that is not the one p knows.
Overwrites(p) == /\ pc'[p] # pc[p] /\ file' # file
                 /\ file # IF Writing(p) THEN Blank ELSE loaded[p]

\* A credential that is in the file or in the keyring leaves the last place that holds
\* it only when a writer is stopped between truncating the file and writing it, or when
\* one writes over a file another has changed since it was loaded: moving it into the
\* keyring, failing to, and forgetting it never lose it (config.rs:304-339, :345-352).
KeysAreKept ==
  [][\A c \in Credentials :
       Held(c) /\ ~Held(c)' =>
         \E p \in Writers : \/ Overwrites(p)
                            \/ Writing(p) /\ pc'[p] \in {"down", "idle"} /\ UNCHANGED file]_settingsVars

\* Once the aliases are the user's, no save changes an alias the user set, none brings
\* back one the user removed unless the command asked for it, and none forgets a default
\* that was merged: of the starting daemon, of a merge, of a forgotten credential, alone
\* or one after the other (config.rs:161-231).
AliasesAreTheUsers ==
  \A p \in Writers : loaded[p].seeded =>
    /\ loaded[p].baseline \subseteq conf[p].baseline
    /\ \A l \in Labels : conf[p].alias[l] # loaded[p].alias[l] =>
         /\ loaded[p].alias[l] = "none"
         /\ l \in loaded[p].baseline => p = "cli" /\ command = "restore"

\* A credential that is in an open keyring reaches the daemon that runs without it, with
\* no restart, however its scan and its requests share the cooldown (secrets.rs:112-157).
KeyReachesDaemon ==
  <>[](pc["daemon"] = "up" /\ keyring = "open" /\ items["civitai"] # NoKey)
    => <>[](cache["civitai"] # NoKey)

----------------------------------------------------------------------------
(* Why the safety properties hold: the inductive invariant of              *)
(* SettingsProofs.                                                         *)

\* A credential a writer has taken out of its copy is in the keyring.
MovedKeysAreStored ==
  \A p \in Writers, c \in Credentials :
    loaded[p].keys[c] # NoKey /\ conf[p].keys[c] = NoKey => items[c] # NoKey

\* What is about to be stored is a value, and what is forgotten was stored.
StoresAreValues ==
  /\ pc["daemon"] = "storing" =>
       \E c \in left : /\ c = "huggingface" => "civitai" \notin left
                       /\ conf["daemon"].keys[c] # NoKey
  /\ pc["cli"] = "loading" => command \in Credentials /\ items[command] # NoKey

\* A copy never forgets that it was seeded, and a command that has not loaded the file
\* has no copy.
CopiesFollow ==
  /\ \A p \in Writers : loaded[p].seeded => conf[p].seeded
  /\ pc["cli"] \in {"idle", "loading"} => conf["cli"] = loaded["cli"]

SettingsInv ==
  /\ SettingsTypeOK
  /\ MovedKeysAreStored /\ StoresAreValues /\ CopiesFollow /\ AliasesAreTheUsers

SettingsSpec == SettingsInit /\ [][SettingsNext]_settingsVars

=============================================================================
