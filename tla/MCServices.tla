----------------------------- MODULE MCServices -----------------------------
(***************************************************************************)
(* A small instance of everything around the queue. Each behaviour is one  *)
(* of the machines (the settings, the listing of a directory, the cache of *)
(* the index, the connections, the picker) with the others at rest, or     *)
(* asks one question of a pure algorithm: a state with an input, from      *)
(* which no step leads.                                                    *)
(* The states are the sum of those of the parts and not their product.     *)
(***************************************************************************)
EXTENDS Settings, Fetching, IndexCache, Connections, Templates, CommandLine

VARIABLES service, input

vars == <<service, input, settingsVars, fetchingVars, cacheVars, connectionVars, pickerVars>>

Machines == {"settings", "fetching", "cache", "connections", "picker"}

----------------------------------------------------------------------------
(* Inputs. *)

\* What the directory listed has on its pages, one of them empty.
ThreePages == <<<<"f1", "f2">>, <<>>, <<"f3">>>>

\* The rows of the picker, of two texts each.
FourRows == <<{<<"f">>, <<"x">>}, {<<"f", "F">>, <<>>}, {<<"x", "f">>, <<>>}, {<<"F", "f">>, <<"x">>}>>

Opt(S) == {{}} \cup {{s} : s \in S}

Texts == UNION {[1 .. n -> Characters] : n \in 0 .. 3}
Spellings == {<<"n">>, <<"x">>, <<"n", "/", "x">>}
Targets == {<<"n">>, <<"x">>, <<"x", "n">>, <<"n", "n">>, <<".">>}
Tables == UNION {[S -> Targets] : S \in SUBSET Spellings}

Families == {<<"n">>, <<"x">>}
Downloads == <<[name |-> "main", primary |-> FALSE, url |-> {"u1"}, hash |-> {"h1"}],
               [name |-> "vae", primary |-> TRUE, url |-> {"u2"}, hash |-> {}]>>
Version(id, early, base, listed, named) ==
  [id |-> id, earlyAccess |-> early, files |-> Downloads, base |-> base,
   listedBase |-> listed, namesModel |-> named]
Models == {[type |-> type, versions |-> <<Version(2, TRUE, {}, {}, TRUE),
                                          Version(1, FALSE, base, listed, named)>>] :
             type \in {"Checkpoint", "LORA", "Poses"}, base \in Opt(Families),
             listed \in Opt({<<"n">>}), named \in BOOLEAN}
Repositories == [url : {"u3"}, name : {"main"}, hash : {{"h3"}}, listed : BOOLEAN,
                 dir : {<<>>, <<"split", "vae", "">>, <<"checkpoints">>, <<"prose">>}]
Offers == [kind : {"civitai"}, model : Models, skipEarlyAccess : {TRUE}]
          \cup [kind : {"huggingface"}, file : Repositories, roles : {{"vae", "checkpoints"}}]
Jobs == {[url |-> "u0", version |-> version, model |-> model, preferred |-> {"main"},
          roleOverride |-> over, declaredRole |-> declared, modelType |-> type,
          familyOverride |-> family, templateFamilies |-> labels] :
           version \in Opt({1}), model \in Opt({1}), over \in Opt({<<"loras", "new">>}),
           declared \in Opt({<<"vae">>, <<"..", "vae">>}), type \in Opt({<<"checkpoints">>}),
           family \in Opt({<<"x", ".">>}), labels \in {<<>>, <<<<"n">>>>, <<<<"n">>, <<"x">>>>}}
Contents == {Inspected(format, header) :
               format \in {"safetensors", "gguf", "pt"},
               header \in {{}, {{"diffusion"}}, {{"diffusion", "vae"}}, {{"decoder"}}}}
SomeTables == {<<>>, (<<"n">> :> <<"x", "n">>)}

Link(host, kind, action, dir, leaf) ==
  [host |-> host, kind |-> kind, action |-> action, dir |-> dir, file |-> leaf]
Links == {Link("huggingface", "model", action, <<"vae">>, "a") : action \in {"resolve", "blob"}}
         \cup {Link("huggingface", "model", "resolve", <<>>, "b"),
               Link("huggingface", "datasets", "resolve", <<>>, "b"),
               Link("github", "model", "blob", <<>>, "b")}
SomeMentions == [link : Links, heading : Opt({"VAE", "Diffusion Models", "Notes"})]
Workflows == [nodes : SeqOf(SomeMentions, 2), notes : SeqOf(SomeMentions, 1)]

Listings == [dir \in {<<"vae">>, <<>>} |-> IF dir = <<>> THEN {} ELSE {{[file |-> "a", size |-> 4]}}]
Urls == {[dir |-> <<"vae">>, file |-> "a"], [dir |-> <<>>, file |-> "b"]}
SomeBundles == [models : SeqOf([url : Urls, role : {"vae", "loras"}], 2),
                families : {<<>>, <<<<"n">>>>, <<<<"x">>, <<"n">>>>}]

Raw(name, apiName, title, tags, models) ==
  [name |-> name, apiName |-> apiName, title |-> title, tags |-> tags, models |-> models]
Index == <<EntryOf("image", Raw(<<"n", "x">>, FALSE, {<<"x", " ", "n">>}, <<<<"n">>>>, <<<<"n", "x">>>>)),
           EntryOf("video", Raw(<<"n">>, FALSE, {}, <<>>, <<<<"x">>, <<"None">>, <<"n">>>>)),
           EntryOf("audio", Raw(<<"x">>, TRUE, {}, <<<<"x", "n">>>>, <<>>))>>
Filters == [api : BOOLEAN, kinds : {{}, {"video", "audio"}}, names : {{}}, tasks : {{}, {<<"n">>}},
            families : {{}, {<<"x">>}}, text : {<<>>, <<"x", "n">>}]
Fetched == Opt({[nodes |-> <<>>, notes |-> <<>>],
                [nodes |-> <<>>, notes |-> <<[link |-> Link("huggingface", "model", "blob",
                                                            <<"vae">>, "a"),
                                              heading |-> {"Diffusion Models"}]>>]})

InputsOf(question) ==
  CASE question = "label" -> [label : Texts, aliases : Tables]
    [] question = "job" -> [job : Jobs, source : Offers]
    [] question = "workflow" -> [workflow : Workflows]
    [] question = "selection" -> [bundles : SeqOf(SomeBundles, 2), spared : 0 .. 2]
    [] question = "pages" -> [total : 0 .. 9, perPage : 0 .. 10]
    [] question = "estimate" -> [compute : 0 .. Cap, offloadable : 0 .. Cap,
                                 kind : {"image", "video", "llm"}]
    [] question = "listing" -> [filter : Filters, workflows : [{Index[i].name : i \in 1 .. 3} -> Fetched],
                                configured : Opt({7}), sysfs : {{}, {0}, {1}},
                                smi : {{}, {12}}, all : BOOLEAN]
    [] OTHER -> [none : {0}]

Questions == {"label", "job", "workflow", "selection", "estimate", "listing", "pages"}

----------------------------------------------------------------------------
Init ==
  /\ service \in Machines \cup Questions
  /\ input \in InputsOf(service)
  /\ SettingsInit /\ FetchingInit /\ CacheInit /\ ConnectionsInit /\ PickerInit
  /\ service # "settings" => file = Blank /\ keyring = "absent"
  /\ service # "connections" => queue = <<>>

Next ==
  /\ UNCHANGED <<service, input>>
  /\ \/ /\ service = "settings" /\ SettingsNext
        /\ UNCHANGED <<fetchingVars, cacheVars, connectionVars, pickerVars>>
     \/ /\ service = "fetching" /\ FetchingNext
        /\ UNCHANGED <<settingsVars, cacheVars, connectionVars, pickerVars>>
     \/ /\ service = "cache" /\ CacheNext
        /\ UNCHANGED <<settingsVars, fetchingVars, connectionVars, pickerVars>>
     \/ /\ service = "connections" /\ ConnectionsNext
        /\ UNCHANGED <<settingsVars, fetchingVars, cacheVars, pickerVars>>
     \/ /\ service = "picker" /\ PickerNext
        /\ UNCHANGED <<settingsVars, fetchingVars, cacheVars, connectionVars>>

Spec == Init /\ [][Next]_vars /\ SettingsFairness /\ ConnectionsFairness

----------------------------------------------------------------------------
\* Every variable of every machine has its type, and what the machines' own safety
\* properties rest on holds: what a writer took out of its copy is in the keyring
\* (config.rs:304-339), what is kept of the index is one but for a write under way or the
\* damage of one (templates/mod.rs:571), a client has one request with the daemon
\* (client.rs:19-30), and the cursor is on a row that is drawn (cli/mod.rs:934-948).
ServicesInv == SettingsInv /\ FetchingTypeOK /\ CacheInv /\ ConnectionsInv /\ PickerInv

\* The algorithms, each on its inputs; the comments are with the definitions.

\* A family is one folder, whatever it is called, and accepted aliases lead all spellings
\* of it to one (placement.rs:198-232, :291-368).
FamiliesAreFolders ==
  service = "label" => /\ LabelIsComponent(input.label, input.aliases)
                       /\ AliasesConverge(input.aliases)

\* Downloading again files the same content where it was (downloader.rs:1106-1129).
PlacementsLast ==
  service = "job" => \A content \in Contents, aliases \in SomeTables :
                       PlacementLasts(input.job, input.source, content, aliases)

\* Nodes declare, notes only add, and no file is listed twice (templates/mod.rs:331-395).
WorkflowsDeclare == service = "workflow" => NodesDecide(input.workflow)

\* A file that templates share is queued once and filed under no family it is not the
\* only one of (cli/mod.rs:1230-1280).
SharedFilesAreNobodys ==
  service = "selection" =>
    SharedFilesAbstain(input.bundles, DOMAIN input.bundles \ {input.spared}, Listings)

\* Every model is on one page of the list (cli/mod.rs:250-275).
PagesPartition == service = "pages" => PagesCover(input.total, input.perPage)

\* The estimate grows with the weights and falls with the card (vram.rs:98-127).
EstimatesAreMonotone ==
  service = "estimate" => HeavierIsHarder(input.compute, input.offloadable, input.kind)

\* What a listing hides is what cannot run, and it says how much (templates/mod.rs:225-238).
ListingsAccount ==
  service = "listing" =>
    ListingAccounts(Index, input.filter, input.workflows, Listings,
                    Vram(input.configured, input.sysfs, input.smi), input.all)
=============================================================================
