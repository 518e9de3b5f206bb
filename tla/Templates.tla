----------------------------- MODULE Templates -----------------------------
(***************************************************************************)
(* The workflow templates of ComfyUI: from the files a workflow names to   *)
(* what is offered and what is queued (templates/mod.rs, vram.rs, gpu.rs,  *)
(* list_templates in daemon/mod.rs, queue_items_for in cli/mod.rs).        *)
(*                                                                         *)
(* A workflow has mentions of files, by its nodes with a directory and by  *)
(* its notes under a heading. A link has the host, the kind of repository, *)
(* the action, the directory and the name that its address is made of; the *)
(* repository and the revision are one. Sizes are numbers up to Cap, which *)
(* stands for the largest of 64 bits; labels are those of Placement.       *)
(***************************************************************************)
EXTENDS Sources, FiniteSets, FiniteSetsExt

CONSTANT Cap   \* the largest size a number of the program can hold

ASSUME CapAssumption == Cap \in Nat

Saturated(n) == IF n > Cap THEN Cap ELSE n

\* A slip: the sum wraps around.
WrappingPlus(a, b) == (a + b) % (Cap + 1)

Plus(a, b) == Saturated(a + b)

----------------------------------------------------------------------------
(* The files of a workflow. *)

ComputeRoles == {"checkpoints", "diffusion_models", "loras", "controlnet"}

\* normalize_role: some headings have a role, a lower case word is a directory of its
\* own, and anything else (prose, an input) names none.
RoleOfHeading(heading) ==
  CASE heading \in {"Diffusion Models", "unet"} -> {"diffusion_models"}
    [] heading \in {"VAE", "vae"} -> {"vae"}
    [] heading \in {"checkpoints", "loras", "detection"} -> {heading}
    [] OTHER -> {}

\* parse_hf_url: a file of a model repository, and the one address it is downloaded from
\* (resolve_url), whichever page of it was linked.
Reference(link) ==
  IF /\ link.host = "huggingface" /\ link.kind = "model" /\ link.action \in {"resolve", "blob"}
     /\ "" \notin Range(link.dir)
  THEN {[dir |-> link.dir, file |-> link.file]} ELSE {}

\* role_from_path: the directory the file lies in.
RoleOfPath(url) == IF url.dir = <<>> THEN {} ELSE RoleOfHeading(Last(url.dir))

\* push_unique: the first mention of a file counts.
PushUnique(models, url, heading) ==
  IF \E i \in DOMAIN models : models[i].url = url THEN models
  ELSE Append(models,
              [url |-> url,
               role |-> The(FirstOf(<<IF heading = {} THEN {} ELSE RoleOfHeading(The(heading)),
                                      RoleOfPath(url), {"other"}>>))])

Found(models, mention) ==
  LET reference == Reference(mention.link)
  IN  IF reference = {} THEN models ELSE PushUnique(models, The(reference), mention.heading)

Mentions(models, mentions) ==
  LET found[n \in 0 .. Len(mentions)] ==
        IF n = 0 THEN models ELSE Found(found[n - 1], mentions[n])
  IN  found[Len(mentions)]

\* A slip: the notes are read first.
NotesFirst(workflow) == Mentions(Mentions(<<>>, workflow.notes), workflow.nodes)

\* parse_workflow_models: what the nodes declare, then what the notes add. A line of a
\* note is under the heading before it, which may name no role.
WorkflowModels(workflow) == Mentions(Mentions(<<>>, workflow.nodes), workflow.notes)

----------------------------------------------------------------------------
(* Selection. Each part of a filter that is empty matches everything. *)

\* parse_index, of a template in a category of a kind: it has no title of its own but its
\* name when none is given, and the family "None" is none.
EntryOf(kind, raw) ==
  [name |-> raw.name, kind |-> kind, tags |-> raw.tags,
   title |-> IF raw.title = {} THEN raw.name ELSE The(raw.title),
   api |-> raw.apiName \/ <<"api">> \in Range(raw.tags),
   families |-> SelectSeq(raw.models, LAMBDA m : m # <<"None">>)]

Folded(label) == SelectSeq(label, LAMBDA c : c \in Letters)

\* Only letters count, and a word matches wherever it stands.
Mentioned(label, word) ==
  LET text == Folded(label)
      folded == Folded(word)
  IN  \E i \in 0 .. Len(text) - Len(folded) : SubSeq(text, i + 1, i + Len(folded)) = folded

Matches(filter, entry) ==
  /\ entry.api => filter.api
  /\ filter.kinds # {} => entry.kind \in filter.kinds
  /\ filter.names # {} => entry.name \in filter.names
  /\ filter.tasks # {} =>
       \E task \in filter.tasks, tag \in Range(entry.tags) : Mentioned(tag, task)
  /\ filter.families # {} =>
       \E family \in filter.families, label \in {entry.name} \cup Range(entry.families) :
         Mentioned(label, family)
  /\ Mentioned(entry.name \o entry.title \o FlattenSeq(entry.tags \o entry.families), filter.text)

----------------------------------------------------------------------------
(* The estimate, in halves of a GiB. *)

Headroom(kind) ==
  CASE kind = "video" -> 6
    [] kind \in {"audio", "llm"} -> 2
    [] OTHER -> 3

Reserve == 2

\* What the weights take with 8% of overhead, rounded up.
Needed(weights, kind) ==
  Plus(Plus(Saturated((27 * weights + 24) \div 25), Headroom(kind)), Reserve)

\* resolve_sizes: each directory is listed once for all the files in it; a listing is
\* an option of the set of its entries, and a file not listed has no size.
SizeOf(listings, url) ==
  IF listings[url.dir] = {} THEN {}
  ELSE {entry.size : entry \in {e \in The(listings[url.dir]) : e.file = url.file}}

Known(size) == IF size = {} THEN 0 ELSE The(size)

\* requirement_for, of the models whose size is known.
Weights(models, listings, wanted(_)) ==
  FoldLeft(LAMBDA sum, m : IF wanted(m) THEN Plus(sum, Known(SizeOf(listings, m.url))) ELSE sum,
           0, models)

Requirement(models, listings) ==
  [compute |-> Weights(models, listings, LAMBDA m : m.role \in ComputeRoles),
   offloadable |-> Weights(models, listings, LAMBDA m : m.role \notin ComputeRoles)]

Classify(requirement, vram, kind) ==
  IF Needed(Plus(requirement.compute, requirement.offloadable), kind) <= vram
  THEN "comfortable"
  ELSE IF Needed(requirement.compute, kind) <= vram THEN "cpu_offload" ELSE "wont_run"

\* The memory of the largest card: what the user configured, else what the kernel
\* reports of the cards that have any, else what nvidia-smi says.
Vram(configured, sysfs, smi) ==
  LET largest(cards) == IF cards \ {0} = {} THEN {} ELSE {Max(cards \ {0})}
  IN  FirstOf(<<configured, largest(sysfs), largest(smi)>>)

----------------------------------------------------------------------------
(* The listing and the queue. *)

Bundle(entry, models, listings, vram) ==
  [name |-> entry.name, families |-> entry.families, models |-> models,
   feasibility |-> IF vram = {} THEN {}
                   ELSE {Classify(Requirement(models, listings), The(vram), entry.kind)}]

\* A template whose workflow cannot be fetched is skipped.
Bundles(entries, workflows, listings, vram) ==
  LET fetched == Keeping(entries, {e \in Range(entries) : workflows[e.name] # {}})
  IN  [i \in DOMAIN fetched |->
         Bundle(fetched[i], WorkflowModels(The(workflows[fetched[i].name])), listings, vram)]

Offered(bundle) == bundle.models # <<>>
Runs(bundle) == bundle.feasibility # {"wont_run"}

\* A slip: a template that ships no weights is counted as one that cannot run.
PrunedTogether(bundles, includeUnrunnable) ==
  LET offered == {b \in Range(bundles) : Offered(b)}
      kept == Keeping(bundles, {b \in offered : includeUnrunnable \/ Runs(b)})
  IN  [bundles |-> kept, hidden |-> Len(bundles) - Len(kept)]

\* prune_bundles: what is offered, and how many were hidden because they cannot run.
Pruned(bundles, includeUnrunnable) ==
  LET offered == {b \in Range(bundles) : Offered(b)}
      kept == Keeping(bundles, {b \in offered : includeUnrunnable \/ Runs(b)})
  IN  [bundles |-> kept, hidden |-> Len(Keeping(bundles, offered)) - Len(kept)]

ListTemplates(index, filter, workflows, listings, vram, includeUnrunnable) ==
  Pruned(Bundles(Keeping(index, {e \in Range(index) : Matches(filter, e)}),
                 workflows, listings, vram),
         includeUnrunnable)

\* run_templates: what is shown may be limited to what fits, or is not judged.
Shown(bundles, comfortableOnly) ==
  Keeping(bundles, {b \in Range(bundles) :
                      comfortableOnly => b.feasibility \in {{}, {"comfortable"}}})

\* A slip: the families of the first template that asks for a file stand.
FirstFamilies(families, labels) == IF families = {} THEN Range(labels) ELSE families

\* merge_families: a sorted list without repetition.
MergeFamilies(families, labels) == families \cup Range(labels)

SamePlacement(item, model) == item.url = model.url /\ item.role = model.role

Joined(item, model, bundle) ==
  IF SamePlacement(item, model)
  THEN [item EXCEPT !.families = MergeFamilies(@, bundle.families)] ELSE item

Asked(queue, model, bundle, listings) ==
  IF \E i \in DOMAIN queue.items : SamePlacement(queue.items[i], model)
  THEN [queue EXCEPT !.items = [i \in DOMAIN @ |-> Joined(@[i], model, bundle)]]
  ELSE [items |-> Append(queue.items, [url |-> model.url, role |-> model.role,
                                       families |-> MergeFamilies({}, bundle.families)]),
        bytes |-> queue.bytes + Known(SizeOf(listings, model.url))]

\* Each file of a template in turn.
AskedBy(queue, bundle, listings) ==
  LET asked[n \in 0 .. Len(bundle.models)] ==
        IF n = 0 THEN queue ELSE Asked(asked[n - 1], bundle.models[n], bundle, listings)
  IN  asked[Len(bundle.models)]

\* queue_items_for: one item for a file in a role, however many of the templates that
\* were selected ask for it.
QueueItems(bundles, selected, listings) ==
  LET queue[n \in 0 .. Len(bundles)] ==
        IF n = 0 THEN [items |-> <<>>, bytes |-> 0]
        ELSE IF n \in selected THEN AskedBy(queue[n - 1], bundles[n], listings)
        ELSE queue[n - 1]
  IN  queue[Len(bundles)]

\* AddDownloads: the role is what a template declared, the families its evidence.
QueuedJob(item) ==
  [url |-> item.url, version |-> {}, model |-> {}, preferred |-> {}, roleOverride |-> {},
   familyOverride |-> {}, declaredRole |-> {<<item.role>>}, modelType |-> {<<item.role>>},
   templateFamilies |-> SetToSeq(item.families)]

----------------------------------------------------------------------------
\* A workflow lists each file once, through whichever of its pages it is linked, and the
\* role the first node declares for a file stands whatever a note, an older list of links,
\* says of it (templates/mod.rs:331-395).
NodesDecide(workflow) ==
  LET models == WorkflowModels(workflow)
      nodes == workflow.nodes
      reference(n) == Reference(nodes[n].link)
  IN  /\ \A i, j \in DOMAIN models : models[i].url = models[j].url => i = j
      /\ \A n \in DOMAIN nodes :
           /\ reference(n) # {} /\ nodes[n].heading # {}
           /\ \A k \in 1 .. n - 1 : reference(k) # reference(n)
           => \E i \in DOMAIN models :
                /\ models[i].url = The(reference(n))
                /\ RoleOfHeading(The(nodes[n].heading)) \in {{}, {models[i].role}}

\* However many templates ask for a file in one role, it is queued and paid for once, and
\* it is filed under a family only if those templates have one family between them: a
\* file that two families share is not taken for either's (cli/mod.rs:1230-1280,
\* placement.rs:307-311).
SharedFilesAbstain(bundles, selected, listings) ==
  LET q == QueueItems(bundles, selected, listings)
      asked == UNION {Range(bundles[b].models) : b \in selected}
      families(item) == UNION {Range(bundles[b].families) : b \in
                          {b \in selected : \E m \in Range(bundles[b].models) :
                             SamePlacement(item, m)}}
      filed(item) == ResolveFamily(FamilyEvidence(QueuedJob(item), [base |-> {}]), <<>>)
  IN  /\ \A m \in asked : \E i \in DOMAIN q.items : SamePlacement(q.items[i], m)
      /\ Len(q.items) = Cardinality(asked)
      /\ q.bytes = MapThenSumSet(LAMBDA m : Known(SizeOf(listings, m.url)), asked)
      /\ \A i \in DOMAIN q.items :
           filed(q.items[i]).source = "single_family_template" =>
             Cardinality(families(q.items[i])) = 1

Rank(feasibility) ==
  CASE feasibility = "comfortable" -> 0 [] feasibility = "cpu_offload" -> 1 [] OTHER -> 2

\* A heavier bundle never runs more easily, and a larger card never makes one run worse,
\* up to the largest number a size can be: sums that no longer fit must not come round to
\* small ones (vram.rs:98-127, templates/mod.rs:146-159).
HeavierIsHarder(compute, offloadable, kind) ==
  \A vram, more \in 0 .. Cap :
    LET rank(c, o, v) == Rank(Classify([compute |-> c, offloadable |-> o], v, kind))
        here == rank(compute, offloadable, vram)
    IN  /\ rank(Saturated(compute + more), offloadable, vram) >= here
        /\ rank(compute, Saturated(offloadable + more), vram) >= here
        /\ rank(compute, offloadable, Saturated(vram + more)) <= here

\* Every template that matches and whose workflow lists a file is offered or counted as
\* hidden, one that lists none is neither; none is hidden where nothing is known of the
\* card or everything was asked for, and none that needs no card is kept from a user who
\* asks for what fits (daemon/mod.rs:529-568, templates/mod.rs:225-238).
ListingAccounts(index, filter, workflows, listings, vram, includeUnrunnable) ==
  LET pruned == ListTemplates(index, filter, workflows, listings, vram, includeUnrunnable)
      offered == {i \in DOMAIN index : /\ Matches(filter, index[i])
                                      /\ workflows[index[i].name] # {}
                                      /\ WorkflowModels(The(workflows[index[i].name])) # <<>>}
      listed(comfortableOnly) == {b.name : b \in Range(Shown(pruned.bundles, comfortableOnly))}
  IN  /\ Len(pruned.bundles) + pruned.hidden = Cardinality(offered)
      /\ vram = {} \/ includeUnrunnable => pruned.hidden = 0
      /\ vram = {} => listed(TRUE) = {index[i].name : i \in offered}
=============================================================================
