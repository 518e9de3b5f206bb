------------------------------ MODULE Sources ------------------------------
(***************************************************************************)
(* What a job downloads and the evidence its placement rests on            *)
(* (resolve_version, resolve_huggingface and placement_evidence in         *)
(* daemon/downloader.rs, the header of the file in safetensor.rs). A job   *)
(* that is downloaded again is resolved again, from the row the first      *)
(* download has written its placement into.                                *)
(*                                                                         *)
(* CivitAI is a model with a sequence of versions, the newest first, each  *)
(* with files; HuggingFace is a file with the directory it lies in. Names, *)
(* links and hashes are tokens; previews and the text of errors are left   *)
(* out.                                                                    *)
(***************************************************************************)
EXTENDS Placement

\* The value of an option, or what stands for its absence.
Head1(s) == IF s = <<>> THEN {} ELSE {Head(s)}

\* The preferred file if it is there, else the primary one, else the first.
SelectFile(files, preferred) ==
  FirstOf(<<Head1(SelectSeq(files, LAMBDA f : {f.name} = preferred)),
            Head1(SelectSeq(files, LAMBDA f : f.primary)),
            Head1(files)>>)

\* ModelType::models_subdir.
Subdir(type) ==
  CASE type = "Checkpoint" -> <<"checkpoints">>
    [] type = "TextualInversion" -> <<"embeddings">>
    [] type \in {"LORA", "LoCon"} -> <<"loras">>
    [] type = "Controlnet" -> <<"controlnet">>
    [] type = "VAE" -> <<"vae">>
    [] type = "Upscaler" -> <<"upscale_models">>
    [] OTHER -> <<"other">>

\* The version a job of CivitAI means: its own, or the newest one that may be taken.
VersionOf(version, model, skipEarlyAccess) ==
  IF version # {}
  THEN Head1(SelectSeq(model.versions, LAMBDA v : {v.id} = version))
  ELSE Head1(SelectSeq(model.versions, LAMBDA v : ~(skipEarlyAccess /\ v.earlyAccess)))

Failed == [error |-> TRUE, url |-> {}, hash |-> {}, role |-> {}, base |-> {}, name |-> {}]

\* The answer about a version repeats the family of the model's list, or is all there is;
\* the type of the model is known from the model, or from the version when it names one.
ResolveCivitai(job, model, skipEarlyAccess) ==
  LET found == VersionOf(job.version, model, skipEarlyAccess)
      version == The(found)
      file == SelectFile(version.files, job.preferred)
  IN  IF found = {} \/ SelectFile(The(found).files, job.preferred) = {} \/ The(file).url = {}
      THEN Failed
      ELSE [error |-> FALSE,
            url |-> The(file).url, hash |-> The(file).hash, name |-> {The(file).name},
            role |-> IF job.model # {} \/ version.namesModel THEN {Subdir(model.type)} ELSE {},
            base |-> IF job.model # {} /\ job.version # {}
                     THEN FirstOf(<<version.listedBase, version.base>>)
                     ELSE IF job.model # {} THEN version.listedBase ELSE version.base]

\* The last directory of the file in its repository, when it names a role.
RoleOfDir(dir, roles) ==
  LET named == SelectSeq(dir, LAMBDA part : part # "")
  IN  IF named = <<>> \/ Last(named) \notin roles THEN {} ELSE {<<Last(named)>>}

\* The listing of the repository may fail: the file is then downloaded unverified.
ResolveHuggingface(job, file, roles) ==
  [error |-> FALSE,
   url |-> {file.url}, hash |-> IF file.listed THEN file.hash ELSE {}, name |-> {file.name},
   role |-> FirstOf(<<job.modelType, RoleOfDir(file.dir, roles)>>),
   base |-> {}]

\* A link that names neither is downloaded as it stands.
ResolveLink(job) ==
  [error |-> FALSE, url |-> {job.url}, hash |-> {}, role |-> {}, base |-> {}, name |-> {}]

----------------------------------------------------------------------------
(* The evidence. *)

\* A slip: the role that was recorded stands for a declaration.
RecordedDeclares(job, resolution) ==
  [override |-> job.roleOverride, declared |-> FirstOf(<<job.declaredRole, job.modelType>>),
   inferred |-> FirstOf(<<resolution.role, job.modelType>>),
   rawFamily |-> resolution.base]

RoleEvidence(job, resolution) ==
  [override |-> job.roleOverride, declared |-> job.declaredRole,
   inferred |-> FirstOf(<<resolution.role, job.modelType>>),
   rawFamily |-> resolution.base]

FamilyEvidence(job, resolution) ==
  [override |-> job.familyOverride, specific |-> resolution.base,
   umbrella |-> {}, labels |-> job.templateFamilies]

\* What the kinds of the tensors named by a safetensors header tell; nothing is known of
\* a header that could not be read, ...
Inspected(format, header) ==
  LET tensors == The(header)
  IN  IF format # "safetensors" \/ header = {}
      THEN [gguf |-> format = "gguf", bundles |-> {}, standaloneVae |-> FALSE]
      ELSE [gguf |-> FALSE,
            bundles |-> {tensors \cap {"vae", "clip"} # {}},
            standaloneVae |-> "decoder" \in tensors /\ "diffusion" \notin tensors]

\* ... and before the transfer nothing is known at all.
Uninspected == Inspected("none", {})

Place(job, resolution, content, aliases) ==
  Resolve(RoleEvidence(job, resolution), content, FamilyEvidence(job, resolution), aliases)

\* Catalog::record_placement, of what the next resolution reads of the row.
Recorded(job, placement) == [job EXCEPT !.modelType = {placement.role}]

\* resolve_version, by what the job names.
Resolution(job, source) ==
  IF source.kind = "huggingface" THEN ResolveHuggingface(job, source.file, source.roles)
  ELSE IF job.version = {} /\ job.model = {} THEN ResolveLink(job)
  ELSE ResolveCivitai(job, source.model, source.skipEarlyAccess)

----------------------------------------------------------------------------
\* A job that is downloaded again, from a row that now holds the role the first download
\* came to, files the same content into the same directory, and a role that was inferred
\* is not taken for a declaration the second time; a declared role stands whatever the
\* source says and the file holds (downloader.rs:1106-1129, placement.rs:252-289).
PlacementLasts(job, source, content, aliases) ==
  LET resolution == Resolution(job, source)
      first == Place(job, resolution, content, aliases)
      row == Recorded(job, first)
      again == Place(row, Resolution(row, source), content, aliases)
      declared(p) == p.roleSource \in Declarations
  IN  ~resolution.error /\ ~first.error =>
        /\ again.dir = first.dir
        /\ declared(again) = declared(first)
        /\ declared(first) => {first.role} = FirstOf(<<job.roleOverride, job.declaredRole>>)
=============================================================================
