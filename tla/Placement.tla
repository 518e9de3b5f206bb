----------------------------- MODULE Placement -----------------------------
(***************************************************************************)
(* Where a file belongs (placement.rs): the role, which is the directory   *)
(* under models/ that a loader looks in, and the family, which is a folder *)
(* a user browses. Everything here is a function of its arguments.         *)
(*                                                                         *)
(* A label is a sequence of characters over a small alphabet: a word "x"   *)
(* that begins the name of a family whose checkpoints stay where they are, *)
(* an ordinary letter "n", a separator, a blank and a dot. "nn" and "n/x" *)
(* are labels the sources use for "no family". A role is the sequence of   *)
(* its parts between separators. An absent value is the empty set and a    *)
(* present one a singleton, so that an empty label is not an absent one.   *)
(***************************************************************************)
EXTENDS Naturals, Sequences, SequencesExt, Subsequences

Separator == "/"
Blank_ == " "
Dot == "."
Letters == {"n", "x"}
Characters == Letters \cup {Separator, Blank_, Dot}

\* Two of SENTINEL_FAMILY_LABELS, one of them with a separator.
Sentinels == {<<"n", "n">>, <<"n", "/", "x">>}

The(option) == CHOOSE v \in option : TRUE

\* What is left when the first of the options that is present is taken.
FirstOf(options) ==
  LET present == {i \in DOMAIN options : options[i] # {}}
  IN  IF present = {} THEN {} ELSE options[Min(present)]

----------------------------------------------------------------------------
(* Labels. *)

Trimmed(label) ==
  LET solid == {i \in DOMAIN label : label[i] # Blank_}
  IN  IF solid = {} THEN <<>>
      ELSE SubSeq(label, Min(solid), Max(solid))

Unsplit(label) == Keeping(label, Characters \ {Separator})

IsSentinel(label) == Trimmed(label) \in Sentinels

Unusable == {<<>>, <<Dot>>, <<Dot, Dot>>}

\* One path component, or nothing when nothing usable remains.
SafeFamily(label) ==
  LET component == Trimmed(Unsplit(label))
  IN  IF component \in Unusable THEN {} ELSE {component}

----------------------------------------------------------------------------
(* The aliases: a function from source labels to browsing labels. *)

\* A slip: chains are accepted.
TargetsUsable(aliases) ==
  \A label \in DOMAIN aliases : SafeFamily(aliases[label]) = {aliases[label]}

AcceptedAliases(aliases) ==
  \A label \in DOMAIN aliases :
    /\ SafeFamily(aliases[label]) = {aliases[label]}
    /\ aliases[label] = label \/ aliases[label] \notin DOMAIN aliases

BrowsingLabel(aliases, label) ==
  IF label \in DOMAIN aliases THEN aliases[label] ELSE label

----------------------------------------------------------------------------
(* Families. *)

Unfiled == [family |-> {}, raw |-> {}, source |-> "unresolved"]

Filed(aliases, label, source) ==
  LET family == SafeFamily(BrowsingLabel(aliases, label))
  IN  IF IsSentinel(label) \/ family = {} THEN Unfiled
      ELSE [family |-> family, raw |-> {label}, source |-> source]

\* evidence.override, .specific and .umbrella are options, .labels the family labels of
\* the template. An override that is no component is an error.
ResolveFamily(evidence, aliases) ==
  IF evidence.override # {}
  THEN LET family == SafeFamily(The(evidence.override))
       IN  [family |-> family, raw |-> {},
            source |-> IF family = {} THEN "invalid" ELSE "user_override"]
  ELSE IF evidence.specific # {}
  THEN Filed(aliases, The(evidence.specific), "file_specific_metadata")
  ELSE IF Len(evidence.labels) = 1
  THEN Filed(aliases, evidence.labels[1], "single_family_template")
  ELSE IF evidence.umbrella # {}
  THEN Filed(aliases, The(evidence.umbrella), "umbrella")
  ELSE Unfiled

----------------------------------------------------------------------------
(* Roles. *)

Declarations == {"user_override", "template_declaration"}

DeclaredRole(evidence) ==
  LET role == FirstOf(<<evidence.override, evidence.declared, evidence.inferred>>)
  IN  [role |-> IF role = {} THEN <<"other">> ELSE The(role),
       source |-> IF evidence.override # {} THEN "user_override"
                  ELSE IF evidence.declared # {} THEN "template_declaration"
                  ELSE IF evidence.inferred # {} THEN "source_metadata"
                  ELSE "unresolved"]

\* Relative, not empty, and never up a directory.
IsSafeRole(role) == role[1] # "" /\ \A i \in DOMAIN role : role[i] # ".."

\* The raw label begins with one of CHECKPOINT_EXCEPTION_PREFIXES when only its letters
\* are read: "x" stands for such a beginning.
KeepsCheckpoint(raw) ==
  raw # {} /\ LET folded == SelectSeq(The(raw), LAMBDA c : c \in Letters)
              IN  folded # <<>> /\ folded[1] = "x"

\* What the source said of the role, corrected by what the file holds.
Corrected(role, content, raw) ==
  LET vaeFirst == IF content.standaloneVae THEN <<"vae">> ELSE role
  IN  IF /\ vaeFirst = <<"checkpoints">>
         /\ content.gguf \/ content.bundles = {FALSE}
         /\ ~KeepsCheckpoint(raw)
      THEN <<"diffusion_models">> ELSE vaeFirst

Resolve(roles, content, families, aliases) ==
  LET declared == DeclaredRole(roles)
      isDeclared == declared.source \in Declarations
      filed == ResolveFamily(families, aliases)
      role == IF isDeclared THEN declared.role
              ELSE Corrected(declared.role, content, roles.rawFamily)
  IN  [error |-> \/ isDeclared /\ ~IsSafeRole(declared.role)
                 \/ filed.source = "invalid",
       role |-> role, roleSource |-> declared.source,
       family |-> filed.family, rawFamily |-> filed.raw, familySource |-> filed.source,
       dir |-> IF filed.family = {} THEN role ELSE Append(role, The(filed.family))]
----------------------------------------------------------------------------
IsComponent(label) ==
  /\ label \notin Unusable /\ Trimmed(label) = label
  /\ \A i \in DOMAIN label : label[i] # Separator

\* The label, in each place of the evidence that a label can come from.
EvidenceOf(label) ==
  LET none == [override |-> {}, specific |-> {}, umbrella |-> {}, labels |-> <<>>]
  IN  {[none EXCEPT !.override = {label}], [none EXCEPT !.specific = {label}],
       [none EXCEPT !.umbrella = {label}], [none EXCEPT !.labels = <<label>>]}

\* Whatever a source or a user calls a family, and whatever the accepted aliases make of
\* it, the folder is one component below the directory of the role; a label that means
\* "no family" makes none unless the user insists (placement.rs:291-368).
LabelIsComponent(label, aliases) ==
  \A evidence \in EvidenceOf(label) :
    LET filed == ResolveFamily(evidence, aliases)
    IN  /\ filed.family # {} => IsComponent(The(filed.family))
        /\ IsSentinel(label) /\ evidence.override = {} => filed.family = {}

\* Under accepted aliases every label of one browsing label files into its folder, and so
\* does that folder's own name when a source reports it: the order in which two spellings
\* are met never splits a family (placement.rs:198-232).
AliasesConverge(aliases) ==
  AcceptedAliases(aliases) =>
    \A label \in DOMAIN aliases :
      LET target == aliases[label]
          Folder(l) == Filed(aliases, l, "file_specific_metadata").family
      IN  /\ ~IsSentinel(label) => Folder(label) = {target}
          /\ ~IsSentinel(target) => Folder(target) = {target}
=============================================================================
