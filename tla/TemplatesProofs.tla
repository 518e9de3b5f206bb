-------------------------- MODULE TemplatesProofs --------------------------
(***************************************************************************)
(* What is listed of the templates of ComfyUI and what is queued of them,  *)
(* over any links, headings, workflows, filters, listings and selections:  *)
(* a workflow's files are found in the order it mentions them, a listing   *)
(* leaves nothing unaccounted for, and a selection queues a shared file    *)
(* once.  The three algorithms go through a sequence and add to a result,  *)
(* as recursive functions.  SomethingIterates gives such a function a      *)
(* value, StepsKeep says what each step keeps holds at its end: each proof *)
(* states what the result has been after k elements, and shows one more.   *)
(***************************************************************************)
EXTENDS ServicesProofs, FiniteSetTheorems

----------------------------------------------------------------------------
(* Recursive functions over a sequence.                                    *)

\* A function on the first numbers is a sequence.
LEMMA FunctionIsSequence ==
    ASSUME NEW T, NEW n \in Nat, NEW f, f = [i \in 1 .. n |-> f[i]], \A i \in 1 .. n : f[i] \in T
    PROVE  f \in Seq(T)
<1>1. f \in [1 .. n -> T]
  OBVIOUS
<1> QED  BY <1>1, SeqDef

\* What a function takes at a number, from what it takes at the number before.
Steps(f, n, start, step) == f[0] = start /\ \A k \in 1 .. n : f[k] = step[k][f[k - 1]]

\* A function that goes on from each number to the next exists up to any number.
LEMMA SomethingIterates ==
    ASSUME NEW n \in Nat, NEW S, NEW start \in S, NEW step \in [1 .. n -> [S -> S]]
    PROVE  \E f \in [0 .. n -> S] : Steps(f, n, start, step)
<1> DEFINE Goes(f, m) == f \in [0 .. m -> S] /\ f[0] = start /\ \A k \in 1 .. m : f[k] = step[k][f[k - 1]]
           without == {m \in 0 .. n : ~\E f : Goes(f, m)}
<1>1. SUFFICES ASSUME without # {} PROVE FALSE
  <2>1. SUFFICES ASSUME without = {} PROVE \E f : Goes(f, n)
    BY DEF Steps
  <2>2. n \in 0 .. n
    OBVIOUS
  <2> HIDE DEF Goes
  <2> QED  BY <2>1, <2>2
<1>2. PICK m \in without : \A k \in without : m <= k
  <2>1. without \in SUBSET Nat
    OBVIOUS
  <2> HIDE DEF without
  <2> QED  BY <1>1, <2>1, LeastNumber
<1>3. CASE m = 0
  <2>1. Goes([k \in 0 .. 0 |-> start], 0)
    OBVIOUS
  <2> QED  BY <1>3, <2>1
<1>4. CASE m # 0
  <2>1. m - 1 \in 0 .. n /\ ~(m <= m - 1) /\ m \in 1 .. n
    BY <1>4
  <2>2. PICK f : Goes(f, m - 1)
    BY <1>2, <2>1
  <2> DEFINE g == [k \in 0 .. m |-> IF k = m THEN step[m][f[m - 1]] ELSE f[k]]
  <2>3. g \in [0 .. m -> S] /\ g[0] = start
    BY <2>1, <2>2
  <2>4. ASSUME NEW k \in 1 .. m PROVE g[k] = step[k][g[k - 1]]
    <3>1. k \in 0 .. m /\ k - 1 \in 0 .. m /\ k - 1 # m
      BY <2>1
    <3>2. g[k - 1] = f[k - 1]
      BY <3>1
    <3>3. CASE k = m
      BY <3>1, <3>2, <3>3
    <3>4. CASE k # m
      <4>1. k \in 1 .. (m - 1)
        BY <2>1, <3>4
      <4>2. f[k] = step[k][f[k - 1]]
        BY <2>2, <4>1
      <4> QED  BY <3>1, <3>2, <3>4, <4>2
    <3> QED  BY <3>3, <3>4
  <2>5. Goes(g, m)
    <3> HIDE DEF g
    <3> QED  BY <2>3, <2>4
  <2> QED  BY <2>5
<1> QED  BY <1>3, <1>4

\* What each step keeps holds all along.
LEMMA StepsKeep ==
    ASSUME NEW n \in Nat, NEW f, NEW kept, f[0] \in kept[0],
           \A k \in 1 .. n : f[k - 1] \in kept[k - 1] => f[k] \in kept[k]
    PROVE  \A k \in 0 .. n : f[k] \in kept[k]
<1> DEFINE odd == {k \in 0 .. n : f[k] \notin kept[k]}
<1>1. SUFFICES ASSUME odd # {} PROVE FALSE
  OBVIOUS
<1>2. PICK m \in odd : \A k \in odd : m <= k
  <2>1. odd \in SUBSET Nat
    OBVIOUS
  <2> HIDE DEF odd
  <2> QED  BY <1>1, <2>1, LeastNumber
<1>3. m # 0
  OBVIOUS
<1>4. m \in 1 .. n /\ m - 1 \in 0 .. n /\ ~(m <= m - 1)
  BY <1>3
<1>5. f[m - 1] \in kept[m - 1]
  BY <1>2, <1>4
<1> QED  BY <1>4, <1>5

----------------------------------------------------------------------------
(* The files of a workflow.                                                *)

\* The roles a file is given.
SomeRoles == {"diffusion_models", "vae", "checkpoints", "loras", "detection", "other"}

\* A heading or a directory names one role or none.
LEMMA RolesOfHeadings ==
    ASSUME NEW heading
    PROVE  RoleOfHeading(heading) = {} \/ \E r \in SomeRoles : RoleOfHeading(heading) = {r}
<1>1. CASE heading \in {"Diffusion Models", "unet"}
  BY <1>1 DEF RoleOfHeading, SomeRoles
<1>2. CASE heading \in {"VAE", "vae"}
  BY <1>2 DEF RoleOfHeading, SomeRoles
<1>3. CASE heading \in {"checkpoints", "loras", "detection"}
  BY <1>3 DEF RoleOfHeading, SomeRoles
<1>4. CASE heading \notin {"Diffusion Models", "unet", "VAE", "vae", "checkpoints", "loras", "detection"}
  BY <1>4 DEF RoleOfHeading
<1> QED  BY <1>1, <1>2, <1>3, <1>4

\* One value is what its option holds.
LEMMA TheOne == \A x : The({x}) = x
  BY DEF The

\* A link refers to one file or to none.
LEMMA OneReference ==
    ASSUME NEW link PROVE Reference(link) = {} \/ Reference(link) = {The(Reference(link))}
  BY TheOne DEF Reference

\* A list of files in which none is twice.
FilesOver(U) == Seq([url : U, role : SomeRoles])
Once(models) == \A i, j \in DOMAIN models : models[i].url = models[j].url => i = j
Begins(models, more) == \A i \in DOMAIN models : i \in DOMAIN more /\ more[i] = models[i]

Names(heading, role) == heading # {} => RoleOfHeading(The(heading)) \in {{}, {role}}
Added(models, url, role) ==
  IF \E i \in DOMAIN models : models[i].url = url THEN models
  ELSE Append(models, [url |-> url, role |-> role])

\* A file that was not there is added, in the role its heading names, if it names one.
LEMMA PushedFile ==
    ASSUME NEW models, NEW url, NEW heading
    PROVE  \E role \in SomeRoles :
             Names(heading, role) /\ PushUnique(models, url, heading) = Added(models, url, role)
<1> DEFINE said == IF heading = {} THEN {} ELSE RoleOfHeading(The(heading))
           lies == RoleOfPath(url)
           role == The(FirstOf(<<said, lies, {"other"}>>))
<1>1. /\ said = {} \/ \E r \in SomeRoles : said = {r}
      /\ lies = {} \/ \E r \in SomeRoles : lies = {r}
      /\ "other" \in SomeRoles
  BY RolesOfHeadings DEF RoleOfPath, SomeRoles
<1>2. PushUnique(models, url, heading) = Added(models, url, role)
  BY DEF PushUnique, Added
<1>3. heading # {} => RoleOfHeading(The(heading)) = said
  OBVIOUS
<1> HIDE DEF said, lies
<1>4. FirstOf(<<said, lies, {"other"}>>)
        = IF said # {} THEN said ELSE IF lies # {} THEN lies ELSE {"other"}
  BY FirstOfThree
<1>5. role \in SomeRoles /\ said \in {{}, {role}}
  <2>1. PICK r \in SomeRoles : FirstOf(<<said, lies, {"other"}>>) = {r} /\ said \in {{}, {r}}
    BY <1>1, <1>4
  <2>2. role = r
    BY <2>1, TheOne
  <2> QED  BY <2>1, <2>2
<1> HIDE DEF role
<1>6. Names(heading, role)
  BY <1>3, <1>5 DEF Names
<1> QED  BY <1>2, <1>5, <1>6

\* A list of files stays one, whatever is mentioned.
LEMMA PushedTyped ==
    ASSUME NEW U, NEW models \in FilesOver(U), NEW url \in U, NEW heading
    PROVE  PushUnique(models, url, heading) \in FilesOver(U)
<1>1. PICK role \in SomeRoles :
        Names(heading, role) /\ PushUnique(models, url, heading) = Added(models, url, role)
  BY PushedFile, Zenon
<1>2. Append(models, [url |-> url, role |-> role]) \in FilesOver(U)
  BY AppendProperties DEF FilesOver
<1> QED  BY <1>1, <1>2 DEF Added

\* No file is listed twice, and what is listed stays.
LEMMA PushedOnce ==
    ASSUME NEW U, NEW models \in FilesOver(U), Once(models), NEW url \in U, NEW heading
    PROVE  LET after == PushUnique(models, url, heading)
           IN  /\ Once(after) /\ Begins(models, after)
               /\ \A i \in DOMAIN after :
                    after[i].url = url \/ \E j \in DOMAIN models : models[j].url = after[i].url
               /\ (\A i \in DOMAIN models : models[i].url # url) /\ heading # {} =>
                    \E i \in DOMAIN after :
                      /\ after[i].url = url
                      /\ RoleOfHeading(The(heading)) \in {{}, {after[i].role}}
<1>1. PICK role \in SomeRoles :
        Names(heading, role) /\ PushUnique(models, url, heading) = Added(models, url, role)
  BY PushedFile, Zenon
<1>2. CASE \E i \in DOMAIN models : models[i].url = url
  BY <1>1, <1>2 DEF Begins, Added
<1>3. CASE ~\E i \in DOMAIN models : models[i].url = url
  <2> DEFINE pushed == [url |-> url, role |-> role]
             after == Append(models, pushed)
  <2>1. PushUnique(models, url, heading) = after
    BY <1>1, <1>3 DEF Added
  <2>2. /\ after \in FilesOver(U) /\ Len(after) = Len(models) + 1 /\ Len(models) \in Nat
        /\ \A i \in 1 .. Len(models) : after[i] = models[i]
        /\ after[Len(models) + 1] = pushed
        /\ DOMAIN models = 1 .. Len(models) /\ DOMAIN after = 1 .. (Len(models) + 1)
    BY AppendProperties, LenProperties DEF FilesOver
  <2>3. after[Len(models) + 1].url = url /\ after[Len(models) + 1].role = role
    BY <2>2
  <2> HIDE DEF after
  <2>4. \A i \in 1 .. (Len(models) + 1) : i \in 1 .. Len(models) \/ i = Len(models) + 1
    BY <2>2
  <2>5. Once(after)
    BY <1>3, <2>2, <2>3, <2>4 DEF Once
  <2>6. Begins(models, after)
    BY <2>2 DEF Begins
  <2>7. \A i \in DOMAIN after :
          after[i].url = url \/ \E j \in DOMAIN models : models[j].url = after[i].url
    BY <2>2, <2>3, <2>4
  <2>8. Len(models) + 1 \in DOMAIN after
    BY <2>2
  <2> QED  BY <1>1, <2>1, <2>3, <2>5, <2>6, <2>7, <2>8 DEF Names
<1> QED  BY <1>2, <1>3

\* A workflow's mentions of files.
MentionsOver(L, H) == [link : L, heading : H]
Referred(L) == {The(Reference(l)) : l \in L}

\* The mentions are gone through one after the other.
LEMMA MentionsGoOn ==
    ASSUME NEW L, NEW H, NEW mentions \in Seq(MentionsOver(L, H)), NEW models \in FilesOver(Referred(L))
    PROVE  \E f \in [0 .. Len(mentions) -> FilesOver(Referred(L))] :
             /\ f[0] = models /\ Mentions(models, mentions) = f[Len(mentions)]
             /\ \A k \in 1 .. Len(mentions) : f[k] = Found(f[k - 1], mentions[k])
<1> DEFINE S == FilesOver(Referred(L))
           n == Len(mentions)
           Reached(k, last) == Found(last, mentions[k])
           step == [k \in 1 .. n |-> [last \in S |-> Reached(k, last)]]
           Goes(f) == f = [k \in 0 .. n |-> IF k = 0 THEN models ELSE Reached(k, f[k - 1])]
<1>1. n \in Nat /\ DOMAIN mentions = 1 .. n
  BY LenProperties
<1>2. ASSUME NEW k \in 1 .. n, NEW last \in S PROVE Reached(k, last) \in S
  <2>1. The(Reference(mentions[k].link)) \in Referred(L)
    <3>1. mentions[k] \in MentionsOver(L, H)
      BY <1>1, ElementOfSeq
    <3> QED  BY <3>1 DEF MentionsOver, Referred
  <2> QED  BY <1>2, <2>1, PushedTyped DEF Found
<1>3. step \in [1 .. n -> [S -> S]]
  BY <1>2
<1>4. PICK f \in [0 .. n -> S] : f[0] = models /\ \A k \in 1 .. n : f[k] = step[k][f[k - 1]]
  <2>1. models \in S
    OBVIOUS
  <2>2. \E f \in [0 .. n -> S] : Steps(f, n, models, step)
    <3> HIDE DEF n, S, step
    <3> QED  BY <1>1, <1>3, <2>1, SomethingIterates
  <2> QED  BY <2>2 DEF Steps
<1>5. \A k \in 1 .. n : f[k - 1] \in S /\ f[k] = Reached(k, f[k - 1])
  <2> SUFFICES ASSUME NEW k \in 1 .. n PROVE f[k - 1] \in S /\ f[k] = Reached(k, f[k - 1])
    OBVIOUS
  <2>1. k - 1 \in 0 .. n
    BY <1>1
  <2>2. f[k - 1] \in S
    BY <1>4, <2>1
  <2> HIDE DEF Reached, S
  <2> QED  BY <1>4, <2>2
<1> HIDE DEF S, Reached
<1>6. Goes(f)
  <2>1. \A k \in 0 .. n : f[k] = IF k = 0 THEN models ELSE Reached(k, f[k - 1])
    BY <1>4, <1>5
  <2>2. f = [k \in 0 .. n |-> f[k]]
    BY <1>4
  <2> QED  BY <2>1, <2>2
<1> DEFINE g == CHOOSE h : Goes(h)
<1>7. Goes(g)
  <2> HIDE DEF Goes
  <2> QED  BY <1>6
<1>8. g[0] = models /\ \A k \in 1 .. n : g[k] = Reached(k, g[k - 1])
  <2>1. DOMAIN g = 0 .. n /\ \A k \in 0 .. n : g[k] = IF k = 0 THEN models ELSE Reached(k, g[k - 1])
    BY <1>7
  <2> HIDE DEF g
  <2> QED  BY <1>1, <2>1
<1>9. Mentions(models, mentions) = g[n]
  BY DEF Mentions, Reached
<1>10. g \in [0 .. n -> S]
  <2> DEFINE kept == [k \in 0 .. n |-> S]
  <2>1. g[0] \in kept[0]
    BY <1>1, <1>8 DEF S
  <2>2. \A k \in 1 .. n : g[k - 1] \in kept[k - 1] => g[k] \in kept[k]
    <3> SUFFICES ASSUME NEW k \in 1 .. n, g[k - 1] \in S PROVE g[k] \in S
      BY <1>1
    <3> QED  BY <1>2, <1>8
  <2>3. \A k \in 0 .. n : g[k] \in kept[k]
    <3> HIDE DEF g, n, kept
    <3> QED  BY <1>1, <2>1, <2>2, StepsKeep
  <2>4. \A k \in 0 .. n : g[k] \in S
    BY <2>3
  <2>5. g = [k \in 0 .. n |-> g[k]]
    <3> HIDE DEF Reached
    <3> QED  BY <1>7
  <2> HIDE DEF g
  <2> QED  BY <2>4, <2>5
<1> QED  BY <1>8, <1>9, <1>10 DEF S, Reached

\* What the files of a workflow are after some of its mentions: those of before, in
\* front, and those that were mentioned.
FromMentions(models, mentions, k, x) ==
  \A i \in DOMAIN x : \/ \E j \in DOMAIN models : models[j].url = x[i].url
                      \/ \E j \in 1 .. k : Reference(mentions[j].link) = {x[i].url}

\* The first mention of a file, under a heading.
Declares(models, mentions, n) ==
  LET reference(k) == Reference(mentions[k].link)
  IN  /\ reference(n) # {} /\ mentions[n].heading # {}
      /\ \A k \in 1 .. n - 1 : reference(k) # reference(n)
      /\ \A i \in DOMAIN models : models[i].url # The(reference(n))

Stands(x, mention) ==
  \E i \in DOMAIN x : /\ x[i].url = The(Reference(mention.link))
                      /\ RoleOfHeading(The(mention.heading)) \in {{}, {x[i].role}}

After(U, models, mentions, k, x) ==
  /\ x \in FilesOver(U) /\ Once(x) /\ Begins(models, x) /\ FromMentions(models, mentions, k, x)
  /\ \A n \in 1 .. k : Declares(models, mentions, n) => Stands(x, mentions[n])

\* What begins with a list in which the declared role stands is one.
LEMMA BeginsKeeps ==
    ASSUME NEW x, NEW y, NEW mention, Begins(x, y), Stands(x, mention)
    PROVE  Stands(y, mention)
  BY DEF Begins, Stands

\* One more mention.
LEMMA OneMore ==
    ASSUME NEW L, NEW H, NEW mentions \in Seq(MentionsOver(L, H)), NEW models,
           NEW k \in 1 .. Len(mentions), NEW x, After(Referred(L), models, mentions, k - 1, x)
    PROVE  After(Referred(L), models, mentions, k, Found(x, mentions[k]))
<1> DEFINE reference == Reference(mentions[k].link)
           url == The(reference)
           heading == mentions[k].heading
           y == Found(x, mentions[k])
<1>1. k \in Nat /\ k - 1 \in Nat /\ DOMAIN mentions = 1 .. Len(mentions) /\ k \in 1 .. k
  BY LenProperties
<1>2. url \in Referred(L)
  <2>1. mentions[k] \in MentionsOver(L, H)
    BY <1>1, ElementOfSeq
  <2> QED  BY <2>1 DEF MentionsOver, Referred
<1>3. \A n \in 1 .. k : n \in 1 .. (k - 1) \/ n = k
  BY <1>1
<1>4. \A n \in 1 .. (k - 1) : n \in 1 .. k
  BY <1>1
<1>5. CASE reference = {}
  <2>1. y = x
    BY <1>5 DEF Found
  <2>2. FromMentions(models, mentions, k, x)
    BY <1>4 DEF After, FromMentions
  <2>3. \A n \in 1 .. k : Declares(models, mentions, n) => Stands(x, mentions[n])
    BY <1>3, <1>5 DEF After, Declares
  <2> QED  BY <2>1, <2>2, <2>3 DEF After
<1>6. CASE reference # {}
  <2>1. y = PushUnique(x, url, heading) /\ reference = {url}
    BY <1>6, OneReference DEF Found
  <2> HIDE DEF url, heading, y
  <2>2. x \in FilesOver(Referred(L)) /\ Once(x) /\ Begins(models, x)
    BY DEF After
  <2>3. y \in FilesOver(Referred(L))
    BY <1>2, <2>1, <2>2, PushedTyped
  <2>4. /\ Once(y) /\ Begins(x, y)
        /\ \A i \in DOMAIN y : y[i].url = url \/ \E j \in DOMAIN x : x[j].url = y[i].url
        /\ (\A i \in DOMAIN x : x[i].url # url) /\ heading # {} =>
             \E i \in DOMAIN y : /\ y[i].url = url
                                 /\ RoleOfHeading(The(heading)) \in {{}, {y[i].role}}
    BY <1>2, <2>1, <2>2, PushedOnce
  <2>5. Begins(models, y)
    BY <2>2, <2>4 DEF Begins
  <2>6. FromMentions(models, mentions, k, y)
    <3> SUFFICES ASSUME NEW i \in DOMAIN y
                 PROVE  \/ \E j \in DOMAIN models : models[j].url = y[i].url
                        \/ \E j \in 1 .. k : Reference(mentions[j].link) = {y[i].url}
      BY DEF FromMentions
    <3>1. CASE y[i].url = url
      BY <1>1, <2>1, <3>1
    <3>2. CASE \E j \in DOMAIN x : x[j].url = y[i].url
      BY <1>4, <3>2 DEF After, FromMentions
    <3> QED  BY <2>4, <3>1, <3>2
  <2>7. ASSUME NEW n \in 1 .. k, Declares(models, mentions, n) PROVE Stands(y, mentions[n])
    <3>1. CASE n = k
      <4>1. \A i \in DOMAIN x : x[i].url # url
        <5> SUFFICES ASSUME NEW i \in DOMAIN x, x[i].url = url PROVE FALSE
          OBVIOUS
        <5>1. \A j \in DOMAIN models : models[j].url # url
          BY <2>7, <3>1 DEF Declares, url
        <5>2. PICK j \in 1 .. (k - 1) : Reference(mentions[j].link) = {url}
          BY <5>1 DEF After, FromMentions
        <5> QED  BY <2>1, <2>7, <3>1, <5>2 DEF Declares
      <4>2. heading # {}
        BY <2>7, <3>1 DEF Declares, heading
      <4> QED  BY <2>4, <3>1, <4>1, <4>2 DEF Stands, url, heading
    <3>2. CASE n \in 1 .. (k - 1)
      BY <2>4, <2>7, <3>2, BeginsKeeps DEF After
    <3> QED  BY <1>3, <3>1, <3>2
  <2>8. After(Referred(L), models, mentions, k, y)
    BY <2>3, <2>4, <2>5, <2>6, <2>7 DEF After
  <2> QED  BY <2>8 DEF y
<1> QED  BY <1>5, <1>6

\* All the mentions.
LEMMA AfterMentions ==
    ASSUME NEW L, NEW H, NEW mentions \in Seq(MentionsOver(L, H)),
           NEW models \in FilesOver(Referred(L)), Once(models)
    PROVE  After(Referred(L), models, mentions, Len(mentions), Mentions(models, mentions))
<1> DEFINE n == Len(mentions)
           S == FilesOver(Referred(L))
<1>1. PICK f \in [0 .. n -> S] :
        /\ f[0] = models /\ Mentions(models, mentions) = f[n]
        /\ \A k \in 1 .. n : f[k] = Found(f[k - 1], mentions[k])
  BY MentionsGoOn
<1>2. n \in Nat /\ n \in 0 .. n
  BY LenProperties
<1> DEFINE kept == [k \in 0 .. n |-> {x \in S : After(Referred(L), models, mentions, k, x)}]
<1>3. \A k \in 0 .. n : f[k] \in kept[k] <=> After(Referred(L), models, mentions, k, f[k])
  <2> HIDE DEF S, n
  <2> QED  BY <1>1
<1>4. After(Referred(L), models, mentions, 0, f[0])
  <2>1. models \in FilesOver(Referred(L)) /\ Begins(models, models)
    BY DEF Begins
  <2>2. FromMentions(models, mentions, 0, models)
    BY DEF FromMentions
  <2>3. 1 .. 0 = {}
    OBVIOUS
  <2> QED  BY <1>1, <2>1, <2>2, <2>3 DEF After
<1>5. ASSUME NEW k \in 1 .. n, After(Referred(L), models, mentions, k - 1, f[k - 1])
      PROVE  After(Referred(L), models, mentions, k, f[k])
  BY <1>1, <1>5, OneMore
<1>6. \A k \in 0 .. n : f[k] \in kept[k]
  <2>1. f[0] \in kept[0]
    BY <1>2, <1>3, <1>4
  <2>2. \A k \in 1 .. n : f[k - 1] \in kept[k - 1] => f[k] \in kept[k]
    <3> SUFFICES ASSUME NEW k \in 1 .. n, f[k - 1] \in kept[k - 1] PROVE f[k] \in kept[k]
      OBVIOUS
    <3>1. k \in 0 .. n /\ k - 1 \in 0 .. n
      BY <1>2
    <3> HIDE DEF kept, n
    <3> QED  BY <1>3, <1>5, <3>1
  <2> HIDE DEF kept, n
  <2> QED  BY <1>2, <2>1, <2>2, StepsKeep
<1>7. After(Referred(L), models, mentions, n, f[n])
  <2> HIDE DEF kept
  <2> QED  BY <1>2, <1>3, <1>6
<1> QED  BY <1>1, <1>7

\* Every workflow over any links and headings lists a file once, through whichever page it
\* is linked, and the first node that declares its role decides it, whatever a note says
\* (templates/mod.rs:331-395).
THEOREM TheNodesDecide ==
    ASSUME NEW L, NEW H,
           NEW workflow \in [nodes : Seq(MentionsOver(L, H)), notes : Seq(MentionsOver(L, H))]
    PROVE  NodesDecide(workflow)
<1> DEFINE U == Referred(L)
           nodes == workflow.nodes
           notes == workflow.notes
           declared == Mentions(<<>>, nodes)
           models == Mentions(declared, notes)
<1>1. nodes \in Seq(MentionsOver(L, H)) /\ notes \in Seq(MentionsOver(L, H))
  OBVIOUS
<1>2. <<>> \in FilesOver(U) /\ Once(<<>>)
  BY DEF FilesOver, Once
<1> HIDE DEF nodes, notes
<1>3. After(U, <<>>, nodes, Len(nodes), declared)
  BY <1>1, <1>2, AfterMentions
<1> HIDE DEF declared
<1>4. After(U, declared, notes, Len(notes), models)
  BY <1>1, <1>3, AfterMentions DEF After
<1>5. WorkflowModels(workflow) = models
  BY DEF WorkflowModels, models, declared, nodes, notes
<1> HIDE DEF models
<1>6. Once(models) /\ Begins(declared, models)
  BY <1>4 DEF After
<1>7. ASSUME NEW n \in DOMAIN nodes, Reference(nodes[n].link) # {}, nodes[n].heading # {},
             \A k \in 1 .. n - 1 : Reference(nodes[k].link) # Reference(nodes[n].link)
      PROVE  Stands(models, nodes[n])
  <2>1. Declares(<<>>, nodes, n)
    BY <1>7 DEF Declares
  <2>2. n \in 1 .. Len(nodes)
    BY <1>1, LenProperties
  <2> QED  BY <1>3, <1>6, <2>1, <2>2, BeginsKeeps DEF After
<1> QED  BY <1>5, <1>6, <1>7 DEF NodesDecide, Once, Stands, nodes

----------------------------------------------------------------------------
(* What a filter leaves, place by place. *)

\* The elements of x are those of s that are in S, up to a place, each from its own place.
FromPlaces(s, S, k, x) ==
  \E h \in Bijection(1 .. Len(x), {i \in 1 .. k : s[i] \in S}) : \A j \in 1 .. Len(x) : x[j] = s[h[j]]

\* One more place.
LEMMA OneMorePlace ==
    ASSUME NEW T, NEW s \in Seq(T), NEW S, NEW k \in 1 .. Len(s), NEW x \in Seq(T),
           FromPlaces(s, S, k - 1, x)
    PROVE  LET y == IF s[k] \in S THEN Append(x, s[k]) ELSE x
           IN  y \in Seq(T) /\ FromPlaces(s, S, k, y)
<1> DEFINE before == {i \in 1 .. (k - 1) : s[i] \in S}
           places == {i \in 1 .. k : s[i] \in S}
           n == Len(x)
<1>1. k \in Nat /\ k - 1 \in Nat /\ k \in 1 .. k /\ n \in Nat /\ s[k] \in T
  BY LenProperties, ElementOfSeq
<1>2. PICK h \in Bijection(1 .. n, before) : \A j \in 1 .. n : x[j] = s[h[j]]
  BY DEF FromPlaces
<1>3. CASE s[k] \notin S
  <2>1. places = before
    BY <1>1, <1>3
  <2> QED  BY <1>2, <1>3, <2>1 DEF FromPlaces
<1>4. CASE s[k] \in S
  <2> DEFINE y == Append(x, s[k])
             g == [j \in 1 .. (n + 1) |-> IF j = n + 1 THEN k ELSE h[j]]
  <2>1. y \in Seq(T) /\ Len(y) = n + 1 /\ y[n + 1] = s[k] /\ \A j \in 1 .. n : y[j] = x[j]
    BY <1>1, AppendProperties
  <2>2. places = before \cup {k} /\ k \notin before
    BY <1>1, <1>4
  <2>3. /\ h \in [1 .. n -> before]
        /\ \A i, j \in 1 .. n : h[i] = h[j] => i = j
        /\ \A p \in before : \E j \in 1 .. n : h[j] = p
    BY <1>2 DEF Bijection, Injection, Surjection, IsInjective
  <2>4. \A j \in 1 .. (n + 1) : j = n + 1 \/ j \in 1 .. n
    BY <1>1
  <2>5. n + 1 \in 1 .. (n + 1) /\ \A j \in 1 .. n : j \in 1 .. (n + 1) /\ j # n + 1
    BY <1>1
  <2> HIDE DEF before, places, n, y
  <2>6. g \in [1 .. (n + 1) -> places]
    BY <2>2, <2>3, <2>4
  <2>7. g[n + 1] = k /\ \A j \in 1 .. n : g[j] = h[j] /\ h[j] \in before
    BY <2>3, <2>5
  <2> HIDE DEF g
  <2>8. \A i, j \in 1 .. (n + 1) : g[i] = g[j] => i = j
    BY <2>2, <2>3, <2>4, <2>7
  <2>9. \A p \in places : \E j \in 1 .. (n + 1) : g[j] = p
    BY <2>2, <2>3, <2>5, <2>7
  <2>10. g \in Bijection(1 .. (n + 1), places)
    BY <2>6, <2>8, <2>9 DEF Bijection, Injection, Surjection, IsInjective
  <2>11. \A j \in 1 .. (n + 1) : y[j] = s[g[j]]
    BY <1>2, <2>1, <2>4, <2>7
  <2>12. FromPlaces(s, S, k, y)
    BY <2>1, <2>10, <2>11 DEF FromPlaces, places
  <2> QED  BY <1>4, <2>1, <2>12 DEF y
<1> QED  BY <1>3, <1>4

\* A filter leaves each element that is to be kept once for each of its places.
LEMMA KeepingPlaces ==
    ASSUME NEW T, NEW s \in Seq(T), NEW S
    PROVE  Keeping(s, S) \in Seq(T) /\ FromPlaces(s, S, Len(s), Keeping(s, S))
<1> DEFINE f == KeptFirst(s, S)
           kept == [k \in 0 .. Len(s) |-> {x \in Seq(T) : FromPlaces(s, S, k, x)}]
<1>1. Len(s) \in Nat
  BY LenProperties
<1>2. KeepsFirst(f, s, S, Len(s))
  BY <1>1, SomethingKeeps DEF KeptFirst
<1>3. Keeping(s, S) = f[Len(s)]
  BY DEF Keeping, KeptFirst, KeepsFirst
<1>4. \A k \in 0 .. Len(s) :
        f[k] = IF k = 0 THEN <<>>
               ELSE IF s[k] \in S THEN Append(f[k - 1], s[k]) ELSE f[k - 1]
  BY <1>2 DEF KeepsFirst
<1> HIDE DEF f
<1>5. f[0] \in kept[0]
  <2>1. f[0] = <<>> /\ Len(<<>>) = 0 /\ 1 .. 0 = {}
    BY <1>1, <1>4
  <2>2. <<>> \in Bijection({}, {})
    BY DEF Bijection, Injection, Surjection, IsInjective
  <2>3. FromPlaces(s, S, 0, <<>>)
    BY <2>1, <2>2 DEF FromPlaces
  <2> QED  BY <1>1, <2>1, <2>3
<1>6. ASSUME NEW k \in 1 .. Len(s), f[k - 1] \in kept[k - 1] PROVE f[k] \in kept[k]
  <2>1. k \in 0 .. Len(s) /\ k - 1 \in 0 .. Len(s) /\ k # 0
    BY <1>1
  <2>2. f[k - 1] \in Seq(T) /\ FromPlaces(s, S, k - 1, f[k - 1])
    BY <1>6, <2>1
  <2> DEFINE y == IF s[k] \in S THEN Append(f[k - 1], s[k]) ELSE f[k - 1]
  <2>3. y \in Seq(T) /\ FromPlaces(s, S, k, y)
    BY <2>2, OneMorePlace
  <2>4. f[k] = y
    BY <1>4, <2>1
  <2> QED  BY <2>1, <2>3, <2>4
<1>7. \A k \in 0 .. Len(s) : f[k] \in kept[k]
  <2> HIDE DEF kept
  <2> QED  BY <1>1, <1>5, <1>6, StepsKeep
<1>8. Len(s) \in 0 .. Len(s)
  BY <1>1
<1> QED  BY <1>3, <1>7, <1>8

\* Where a sequence has an element of a kind.
PlacesOf(s, P) == {i \in DOMAIN s : s[i] \in P}

\* The elements left are those to be kept, and as many of any kind as there were places.
LEMMA KeepingCounts ==
    ASSUME NEW T, NEW s \in Seq(T), NEW S, NEW P
    PROVE  /\ Range(Keeping(s, S)) = Range(s) \cap S
           /\ Cardinality(PlacesOf(Keeping(s, S), P)) = Cardinality(PlacesOf(s, S \cap P))
<1> DEFINE kept == Keeping(s, S)
           n == Len(kept)
           remaining == {j \in DOMAIN kept : kept[j] \in P}
           places == {i \in DOMAIN s : s[i] \in S}
           there == {i \in DOMAIN s : s[i] \in S /\ s[i] \in P}
<1>1. kept \in Seq(T) /\ n \in Nat /\ DOMAIN kept = 1 .. n /\ DOMAIN s = 1 .. Len(s)
  BY KeepingPlaces, LenProperties
<1>2. PICK h \in Bijection(1 .. n, places) : \A j \in 1 .. n : kept[j] = s[h[j]]
  <2>1. FromPlaces(s, S, Len(s), kept)
    BY KeepingPlaces
  <2>2. places = {i \in 1 .. Len(s) : s[i] \in S}
    BY <1>1
  <2> HIDE DEF kept, places
  <2> QED  BY <2>1, <2>2 DEF FromPlaces
<1>3. /\ h \in [1 .. n -> places]
      /\ \A i, j \in 1 .. n : h[i] = h[j] => i = j
      /\ \A p \in places : \E j \in 1 .. n : h[j] = p
  BY <1>2 DEF Bijection, Injection, Surjection, IsInjective
<1> HIDE DEF kept, n
<1>4. Range(kept) = Range(s) \cap S
  <2>1. ASSUME NEW j \in 1 .. n PROVE kept[j] \in Range(s) \cap S
    BY <1>2, <1>3 DEF Range
  <2>2. ASSUME NEW i \in DOMAIN s, s[i] \in S PROVE \E j \in 1 .. n : kept[j] = s[i]
    BY <1>2, <1>3, <2>2
  <2> QED  BY <1>1, <2>1, <2>2 DEF Range
<1>5. IsFiniteSet(remaining)
  BY <1>1, FS_Interval, FS_Subset
<1> DEFINE g == [j \in remaining |-> h[j]]
<1>6. g \in Bijection(remaining, there)
  <2>1. \A j \in remaining : j \in 1 .. n /\ g[j] = h[j] /\ h[j] \in places /\ kept[j] = s[h[j]]
    BY <1>1, <1>2, <1>3
  <2>2. g \in [remaining -> there]
    BY <2>1
  <2> HIDE DEF g
  <2>3. \A i, j \in remaining : g[i] = g[j] => i = j
    BY <1>3, <2>1
  <2>4. \A p \in there : \E j \in remaining : g[j] = p
    <3> SUFFICES ASSUME NEW p \in there PROVE \E j \in remaining : g[j] = p
      OBVIOUS
    <3>1. PICK j \in 1 .. n : h[j] = p
      BY <1>3
    <3>2. j \in remaining
      BY <1>1, <1>2, <3>1
    <3> QED  BY <2>1, <3>1, <3>2
  <2> HIDE DEF remaining, there
  <2> QED  BY <2>2, <2>3, <2>4 DEF Bijection, Injection, Surjection, IsInjective
<1>7. Cardinality(there) = Cardinality(remaining)
  <2> HIDE DEF remaining, there, g
  <2> QED  BY <1>5, <1>6, FS_Bijection DEF ExistsBijection
<1>8. remaining = PlacesOf(kept, P) /\ there = PlacesOf(s, S \cap P)
  BY DEF PlacesOf
<1> HIDE DEF remaining, there
<1> QED  BY <1>4, <1>7, <1>8 DEF kept

\* The length of what is remaining.
LEMMA KeepingLength ==
    ASSUME NEW T, NEW s \in Seq(T), NEW S
    PROVE  /\ Len(Keeping(s, S)) \in Nat
           /\ Len(Keeping(s, S)) = Cardinality(PlacesOf(s, S))
<1> DEFINE kept == Keeping(s, S)
           n == Len(kept)
           places == {i \in DOMAIN s : s[i] \in S}
<1>1. kept \in Seq(T) /\ n \in Nat /\ DOMAIN s = 1 .. Len(s)
  BY KeepingPlaces, LenProperties
<1>2. ExistsBijection(1 .. n, places)
  <2>1. PICK h \in Bijection(1 .. n, places) : \A j \in 1 .. n : kept[j] = s[h[j]]
    <3>1. FromPlaces(s, S, Len(s), kept)
      BY KeepingPlaces
    <3>2. places = {i \in 1 .. Len(s) : s[i] \in S}
      BY <1>1
    <3> HIDE DEF kept, places
    <3> QED  BY <3>1, <3>2 DEF FromPlaces
  <2> HIDE DEF kept, n, places
  <2> QED  BY <2>1 DEF ExistsBijection
<1> HIDE DEF kept, n, places
<1>3. Cardinality(places) = n
  BY <1>1, <1>2, FS_CountingElements
<1>4. places = PlacesOf(s, S)
  BY DEF places, PlacesOf
<1> QED  BY <1>1, <1>3, <1>4 DEF kept, n

----------------------------------------------------------------------------
(* The listing. *)

\* Of every index, filter, card and fetched workflows, what matches and lists files is
\* shown or counted as hidden, and nothing is hidden where the card is unknown
\* (daemon/mod.rs:529-568, templates/mod.rs:225-238).
THEOREM ListingsAreAccountedFor ==
    ASSUME NEW T, NEW templates \in Seq(T), NEW filter, NEW workflows, NEW listings, NEW vram,
           NEW includeUnrunnable \in BOOLEAN
    PROVE  ListingAccounts(templates, filter, workflows, listings, vram, includeUnrunnable)
<1> DEFINE matching == {e \in Range(templates) : Matches(filter, e)}
           entries == Keeping(templates, matching)
           fetchable == {e \in Range(entries) : workflows[e.name] # {}}
           fetched == Keeping(entries, fetchable)
           models(e) == WorkflowModels(The(workflows[e.name]))
           bundles == Bundles(entries, workflows, listings, vram)
           offers == {b \in Range(bundles) : Offered(b)}
           kept == {b \in offers : includeUnrunnable \/ Runs(b)}
           pruned == ListTemplates(templates, filter, workflows, listings, vram, includeUnrunnable)
           offering == {e \in T : models(e) # <<>>}
           offered == {i \in DOMAIN templates : /\ Matches(filter, templates[i])
                                            /\ workflows[templates[i].name] # {}
                                            /\ models(templates[i]) # <<>>}
           B == Range(bundles)
<1>1. entries \in Seq(T) /\ fetched \in Seq(T)
  BY KeepingPlaces
<1>2. /\ DOMAIN templates = 1 .. Len(templates) /\ DOMAIN entries = 1 .. Len(entries)
      /\ DOMAIN fetched = 1 .. Len(fetched) /\ Len(fetched) \in Nat
  BY <1>1, LenProperties
<1>3. bundles = [i \in DOMAIN fetched |-> Bundle(fetched[i], models(fetched[i]), listings, vram)]
  BY DEF Bundles
<1>13. /\ pruned.bundles = Keeping(bundles, kept)
       /\ pruned.hidden = Len(Keeping(bundles, offers)) - Len(Keeping(bundles, kept))
  BY DEF ListTemplates, Pruned
<1> HIDE DEF bundles, pruned
<1>4. bundles \in Seq(B)
  <2>1. \A i \in DOMAIN fetched : bundles[i] \in B
    BY <1>3 DEF Range
  <2>2. bundles = [i \in 1 .. Len(fetched) |-> bundles[i]]
    BY <1>2, <1>3
  <2> HIDE DEF fetched, B
  <2> QED  BY <1>2, <2>1, <2>2, FunctionIsSequence
<1>5. /\ \A i \in DOMAIN templates : templates[i] \in T
      /\ \A i \in DOMAIN entries : entries[i] \in T
      /\ \A i \in DOMAIN fetched : fetched[i] \in T
  BY <1>1, <1>2, ElementOfSeq
<1>6. Len(Keeping(bundles, offers)) = Cardinality(offered)
  <2> DEFINE able == {e \in T : workflows[e.name] # {} /\ models(e) # <<>>}
  <2>1. offered = PlacesOf(templates, matching \cap able)
    BY <1>5 DEF Range, PlacesOf
  <2>2. Cardinality(PlacesOf(entries, able)) = Cardinality(PlacesOf(templates, matching \cap able))
    <3> HIDE DEF able, matching
    <3> QED  BY KeepingCounts
  <2>3. PlacesOf(entries, able) = PlacesOf(entries, fetchable \cap offering)
    <3> HIDE DEF entries
    <3> QED  BY <1>5 DEF Range, PlacesOf
  <2>4. Cardinality(PlacesOf(fetched, offering)) = Cardinality(PlacesOf(entries, fetchable \cap offering))
    <3> HIDE DEF fetchable, offering, entries
    <3> QED  BY <1>1, KeepingCounts
  <2>5. PlacesOf(fetched, offering) = PlacesOf(bundles, offers)
    <3>1. ASSUME NEW i \in DOMAIN fetched PROVE fetched[i] \in offering <=> bundles[i] \in offers
      <4>1. bundles[i] \in Range(bundles) /\ bundles[i].models = models(fetched[i])
        BY <1>3 DEF Bundle, Range
      <4> HIDE DEF fetched
      <4> QED  BY <1>5, <4>1 DEF Offered
    <3>2. DOMAIN bundles = DOMAIN fetched
      BY <1>3
    <3> HIDE DEF fetched, offering, offers
    <3> QED  BY <3>1, <3>2 DEF PlacesOf
  <2>6. Len(Keeping(bundles, offers)) = Cardinality(PlacesOf(bundles, offers))
    <3> HIDE DEF offers, B
    <3> QED  BY <1>4, KeepingLength
  <2> HIDE DEF able, offered, matching, entries, fetchable, fetched, offering, offers
  <2> QED  BY <2>1, <2>2, <2>3, <2>4, <2>5, <2>6
<1>7. Len(Keeping(bundles, kept)) \in Nat /\ Len(Keeping(bundles, offers)) \in Nat
  <2> HIDE DEF offers, kept, B
  <2> QED  BY <1>4, KeepingLength
<1>8. vram = {} => \A b \in B : b.feasibility = {}
  <2> SUFFICES ASSUME vram = {}, NEW i \in DOMAIN bundles PROVE bundles[i].feasibility = {}
    BY DEF Range
  <2> HIDE DEF fetched, models
  <2> QED  BY <1>3 DEF Bundle
<1>9. vram = {} \/ includeUnrunnable => kept = offers
  BY <1>8 DEF Runs
<1>10. Len(pruned.bundles) + pruned.hidden = Cardinality(offered)
  <2> HIDE DEF offers, kept, offered, B, models
  <2> QED  BY <1>13, <1>6, <1>7
<1>11. vram = {} \/ includeUnrunnable => pruned.hidden = 0
  <2> HIDE DEF offers, kept
  <2> QED  BY <1>13, <1>7, <1>9
<1>12. ASSUME vram = {}
       PROVE  {b.name : b \in Range(Shown(pruned.bundles, TRUE))} = {templates[i].name : i \in offered}
  <2> DEFINE all == pruned.bundles
             comfortable == {b \in Range(all) : TRUE => b.feasibility \in {{}, {"comfortable"}}}
  <2>1. all = Keeping(bundles, offers)
    BY <1>13, <1>9, <1>12
  <2>2. all \in Seq(B) /\ Range(all) = Range(bundles) \cap offers
    <3> HIDE DEF offers, B, all
    <3> QED  BY <1>4, <2>1, KeepingPlaces, KeepingCounts
  <2> HIDE DEF all
  <2>3. Range(all) = offers
    BY <2>2
  <2>4. comfortable = offers
    BY <1>8, <1>12, <2>3
  <2>5. Range(Shown(all, TRUE)) = offers
    <3>1. Shown(all, TRUE) = Keeping(all, comfortable)
      BY DEF Shown
    <3>2. Range(Keeping(all, comfortable)) = Range(all) \cap comfortable
      <4> HIDE DEF comfortable, B
      <4> QED  BY <2>2, KeepingCounts
    <3> QED  BY <2>3, <2>4, <3>1, <3>2
  <2>6. Range(entries) = Range(templates) \cap matching /\ Range(fetched) = Range(entries) \cap fetchable
    <3>1. Range(entries) = Range(templates) \cap matching
      <4> HIDE DEF matching
      <4> QED  BY KeepingCounts
    <3>2. Range(fetched) = Range(entries) \cap fetchable
      <4> HIDE DEF fetchable, entries
      <4> QED  BY <1>1, KeepingCounts
    <3> QED  BY <3>1, <3>2
  <2>7. {b.name : b \in offers} = {e.name : e \in {x \in Range(fetched) : models(x) # <<>>}}
    <3>1. ASSUME NEW i \in DOMAIN fetched
          PROVE  bundles[i].name = fetched[i].name /\ bundles[i].models = models(fetched[i])
      BY <1>3 DEF Bundle
    <3>2. DOMAIN bundles = DOMAIN fetched
      BY <1>3
    <3> HIDE DEF fetched
    <3> QED  BY <3>1, <3>2 DEF Offered, Range
  <2>8. {x \in Range(fetched) : models(x) # <<>>} = {templates[i] : i \in offered}
    <3>1. Range(fetched) = {e \in Range(templates) : Matches(filter, e) /\ workflows[e.name] # {}}
      <4> HIDE DEF entries, fetched
      <4> QED  BY <2>6
    <3> HIDE DEF fetched
    <3> QED  BY <3>1 DEF Range
  <2>9. {e.name : e \in {templates[i] : i \in offered}} = {templates[i].name : i \in offered}
    OBVIOUS
  <2> HIDE DEF offers, fetched, offered
  <2> QED  BY <2>5, <2>7, <2>8, <2>9 DEF all
<1> HIDE DEF offered
<1> QED  BY <1>10, <1>11, <1>12 DEF ListingAccounts, pruned, offered

----------------------------------------------------------------------------
(* What a selection costs.                                                 *)

Cost(listings, m) == Known(SizeOf(listings, m.url))

Paid(listings, S) == MapThenSumSet(LAMBDA m : Known(SizeOf(listings, m.url)), S)

AnyOf(s) == CHOOSE x \in s : TRUE

\* A function that sums up the costs of the subsets of S.
Totals(listings, S, g) ==
  g = [s \in SUBSET S |->
         IF s = {} THEN 0 ELSE Cost(listings, AnyOf(s)) + g[s \ {AnyOf(s)}]]

\* What one of a finite set leaves is a smaller set.
LEMMA OneLess ==
    ASSUME NEW s, IsFiniteSet(s), s # {}
    PROVE  /\ AnyOf(s) \in s /\ IsFiniteSet(s \ {AnyOf(s)})
           /\ Cardinality(s) \in Nat /\ Cardinality(s \ {AnyOf(s)}) \in Nat
           /\ Cardinality(s \ {AnyOf(s)}) < Cardinality(s)
<1>1. AnyOf(s) \in s
  BY DEF AnyOf
<1>2. IsFiniteSet(s \ {AnyOf(s)}) /\ Cardinality(s \ {AnyOf(s)}) = Cardinality(s) - 1
  BY <1>1, FS_RemoveElement
<1>3. Cardinality(s) \in Nat /\ Cardinality(s \ {AnyOf(s)}) \in Nat
  BY <1>2, FS_CardinalityType
<1> QED  BY <1>1, <1>2, <1>3

\* A finite set of finite sets that is not empty has one of least cardinality.
LEMMA LeastSet ==
    ASSUME NEW W, IsFiniteSet(W), NEW Q \in SUBSET SUBSET W, Q # {}
    PROVE  \E s \in Q : \A r \in Q : Cardinality(s) <= Cardinality(r)
<1> DEFINE sizes == {Cardinality(s) : s \in Q}
<1>1. \A s \in Q : Cardinality(s) \in Nat
  BY FS_Subset, FS_CardinalityType
<1>2. sizes \in SUBSET Nat /\ sizes # {}
  BY <1>1
<1>3. PICK n \in sizes : \A k \in sizes : n <= k
  <2> HIDE DEF sizes
  <2> QED  BY <1>2, LeastNumber
<1> QED  BY <1>3

\* There is such a function, of any finite set.
LEMMA SomethingTotals ==
    ASSUME NEW listings, NEW S, IsFiniteSet(S), \A m \in S : Cost(listings, m) \in Nat
    PROVE  \E g : Totals(listings, S, g)
<1> DEFINE n == Cardinality(S)
           F == [SUBSET S -> Nat]
           Another(g) == [s \in SUBSET S |->
                          IF s = {} THEN 0 ELSE Cost(listings, AnyOf(s)) + g[s \ {AnyOf(s)}]]
           step == [k \in 1 .. n + 1 |-> [g \in F |-> Another(g)]]
           none == [s \in SUBSET S |-> 0]
<1>1. n \in Nat
  BY FS_CardinalityType
<1>2. none \in F
  OBVIOUS
<1>3. \A s \in SUBSET S : s # {} => AnyOf(s) \in S /\ s \ {AnyOf(s)} \in SUBSET S
  BY DEF AnyOf
<1>4. \A g \in F : Another(g) \in F
  BY <1>3
<1>5. step \in [1 .. n + 1 -> [F -> F]]
  BY <1>4
<1>6. PICK f \in [0 .. n + 1 -> F] : Steps(f, n + 1, none, step)
  <2> HIDE DEF F, step, none, n
  <2> QED  BY <1>1, <1>2, <1>5, SomethingIterates
<1>7. \A k \in 1 .. n + 1 : f[k - 1] \in F /\ f[k] \in F /\ f[k] = Another(f[k - 1])
  <2> SUFFICES ASSUME NEW k \in 1 .. n + 1
               PROVE  f[k - 1] \in F /\ f[k] \in F /\ f[k] = Another(f[k - 1])
    OBVIOUS
  <2>1. k - 1 \in 0 .. n + 1 /\ k \in 0 .. n + 1
    BY <1>1
  <2>2. f[k - 1] \in F /\ f[k] \in F
    BY <1>6, <2>1
  <2> HIDE DEF F, Another
  <2> QED  BY <1>6, <2>2 DEF Steps
<1> DEFINE agree == [k \in 0 .. n |-> {g \in F : \A s \in SUBSET S : Cardinality(s) <= k => Another(g)[s] = g[s]}]
<1>8. f[0] \in agree[0]
  <2>1. f[0] = none
    BY <1>6 DEF Steps
  <2>2. \A s \in SUBSET S : Cardinality(s) <= 0 => s = {}
    BY FS_Subset, FS_CardinalityType, FS_EmptySet
  <2> QED  BY <1>1, <1>2, <2>1, <2>2
<1>9. ASSUME NEW k \in 1 .. n, f[k - 1] \in agree[k - 1] PROVE f[k] \in agree[k]
  <2> DEFINE g == f[k - 1]
             h == f[k]
  <2>1. k \in 1 .. n + 1 /\ k - 1 \in 0 .. n /\ k \in 0 .. n
    BY <1>1
  <2>2. g \in F /\ h \in F /\ h = Another(g)
    BY <1>7, <2>1
  <2>3. \A s \in SUBSET S : Cardinality(s) <= k - 1 => h[s] = g[s]
    BY <1>9, <2>1, <2>2
  <2> HIDE DEF g, h
  <2>4. ASSUME NEW s \in SUBSET S, Cardinality(s) <= k PROVE Another(h)[s] = h[s]
    <3>1. CASE s = {}
      BY <2>2, <3>1
    <3>2. CASE s # {}
      <4>1. s \ {AnyOf(s)} \in SUBSET S /\ Cardinality(s \ {AnyOf(s)}) <= k - 1
        BY <1>1, <2>4, <3>2, OneLess, FS_Subset
      <4>2. h[s \ {AnyOf(s)}] = g[s \ {AnyOf(s)}]
        BY <2>3, <4>1
      <4> QED  BY <2>2, <3>2, <4>2
    <3> QED  BY <3>1, <3>2
  <2>5. h \in agree[k]
    BY <2>1, <2>2, <2>4
  <2> QED  BY <2>5 DEF h
<1>10. f[n] \in agree[n]
  <2>1. \A k \in 0 .. n : f[k] \in agree[k]
    <3> HIDE DEF agree, n
    <3> QED  BY <1>1, <1>8, <1>9, StepsKeep
  <2> HIDE DEF agree, n
  <2> QED  BY <1>1, <2>1
<1>11. \A s \in SUBSET S : Cardinality(s) <= n
  BY FS_Subset
<1>12. f[n] \in F /\ \A s \in SUBSET S : Another(f[n])[s] = f[n][s]
  <2>1. n \in 0 .. n
    BY <1>1
  <2> HIDE DEF n, F, Another
  <2> QED  BY <1>10, <1>11, <2>1
<1>13. Another(f[n]) = f[n]
  BY <1>12
<1> QED  BY <1>13 DEF Totals

\* Two such functions agree where both are defined, whatever the order they sum up in.
LEMMA TotalsAgree ==
    ASSUME NEW listings, NEW W, IsFiniteSet(W), NEW S \in SUBSET W, NEW g, NEW h,
           Totals(listings, S, g), Totals(listings, W, h)
    PROVE  g[S] = h[S]
<1> DEFINE odd == {s \in SUBSET S : g[s] # h[s]}
<1>1. SUFFICES ASSUME odd # {} PROVE FALSE
  OBVIOUS
<1>2. PICK s \in odd : \A r \in odd : Cardinality(s) <= Cardinality(r)
  <2>1. odd \in SUBSET SUBSET W
    OBVIOUS
  <2> HIDE DEF odd
  <2> QED  BY <1>1, <2>1, LeastSet
<1>3. s \in SUBSET S /\ s \in SUBSET W /\ IsFiniteSet(s)
  BY FS_Subset
<1>4. /\ g[s] = IF s = {} THEN 0 ELSE Cost(listings, AnyOf(s)) + g[s \ {AnyOf(s)}]
      /\ h[s] = IF s = {} THEN 0 ELSE Cost(listings, AnyOf(s)) + h[s \ {AnyOf(s)}]
  BY <1>3 DEF Totals
<1>5. s # {}
  BY <1>4
<1>6. s \ {AnyOf(s)} \notin odd
  <2>1. ~(Cardinality(s) <= Cardinality(s \ {AnyOf(s)}))
    BY <1>3, <1>5, OneLess
  <2> QED  BY <1>2, <2>1
<1> QED  BY <1>3, <1>4, <1>6

AddsCosts(listings, W, g) ==
  /\ \A s \in SUBSET W : g[s] \in Nat
  /\ \A s \in SUBSET W, a \in W : a \notin s => g[s \cup {a}] = g[s] + Cost(listings, a)

\* One more element adds what it costs.
LEMMA TotalsAdd ==
    ASSUME NEW listings, NEW W, IsFiniteSet(W), \A m \in W : Cost(listings, m) \in Nat,
           NEW g, Totals(listings, W, g)
    PROVE  AddsCosts(listings, W, g)
<1>1. \A s \in SUBSET W :
        /\ s = {} => g[s] = 0
        /\ s # {} => /\ g[s] = Cost(listings, AnyOf(s)) + g[s \ {AnyOf(s)}]
                     /\ AnyOf(s) \in s /\ AnyOf(s) \in W /\ s \ {AnyOf(s)} \in SUBSET W
                     /\ ~(Cardinality(s) <= Cardinality(s \ {AnyOf(s)}))
  <2> SUFFICES ASSUME NEW s \in SUBSET W
               PROVE  /\ s = {} => g[s] = 0
                      /\ s # {} => /\ g[s] = Cost(listings, AnyOf(s)) + g[s \ {AnyOf(s)}]
                                   /\ AnyOf(s) \in s /\ AnyOf(s) \in W /\ s \ {AnyOf(s)} \in SUBSET W
                                   /\ ~(Cardinality(s) <= Cardinality(s \ {AnyOf(s)}))
    OBVIOUS
  <2>1. g[s] = IF s = {} THEN 0 ELSE Cost(listings, AnyOf(s)) + g[s \ {AnyOf(s)}]
    BY DEF Totals
  <2>2. s # {} => AnyOf(s) \in s /\ ~(Cardinality(s) <= Cardinality(s \ {AnyOf(s)}))
    BY OneLess, FS_Subset
  <2> QED  BY <2>1, <2>2
<1>2. \A s \in SUBSET W : g[s] \in Nat
  <2> DEFINE odd == {s \in SUBSET W : g[s] \notin Nat}
  <2>1. SUFFICES ASSUME odd # {} PROVE FALSE
    OBVIOUS
  <2>2. PICK s \in odd : \A r \in odd : Cardinality(s) <= Cardinality(r)
    <3>1. odd \in SUBSET SUBSET W
      OBVIOUS
    <3> HIDE DEF odd
    <3> QED  BY <2>1, <3>1, LeastSet
  <2>3. s # {} /\ s \in SUBSET W
    <3>1. s \in SUBSET W /\ g[s] \notin Nat
      OBVIOUS
    <3>2. s = {} => g[s] = 0
      BY <1>1, <3>1
    <3> QED  BY <3>1, <3>2
  <2>4. s \ {AnyOf(s)} \notin odd
    BY <1>1, <2>2, <2>3
  <2> QED  BY <1>1, <2>3, <2>4
<1>3. \A s \in SUBSET W, a \in W : a \notin s => g[s \cup {a}] = g[s] + Cost(listings, a)
  <2> DEFINE odd == {s \in SUBSET W : \E a \in W : a \notin s /\ g[s \cup {a}] # g[s] + Cost(listings, a)}
  <2>1. SUFFICES ASSUME odd # {} PROVE FALSE
    OBVIOUS
  <2>2. PICK s \in odd : \A r \in odd : Cardinality(s) <= Cardinality(r)
    <3>1. odd \in SUBSET SUBSET W
      OBVIOUS
    <3> HIDE DEF odd
    <3> QED  BY <2>1, <3>1, LeastSet
  <2>3. PICK a \in W : a \notin s /\ g[s \cup {a}] # g[s] + Cost(listings, a)
    OBVIOUS
  <2> DEFINE t == s \cup {a}
             x == AnyOf(t)
             r == s \ {x}
  <2>4. s \in SUBSET W /\ t \in SUBSET W /\ t # {}
    OBVIOUS
  <2>5. g[t] = Cost(listings, x) + g[t \ {x}] /\ x \in t /\ x \in W
    BY <1>1, <2>4
  <2>6. x # a
    <3> SUFFICES ASSUME x = a PROVE FALSE
      OBVIOUS
    <3>1. t \ {x} = s
      BY <2>3
    <3>2. g[s] \in Nat /\ Cost(listings, a) \in Nat
      BY <1>2, <2>4
    <3>3. g[t] = Cost(listings, a) + g[s]
      <4> HIDE DEF t, x
      <4> QED  BY <2>5, <3>1
    <3> HIDE DEF x
    <3> QED  BY <2>3, <3>2, <3>3
  <2>7. x \in s /\ t \ {x} = r \cup {a} /\ a \notin r /\ x \notin r /\ r \cup {x} = s /\ r \in SUBSET W
    BY <2>3, <2>5, <2>6
  <2>8. r \notin odd
    <3>1. IsFiniteSet(s)
      BY <2>4, FS_Subset
    <3>2. IsFiniteSet(r) /\ Cardinality(r) = Cardinality(s) - 1
      <4> HIDE DEF t, x
      <4> QED  BY <2>7, <3>1, FS_RemoveElement
    <3>3. Cardinality(s) \in Nat
      BY <3>1, FS_CardinalityType
    <3>4. ~(Cardinality(s) <= Cardinality(r))
      BY <3>2, <3>3
    <3> HIDE DEF r, odd
    <3> QED  BY <2>2, <3>4
  <2> HIDE DEF t, x, r
  <2>9. g[r \cup {a}] = g[r] + Cost(listings, a) /\ g[r \cup {x}] = g[r] + Cost(listings, x)
    BY <2>5, <2>7, <2>8
  <2>10. g[r] \in Nat /\ Cost(listings, a) \in Nat /\ Cost(listings, x) \in Nat
    BY <1>2, <2>5, <2>7
  <2>11. g[t] = g[s] + Cost(listings, a)
    <3>1. g[t \ {x}] = g[r] + Cost(listings, a) /\ g[s] = g[r] + Cost(listings, x)
      BY <2>7, <2>9
    <3> QED  BY <2>5, <2>10, <3>1
  <2> QED  BY <2>3, <2>11 DEF t
<1> QED  BY <1>2, <1>3 DEF AddsCosts

\* Nothing costs nothing.
LEMMA NothingIsPaid == ASSUME NEW listings PROVE Paid(listings, {}) = 0
<1> DEFINE total == CHOOSE g : Totals(listings, {}, g)
<1>1. Paid(listings, {}) = total[{}]
  BY DEF Paid, MapThenSumSet, MapThenFoldSet, Totals, AnyOf, Cost
<1>2. Totals(listings, {}, total)
  BY SomethingTotals, FS_EmptySet
<1> HIDE DEF total
<1>3. total[{}] = 0
  BY <1>2 DEF Totals
<1> QED  BY <1>1, <1>3

\* One more file adds what it costs.
LEMMA OneMoreIsPaid ==
    ASSUME NEW listings, NEW S, IsFiniteSet(S), NEW a, a \notin S,
           \A m \in S \cup {a} : Cost(listings, m) \in Nat
    PROVE  /\ Paid(listings, S) \in Nat
           /\ Paid(listings, S \cup {a}) = Paid(listings, S) + Cost(listings, a)
<1> DEFINE total(s) == CHOOSE g : Totals(listings, s, g)
           W == S \cup {a}
<1>1. \A s : Paid(listings, s) = total(s)[s]
  BY DEF Paid, MapThenSumSet, MapThenFoldSet, Totals, AnyOf, Cost
<1>2. IsFiniteSet(W)
  BY FS_AddElement
<1>3. Totals(listings, S, total(S)) /\ Totals(listings, W, total(W))
  BY <1>2, SomethingTotals
<1> HIDE DEF total, W
<1>5. S \in SUBSET W /\ a \in W /\ W = S \cup {a}
  BY DEF W
<1>6. total(S)[S] = total(W)[S]
  BY <1>2, <1>3, <1>5, TotalsAgree
<1>7. total(W)[S] \in Nat /\ total(W)[W] = total(W)[S] + Cost(listings, a)
  <2> DEFINE g == total(W)
  <2>1. \A m \in W : Cost(listings, m) \in Nat
    BY <1>5
  <2>2. IsFiniteSet(W) /\ Totals(listings, W, g)
    BY <1>2, <1>3
  <2> HIDE DEF g
  <2>3. AddsCosts(listings, W, g)
    BY <2>1, <2>2, TotalsAdd
  <2>4. g[S] \in Nat /\ g[S \cup {a}] = g[S] + Cost(listings, a)
    BY <1>5, <2>3 DEF AddsCosts
  <2> QED  BY <1>5, <2>4 DEF g
<1> QED  BY <1>1, <1>5, <1>6, <1>7

----------------------------------------------------------------------------
(* The items of a selection.                                               *)

\* The files and the families of the templates, and what the listings hold.
ModelsOver(U, R) == [url : U, role : R]
BundlesOver(U, R, G) == Seq([models : Seq(ModelsOver(U, R)), families : Seq(G)])
ItemsOver(U, R, G) == Seq([url : U, role : R, families : SUBSET G])

\* The file an item is of.
FileOf(item) == [url |-> item.url, role |-> item.role]

Files(pairs) == {p[1] : p \in pairs}

FamiliesOf(bundles, pairs, m) == UNION {Range(bundles[p[2]].families) : p \in {p \in pairs : p[1] = m}}

\* The queue holds each file that was asked for once, with the families of the templates
\* that asked, and its bytes are theirs. A pair is a file and a template that asked for it.
AskedAccounts(U, R, G, bundles, listings, q, pairs) ==
  /\ q \in [items : ItemsOver(U, R, G), bytes : Nat]
  /\ \A i, j \in DOMAIN q.items : FileOf(q.items[i]) = FileOf(q.items[j]) => i = j
  /\ {FileOf(q.items[i]) : i \in DOMAIN q.items} = Files(pairs)
  /\ \A i \in DOMAIN q.items :
       /\ q.items[i].families = FamiliesOf(bundles, pairs, FileOf(q.items[i]))
       /\ IsFiniteSet(q.items[i].families)
  /\ q.bytes = Paid(listings, Files(pairs))

\* A sequence has finitely many elements.
LEMMA FiniteRange == ASSUME NEW T, NEW s \in Seq(T) PROVE IsFiniteSet(Range(s))
<1>1. DOMAIN s = 1 .. Len(s) /\ Len(s) \in Nat
  BY LenProperties
<1>2. IsFiniteSet(DOMAIN s)
  BY <1>1, FS_Interval
<1> DEFINE f == [i \in DOMAIN s |-> s[i]]
<1>3. f \in Surjection(DOMAIN s, Range(s))
  BY DEF Range, Surjection
<1> QED  BY <1>2, <1>3, FS_Surjection

\* One more file is asked for.
LEMMA OneMoreAsked ==
    ASSUME NEW U, NEW R, NEW G, NEW bundles \in BundlesOver(U, R, G), NEW listings,
           \A m \in ModelsOver(U, R) : Cost(listings, m) \in Nat,
           NEW pairs \in SUBSET (ModelsOver(U, R) \X DOMAIN bundles),
           NEW q, AskedAccounts(U, R, G, bundles, listings, q, pairs),
           NEW m \in ModelsOver(U, R), NEW b \in DOMAIN bundles
    PROVE  AskedAccounts(U, R, G, bundles, listings, Asked(q, m, bundles[b], listings),
                         pairs \cup {<<m, b>>})
<1> DEFINE more == pairs \cup {<<m, b>>}
           after == Asked(q, m, bundles[b], listings)
           labels == bundles[b].families
           n == Len(q.items)
<1>1. /\ q \in [items : ItemsOver(U, R, G), bytes : Nat] /\ q.items \in ItemsOver(U, R, G)
      /\ \A i, j \in DOMAIN q.items : FileOf(q.items[i]) = FileOf(q.items[j]) => i = j
      /\ {FileOf(q.items[i]) : i \in DOMAIN q.items} = Files(pairs)
      /\ \A i \in DOMAIN q.items :
           /\ q.items[i].families = FamiliesOf(bundles, pairs, FileOf(q.items[i]))
           /\ IsFiniteSet(q.items[i].families)
      /\ q.bytes = Paid(listings, Files(pairs))
  BY DEF AskedAccounts
<1>2. DOMAIN q.items = 1 .. n /\ n \in Nat
      /\ \A i \in 1 .. n : q.items[i] \in [url : U, role : R, families : SUBSET G]
  BY <1>1, LenProperties, ElementOfSeq DEF ItemsOver
<1>3. labels \in Seq(G) /\ IsFiniteSet(Range(labels)) /\ Range(labels) \in SUBSET G
  <2>1. bundles[b] \in [models : Seq(ModelsOver(U, R)), families : Seq(G)]
    BY ElementOfSeq, LenProperties DEF BundlesOver
  <2>2. labels \in Seq(G)
    BY <2>1
  <2>3. DOMAIN labels = 1 .. Len(labels) /\ \A i \in 1 .. Len(labels) : labels[i] \in G
    BY <2>2, LenProperties, ElementOfSeq
  <2> HIDE DEF labels
  <2> QED  BY <2>2, <2>3, FiniteRange DEF Range
<1>4. \A i \in 1 .. n : /\ FileOf(q.items[i]) \in Files(pairs)
                        /\ SamePlacement(q.items[i], m) <=> FileOf(q.items[i]) = m
  <2>1. m = [url |-> m.url, role |-> m.role]
    BY DEF ModelsOver
  <2> QED  BY <1>1, <1>2, <2>1 DEF FileOf, SamePlacement
<1>5. Files(more) = Files(pairs) \cup {m}
  <2>1. <<m, b>>[1] = m
    OBVIOUS
  <2> DEFINE pair == <<m, b>>
  <2> HIDE DEF pair
  <2>2. Files(pairs \cup {pair}) = Files(pairs) \cup {pair[1]}
    BY DEF Files
  <2> QED  BY <2>1, <2>2 DEF pair
<1>6. \A f : FamiliesOf(bundles, more, f) = FamiliesOf(bundles, pairs, f) \cup (IF f = m THEN Range(labels) ELSE {})
  <2>1. <<m, b>>[1] = m /\ <<m, b>>[2] = b
    OBVIOUS
  <2> DEFINE pair == <<m, b>>
  <2> HIDE DEF pair
  <2>2. ASSUME NEW f
        PROVE  FamiliesOf(bundles, pairs \cup {pair}, f)
                 = FamiliesOf(bundles, pairs, f)
                   \cup (IF f = pair[1] THEN Range(bundles[pair[2]].families) ELSE {})
    <3>1. CASE f = pair[1]
      <4>1. {p \in pairs \cup {pair} : p[1] = f} = {p \in pairs : p[1] = f} \cup {pair}
        BY <3>1
      <4> QED  BY <3>1, <4>1 DEF FamiliesOf
    <3>2. CASE f # pair[1]
      <4>1. {p \in pairs \cup {pair} : p[1] = f} = {p \in pairs : p[1] = f}
        BY <3>2
      <4> QED  BY <3>2, <4>1 DEF FamiliesOf
    <3> QED  BY <3>1, <3>2
  <2> QED  BY <2>1, <2>2 DEF pair
<1> HIDE DEF labels, more
<1>7. CASE \E i \in DOMAIN q.items : SamePlacement(q.items[i], m)
  <2> DEFINE entries == [i \in DOMAIN q.items |-> Joined(q.items[i], m, bundles[b])]
  <2>1. after = [q EXCEPT !.items = entries]
    BY <1>7 DEF Asked
  <2> HIDE DEF after
  <2>10. after.items = entries /\ after.bytes = q.bytes /\ after = [items |-> after.items, bytes |-> after.bytes]
    <3> HIDE DEF entries
    <3> QED  BY <1>1, <2>1
  <2>2. ASSUME NEW i \in 1 .. n
        PROVE  /\ entries[i] \in [url : U, role : R, families : SUBSET G]
               /\ FileOf(entries[i]) = FileOf(q.items[i])
               /\ entries[i].families = q.items[i].families \cup (IF FileOf(q.items[i]) = m THEN Range(labels) ELSE {})
    BY <1>2, <1>3, <1>4 DEF FileOf, Joined, MergeFamilies, labels
  <2>3. DOMAIN entries = 1 .. n /\ entries = [i \in 1 .. n |-> entries[i]]
    BY <1>2
  <2> HIDE DEF entries
  <2>4. after.items \in ItemsOver(U, R, G) /\ DOMAIN after.items = 1 .. n
    <3>1. entries \in ItemsOver(U, R, G)
      <4> DEFINE T == [url : U, role : R, families : SUBSET G]
      <4>1. \A i \in 1 .. n : entries[i] \in T
        BY <2>2
      <4> HIDE DEF T, n
      <4>2. entries \in Seq(T)
        BY <1>2, <2>3, <4>1, FunctionIsSequence
      <4> QED  BY <4>2 DEF T, ItemsOver
    <3> QED  BY <2>3, <2>10, <3>1
  <2>5. Files(more) = Files(pairs)
    BY <1>2, <1>4, <1>5, <1>7
  <2>6. {FileOf(after.items[i]) : i \in DOMAIN after.items} = Files(more)
    BY <1>1, <1>2, <2>10, <2>2, <2>4, <2>5
  <2>7. \A i, j \in DOMAIN after.items : FileOf(after.items[i]) = FileOf(after.items[j]) => i = j
    BY <1>1, <1>2, <2>10, <2>2, <2>4
  <2>8. ASSUME NEW i \in DOMAIN after.items
        PROVE  /\ after.items[i].families = FamiliesOf(bundles, more, FileOf(after.items[i]))
               /\ IsFiniteSet(after.items[i].families)
    <3>1. i \in 1 .. n /\ i \in DOMAIN q.items
      BY <1>2, <2>4
    <3>2. after.items[i].families = q.items[i].families \cup (IF FileOf(q.items[i]) = m THEN Range(labels) ELSE {})
      BY <2>10, <2>2, <3>1
    <3>3. after.items[i].families = FamiliesOf(bundles, more, FileOf(after.items[i]))
      BY <1>1, <1>6, <2>10, <2>2, <3>1, <3>2
    <3>4. IsFiniteSet(q.items[i].families)
      BY <1>1, <3>1
    <3> DEFINE added == IF FileOf(q.items[i]) = m THEN Range(labels) ELSE {}
    <3>5. IsFiniteSet(added)
      BY <1>3, FS_EmptySet
    <3> HIDE DEF added
    <3>6. IsFiniteSet(q.items[i].families \cup added)
      BY <3>4, <3>5, FS_Union
    <3> QED  BY <3>2, <3>3, <3>6 DEF added
  <2>9. after.bytes = Paid(listings, Files(more))
    BY <1>1, <2>10, <2>5
  <2>11. after \in [items : ItemsOver(U, R, G), bytes : Nat]
    BY <1>1, <2>4, <2>10
  <2>12. AskedAccounts(U, R, G, bundles, listings, after, more)
    BY <2>6, <2>7, <2>8, <2>9, <2>11 DEF AskedAccounts
  <2> QED  BY <2>12 DEF after, more
<1>8. CASE ~\E i \in DOMAIN q.items : SamePlacement(q.items[i], m)
  <2> DEFINE item == [url |-> m.url, role |-> m.role, families |-> Range(labels)]
             entries == Append(q.items, item)
  <2>1. after = [items |-> entries, bytes |-> q.bytes + Cost(listings, m)]
    BY <1>8 DEF Asked, labels, MergeFamilies, Cost
  <2>2. item \in [url : U, role : R, families : SUBSET G] /\ item.families = Range(labels) /\ FileOf(item) = m
    BY <1>3 DEF ModelsOver, FileOf
  <2> HIDE DEF item
  <2>3. /\ entries \in ItemsOver(U, R, G) /\ Len(entries) = n + 1 /\ entries[n + 1] = item
        /\ \A i \in 1 .. n : entries[i] = q.items[i]
    BY <1>1, <1>2, <2>2, AppendProperties DEF ItemsOver
  <2>4. DOMAIN entries = 1 .. (n + 1)
    BY <2>3, LenProperties DEF ItemsOver
  <2> HIDE DEF entries, after, n
  <2>5. /\ \A i \in 1 .. (n + 1) : i \in 1 .. n \/ i = n + 1
        /\ \A i \in 1 .. n : i \in 1 .. (n + 1)
        /\ n + 1 \in 1 .. (n + 1)
    BY <1>2
  <2>6. m \notin Files(pairs) /\ \A i \in 1 .. n : FileOf(q.items[i]) # m
    BY <1>1, <1>2, <1>4, <1>8
  <2>7. {FileOf(entries[i]) : i \in DOMAIN entries} = Files(more)
    <3>1. \A i \in 1 .. n : FileOf(entries[i]) = FileOf(q.items[i])
      BY <2>3
    <3>2. FileOf(entries[n + 1]) = m
      BY <2>2, <2>3
    <3>3. {FileOf(entries[i]) : i \in 1 .. (n + 1)} = {FileOf(q.items[i]) : i \in 1 .. n} \cup {m}
      BY <2>5, <3>1, <3>2
    <3>4. {FileOf(q.items[i]) : i \in 1 .. n} = Files(pairs)
      BY <1>1, <1>2
    <3> QED  BY <1>5, <2>4, <3>3, <3>4
  <2>8. \A i, j \in DOMAIN entries : FileOf(entries[i]) = FileOf(entries[j]) => i = j
    BY <1>1, <1>2, <2>2, <2>3, <2>4, <2>5, <2>6
  <2>9. ASSUME NEW i \in DOMAIN entries
        PROVE  /\ entries[i].families = FamiliesOf(bundles, more, FileOf(entries[i]))
               /\ IsFiniteSet(entries[i].families)
    <3>1. CASE i \in 1 .. n
      <4>1. FileOf(entries[i]) # m /\ entries[i] = q.items[i]
        BY <2>3, <2>6, <3>1
      <4>2. /\ q.items[i].families = FamiliesOf(bundles, pairs, FileOf(q.items[i]))
            /\ IsFiniteSet(q.items[i].families)
        BY <1>1, <1>2, <3>1
      <4>3. FamiliesOf(bundles, more, FileOf(entries[i])) = FamiliesOf(bundles, pairs, FileOf(entries[i])) \cup {}
        BY <1>6, <4>1
      <4> QED  BY <4>1, <4>2, <4>3
    <3>2. CASE i = n + 1
      <4>1. FamiliesOf(bundles, pairs, m) = {}
        BY <2>6 DEF FamiliesOf, Files
      <4>2. FamiliesOf(bundles, more, m) = Range(labels)
        BY <1>6, <4>1
      <4> QED  BY <1>3, <2>2, <2>3, <3>2, <4>2
    <3> QED  BY <2>4, <2>5, <3>1, <3>2
  <2>10. after.bytes = Paid(listings, Files(more))
    <3>1. IsFiniteSet(Files(pairs))
      <4>1. IsFiniteSet(DOMAIN q.items)
        <5>1. IsFiniteSet(1 .. n)
          BY <1>2, FS_Interval
        <5> QED  BY <1>2, <5>1
      <4> DEFINE f == [i \in DOMAIN q.items |-> FileOf(q.items[i])]
      <4>2. f \in Surjection(DOMAIN q.items, Files(pairs))
        BY <1>1 DEF Surjection
      <4> HIDE DEF f
      <4> QED  BY <4>1, <4>2, FS_Surjection
    <3>2. \A f \in Files(pairs) \cup {m} : Cost(listings, f) \in Nat
      BY DEF Files
    <3>3. Paid(listings, Files(pairs) \cup {m}) = Paid(listings, Files(pairs)) + Cost(listings, m)
      BY <2>6, <3>1, <3>2, OneMoreIsPaid
    <3> QED  BY <1>1, <1>5, <2>1, <3>3
  <2>11. after \in [items : ItemsOver(U, R, G), bytes : Nat] /\ after.items = entries
    BY <1>1, <2>1, <2>3
  <2>12. AskedAccounts(U, R, G, bundles, listings, after, more)
    BY <2>7, <2>8, <2>9, <2>10, <2>11 DEF AskedAccounts
  <2> QED  BY <2>12 DEF after, more
<1> QED  BY <1>7, <1>8

QueuesOver(U, R, G) == [items : ItemsOver(U, R, G), bytes : Nat]

\* Asking leaves a queue.
LEMMA AskedTyped ==
    ASSUME NEW U, NEW R, NEW G, NEW listings, NEW q \in QueuesOver(U, R, G),
           NEW m \in ModelsOver(U, R), Cost(listings, m) \in Nat,
           NEW bundle \in [models : Seq(ModelsOver(U, R)), families : Seq(G)]
    PROVE  Asked(q, m, bundle, listings) \in QueuesOver(U, R, G)
<1> DEFINE T == [url : U, role : R, families : SUBSET G]
           n == Len(q.items)
<1>1. q \in [items : Seq(T), bytes : Nat] /\ q.items \in Seq(T)
  BY DEF QueuesOver, ItemsOver
<1>2. DOMAIN q.items = 1 .. n /\ n \in Nat /\ \A i \in 1 .. n : q.items[i] \in T
  BY <1>1, LenProperties, ElementOfSeq
<1>3. Range(bundle.families) \in SUBSET G
  <2> DEFINE labels == bundle.families
  <2>1. labels \in Seq(G)
    OBVIOUS
  <2>2. DOMAIN labels = 1 .. Len(labels) /\ \A i \in 1 .. Len(labels) : labels[i] \in G
    BY <2>1, LenProperties, ElementOfSeq
  <2> HIDE DEF labels
  <2>3. Range(labels) \in SUBSET G
    BY <2>2 DEF Range
  <2> QED  BY <2>3 DEF labels
<1>4. CASE \E i \in DOMAIN q.items : SamePlacement(q.items[i], m)
  <2> DEFINE entries == [i \in DOMAIN q.items |-> Joined(q.items[i], m, bundle)]
  <2>1. Asked(q, m, bundle, listings) = [q EXCEPT !.items = entries]
    BY <1>4 DEF Asked
  <2>2. \A i \in 1 .. n : entries[i] \in T
    BY <1>2, <1>3 DEF Joined, MergeFamilies
  <2>3. entries = [i \in 1 .. n |-> entries[i]]
    BY <1>2
  <2> HIDE DEF entries, T, n
  <2>4. entries \in Seq(T)
    BY <1>2, <2>2, <2>3, FunctionIsSequence
  <2>5. [q EXCEPT !.items = entries] \in [items : Seq(T), bytes : Nat]
    BY <1>1, <2>4
  <2> QED  BY <2>1, <2>5 DEF T, QueuesOver, ItemsOver
<1>5. CASE ~\E i \in DOMAIN q.items : SamePlacement(q.items[i], m)
  <2> DEFINE item == [url |-> m.url, role |-> m.role, families |-> Range(bundle.families)]
  <2>1. Asked(q, m, bundle, listings) = [items |-> Append(q.items, item), bytes |-> q.bytes + Cost(listings, m)]
    BY <1>5 DEF Asked, MergeFamilies, Cost
  <2>2. item \in T
    BY <1>3 DEF ModelsOver
  <2> HIDE DEF item, T
  <2>3. Append(q.items, item) \in Seq(T)
    BY <1>1, <2>2, AppendProperties
  <2>4. q.bytes + Cost(listings, m) \in Nat
    BY <1>1
  <2> QED  BY <2>1, <2>3, <2>4 DEF T, QueuesOver, ItemsOver
<1> QED  BY <1>4, <1>5

\* The queue after each of the files of a template, and after each template.
AsksInTurn(f, q, bundle, listings) ==
  /\ f[0] = q /\ AskedBy(q, bundle, listings) = f[Len(bundle.models)]
  /\ \A k \in 1 .. Len(bundle.models) : f[k] = Asked(f[k - 1], bundle.models[k], bundle, listings)

SelectsInTurn(f, bundles, selected, listings) ==
  /\ f[0] = [items |-> <<>>, bytes |-> 0] /\ QueueItems(bundles, selected, listings) = f[Len(bundles)]
  /\ \A k \in 1 .. Len(bundles) :
       f[k] = IF k \in selected THEN AskedBy(f[k - 1], bundles[k], listings) ELSE f[k - 1]

\* The files of a template are asked for one after the other.
LEMMA AskedByGoesOn ==
    ASSUME NEW U, NEW R, NEW G, NEW listings, NEW q \in QueuesOver(U, R, G),
           \A m \in ModelsOver(U, R) : Cost(listings, m) \in Nat,
           NEW bundle \in [models : Seq(ModelsOver(U, R)), families : Seq(G)]
    PROVE  \E f \in [0 .. Len(bundle.models) -> QueuesOver(U, R, G)] : AsksInTurn(f, q, bundle, listings)
<1> DEFINE S == QueuesOver(U, R, G)
           models == bundle.models
           n == Len(models)
           Reached(k, last) == Asked(last, models[k], bundle, listings)
           step == [k \in 1 .. n |-> [last \in S |-> Reached(k, last)]]
           Goes(f) == f = [k \in 0 .. n |-> IF k = 0 THEN q ELSE Reached(k, f[k - 1])]
<1>1. models \in Seq(ModelsOver(U, R)) /\ n \in Nat /\ DOMAIN models = 1 .. n
  <2>1. models \in Seq(ModelsOver(U, R))
    OBVIOUS
  <2> HIDE DEF models
  <2> QED  BY <2>1, LenProperties
<1>2. ASSUME NEW k \in 1 .. n, NEW last \in S PROVE Reached(k, last) \in S
  <2>1. models[k] \in ModelsOver(U, R)
    <3> HIDE DEF models
    <3> QED  BY <1>1, ElementOfSeq
  <2> HIDE DEF models
  <2> QED  BY <1>2, <2>1, AskedTyped
<1>3. step \in [1 .. n -> [S -> S]]
  BY <1>2
<1>4. PICK f \in [0 .. n -> S] : f[0] = q /\ \A k \in 1 .. n : f[k] = step[k][f[k - 1]]
  <2>1. q \in S
    OBVIOUS
  <2>2. \E f \in [0 .. n -> S] : Steps(f, n, q, step)
    <3> HIDE DEF n, S, step
    <3> QED  BY <1>1, <1>3, <2>1, SomethingIterates
  <2> QED  BY <2>2 DEF Steps
<1>5. \A k \in 1 .. n : f[k - 1] \in S /\ f[k] = Reached(k, f[k - 1])
  <2> SUFFICES ASSUME NEW k \in 1 .. n PROVE f[k - 1] \in S /\ f[k] = Reached(k, f[k - 1])
    OBVIOUS
  <2>1. k - 1 \in 0 .. n
    BY <1>1
  <2>2. f[k - 1] \in S
    BY <1>4, <2>1
  <2> HIDE DEF Reached, S
  <2> QED  BY <1>4, <2>2
<1> HIDE DEF S, Reached, n
<1>6. Goes(f)
  <2>1. \A k \in 0 .. n : f[k] = IF k = 0 THEN q ELSE Reached(k, f[k - 1])
    BY <1>1, <1>4, <1>5
  <2>2. f = [k \in 0 .. n |-> f[k]]
    BY <1>4
  <2> QED  BY <2>1, <2>2
<1> DEFINE g == CHOOSE h : Goes(h)
<1>7. Goes(g)
  <2> HIDE DEF Goes
  <2> QED  BY <1>6
<1>8. g[0] = q /\ \A k \in 1 .. n : g[k] = Reached(k, g[k - 1])
  <2>1. DOMAIN g = 0 .. n /\ \A k \in 0 .. n : g[k] = IF k = 0 THEN q ELSE Reached(k, g[k - 1])
    BY <1>7
  <2> HIDE DEF g
  <2> QED  BY <1>1, <2>1
<1>9. AskedBy(q, bundle, listings) = g[n]
  BY DEF AskedBy, Reached, n
<1>10. g \in [0 .. n -> S]
  <2> DEFINE kept == [k \in 0 .. n |-> S]
  <2>1. g[0] \in kept[0]
    BY <1>1, <1>8 DEF S
  <2>2. \A k \in 1 .. n : g[k - 1] \in kept[k - 1] => g[k] \in kept[k]
    <3> SUFFICES ASSUME NEW k \in 1 .. n, g[k - 1] \in S PROVE g[k] \in S
      BY <1>1
    <3> QED  BY <1>2, <1>8
  <2>3. \A k \in 0 .. n : g[k] \in kept[k]
    <3> HIDE DEF g, kept
    <3> QED  BY <1>1, <2>1, <2>2, StepsKeep
  <2>4. \A k \in 0 .. n : g[k] \in S
    BY <2>3
  <2>5. g = [k \in 0 .. n |-> g[k]]
    BY <1>7
  <2> HIDE DEF g
  <2> QED  BY <2>4, <2>5
<1> HIDE DEF g, Goes
<1> QED  BY <1>8, <1>9, <1>10 DEF S, Reached, n, AsksInTurn

\* The pairs of the first files of a template, and of the first templates selected.
PairsBy(models, b, k) == {<<models[j], b>> : j \in 1 .. k}
PairsUpTo(bundles, selected, k) ==
  UNION {PairsBy(bundles[b].models, b, Len(bundles[b].models)) : b \in selected \cap (1 .. k)}

\* A template's files are accounted for with what was asked for before it.
LEMMA OneMoreTemplate ==
    ASSUME NEW U, NEW R, NEW G, NEW bundles \in BundlesOver(U, R, G), NEW listings,
           \A m \in ModelsOver(U, R) : Cost(listings, m) \in Nat,
           NEW pairs \in SUBSET (ModelsOver(U, R) \X DOMAIN bundles),
           NEW q, AskedAccounts(U, R, G, bundles, listings, q, pairs),
           NEW b \in DOMAIN bundles
    PROVE  LET models == bundles[b].models
               after == AskedBy(q, bundles[b], listings)
           IN  /\ after \in QueuesOver(U, R, G)
               /\ AskedAccounts(U, R, G, bundles, listings, after, pairs \cup PairsBy(models, b, Len(models)))
<1> DEFINE bundle == bundles[b]
           models == bundle.models
           n == Len(models)
           S == QueuesOver(U, R, G)
           so(k) == pairs \cup PairsBy(models, b, k)
           Account(k, x) == AskedAccounts(U, R, G, bundles, listings, x, so(k))
           kept == [k \in 0 .. n |-> {x \in S : Account(k, x)}]
<1>1. bundle \in [models : Seq(ModelsOver(U, R)), families : Seq(G)]
  BY ElementOfSeq, LenProperties DEF BundlesOver
<1>2. q \in S
  BY DEF AskedAccounts, QueuesOver
<1>3. models \in Seq(ModelsOver(U, R)) /\ n \in Nat /\ n \in 0 .. n
      /\ \A j \in 1 .. n : models[j] \in ModelsOver(U, R)
  <2>1. models \in Seq(ModelsOver(U, R))
    BY <1>1
  <2> HIDE DEF models
  <2> QED  BY <2>1, LenProperties, ElementOfSeq
<1>4. PICK f \in [0 .. n -> S] :
        /\ f[0] = q /\ AskedBy(q, bundle, listings) = f[n]
        /\ \A k \in 1 .. n : f[k] = Asked(f[k - 1], models[k], bundle, listings)
  <2>1. PICK f \in [0 .. n -> S] : AsksInTurn(f, q, bundle, listings)
    <3> HIDE DEF bundle
    <3> QED  BY <1>1, <1>2, AskedByGoesOn
  <2> QED  BY <2>1 DEF AsksInTurn
<1>5. \A k \in 0 .. n : f[k] \in S /\ (f[k] \in kept[k] <=> Account(k, f[k]))
  <2> HIDE DEF Account, S, n
  <2> QED  BY <1>4
<1>6. Account(0, f[0])
  <2>1. so(0) = pairs
    BY DEF PairsBy
  <2> HIDE DEF so
  <2> QED  BY <1>4, <2>1
<1>7. ASSUME NEW k \in 1 .. n, Account(k - 1, f[k - 1]) PROVE Account(k, f[k])
  <2>1. so(k) = so(k - 1) \cup {<<models[k], b>>}
    <3>1. \A j \in 1 .. k : j \in 1 .. (k - 1) \/ j = k
      BY <1>3
    <3>2. \A j \in 1 .. (k - 1) : j \in 1 .. k
      BY <1>3
    <3>3. k \in 1 .. k
      BY <1>3
    <3> HIDE DEF models
    <3> QED  BY <3>1, <3>2, <3>3 DEF PairsBy
  <2>2. so(k - 1) \in SUBSET (ModelsOver(U, R) \X DOMAIN bundles)
    <3>1. \A j \in 1 .. (k - 1) : <<models[j], b>> \in ModelsOver(U, R) \X DOMAIN bundles
      BY <1>3
    <3> HIDE DEF models
    <3> QED  BY <3>1 DEF PairsBy
  <2>3. models[k] \in ModelsOver(U, R)
    BY <1>3
  <2> HIDE DEF so, models
  <2>4. AskedAccounts(U, R, G, bundles, listings, f[k - 1], so(k - 1))
    BY <1>7
  <2>5. AskedAccounts(U, R, G, bundles, listings, Asked(f[k - 1], models[k], bundles[b], listings),
                      so(k - 1) \cup {<<models[k], b>>})
    BY <2>2, <2>3, <2>4, OneMoreAsked
  <2> QED  BY <1>4, <2>1, <2>5
<1> HIDE DEF Account, S, n
<1>8. f[0] \in kept[0]
  BY <1>3, <1>5, <1>6
<1>9. \A k \in 1 .. n : f[k - 1] \in kept[k - 1] => f[k] \in kept[k]
  <2> SUFFICES ASSUME NEW k \in 1 .. n, f[k - 1] \in kept[k - 1] PROVE f[k] \in kept[k]
    OBVIOUS
  <2>1. k \in 0 .. n /\ k - 1 \in 0 .. n
    BY <1>3
  <2> HIDE DEF kept
  <2> QED  BY <1>5, <1>7, <2>1
<1>10. \A k \in 0 .. n : f[k] \in kept[k]
  <2> HIDE DEF kept
  <2> QED  BY <1>3, <1>8, <1>9, StepsKeep
<1>11. f[n] \in S /\ Account(n, f[n])
  <2> HIDE DEF kept
  <2> QED  BY <1>3, <1>5, <1>10
<1> QED  BY <1>4, <1>11 DEF Account, S, n

\* The templates that were selected are gone through one after the other.
LEMMA QueueGoesOn ==
    ASSUME NEW U, NEW R, NEW G, NEW bundles \in BundlesOver(U, R, G), NEW listings, NEW selected,
           \A m \in ModelsOver(U, R) : Cost(listings, m) \in Nat
    PROVE  \E f : SelectsInTurn(f, bundles, selected, listings)
<1> DEFINE S == QueuesOver(U, R, G)
           n == Len(bundles)
           start == [items |-> <<>>, bytes |-> 0]
           Reached(k, last) == IF k \in selected THEN AskedBy(last, bundles[k], listings) ELSE last
           step == [k \in 1 .. n |-> [last \in S |-> Reached(k, last)]]
           Goes(f) == f = [k \in 0 .. n |-> IF k = 0 THEN start ELSE Reached(k, f[k - 1])]
<1>1. n \in Nat /\ DOMAIN bundles = 1 .. n
      /\ \A k \in 1 .. n : bundles[k] \in [models : Seq(ModelsOver(U, R)), families : Seq(G)]
  BY LenProperties, ElementOfSeq DEF BundlesOver
<1>2. ASSUME NEW k \in 1 .. n, NEW last \in S PROVE Reached(k, last) \in S
  <2> DEFINE bundle == bundles[k]
             m == Len(bundle.models)
  <2>1. bundle \in [models : Seq(ModelsOver(U, R)), families : Seq(G)]
    BY <1>1
  <2> HIDE DEF bundle
  <2>2. PICK f \in [0 .. m -> S] : AskedBy(last, bundle, listings) = f[m]
    <3>1. PICK f \in [0 .. m -> S] : AsksInTurn(f, last, bundle, listings)
      BY <1>2, <2>1, AskedByGoesOn
    <3> QED  BY <3>1 DEF AsksInTurn
  <2>3. m \in 0 .. m
    <3> DEFINE models == bundle.models
    <3>1. models \in Seq(ModelsOver(U, R))
      BY <2>1
    <3> HIDE DEF models
    <3>2. Len(models) \in Nat
      BY <3>1, LenProperties
    <3> QED  BY <3>2 DEF models
  <2>4. AskedBy(last, bundle, listings) \in S
    <3> HIDE DEF m, S
    <3> QED  BY <2>2, <2>3
  <2> QED  BY <1>2, <2>4 DEF bundle
<1>3. step \in [1 .. n -> [S -> S]]
  BY <1>2
<1>4. PICK f \in [0 .. n -> S] : f[0] = start /\ \A k \in 1 .. n : f[k] = step[k][f[k - 1]]
  <2>1. start \in S
    BY DEF QueuesOver, ItemsOver
  <2>2. \E f \in [0 .. n -> S] : Steps(f, n, start, step)
    <3> HIDE DEF n, S, step, start
    <3> QED  BY <1>1, <1>3, <2>1, SomethingIterates
  <2> QED  BY <2>2 DEF Steps
<1>5. \A k \in 1 .. n : f[k] = Reached(k, f[k - 1])
  <2> SUFFICES ASSUME NEW k \in 1 .. n PROVE f[k] = Reached(k, f[k - 1])
    OBVIOUS
  <2>1. k - 1 \in 0 .. n
    BY <1>1
  <2>2. f[k - 1] \in S
    BY <1>4, <2>1
  <2> HIDE DEF Reached, S
  <2> QED  BY <1>4, <2>2
<1> HIDE DEF S, Reached, n, start
<1>6. Goes(f)
  <2>1. \A k \in 0 .. n : f[k] = IF k = 0 THEN start ELSE Reached(k, f[k - 1])
    BY <1>1, <1>4, <1>5
  <2>2. f = [k \in 0 .. n |-> f[k]]
    BY <1>4
  <2> QED  BY <2>1, <2>2
<1> DEFINE g == CHOOSE h : Goes(h)
<1>7. Goes(g)
  <2> HIDE DEF Goes
  <2> QED  BY <1>6
<1>8. g[0] = start /\ \A k \in 1 .. n : g[k] = Reached(k, g[k - 1])
  <2>1. DOMAIN g = 0 .. n /\ \A k \in 0 .. n : g[k] = IF k = 0 THEN start ELSE Reached(k, g[k - 1])
    BY <1>7
  <2> HIDE DEF g
  <2> QED  BY <1>1, <2>1
<1>9. QueueItems(bundles, selected, listings) = g[n]
  BY DEF QueueItems, Reached, n, start
<1> HIDE DEF g, Goes
<1> QED  BY <1>8, <1>9 DEF Reached, n, start, SelectsInTurn

\* What the selection asks for is accounted for.
LEMMA SelectionAccounts ==
    ASSUME NEW U, NEW R, NEW G, NEW bundles \in BundlesOver(U, R, G), NEW listings,
           NEW selected \in SUBSET DOMAIN bundles,
           \A m \in ModelsOver(U, R) : Cost(listings, m) \in Nat
    PROVE  AskedAccounts(U, R, G, bundles, listings, QueueItems(bundles, selected, listings),
                         PairsUpTo(bundles, selected, Len(bundles)))
<1> DEFINE n == Len(bundles)
           S == QueuesOver(U, R, G)
           so(k) == PairsUpTo(bundles, selected, k)
           Account(k, x) == AskedAccounts(U, R, G, bundles, listings, x, so(k))
           kept == [k \in 0 .. n |-> {x \in S : Account(k, x)}]
<1>1. PICK f :
        /\ f[0] = [items |-> <<>>, bytes |-> 0] /\ QueueItems(bundles, selected, listings) = f[n]
        /\ \A k \in 1 .. n : f[k] = IF k \in selected THEN AskedBy(f[k - 1], bundles[k], listings) ELSE f[k - 1]
  <2>1. PICK f : SelectsInTurn(f, bundles, selected, listings)
    BY QueueGoesOn
  <2> QED  BY <2>1 DEF SelectsInTurn
<1>2. /\ n \in Nat /\ DOMAIN bundles = 1 .. n /\ n \in 0 .. n
      /\ \A k \in 1 .. n : bundles[k] \in [models : Seq(ModelsOver(U, R)), families : Seq(G)]
  <2>1. n \in Nat /\ DOMAIN bundles = 1 .. n
    BY LenProperties DEF BundlesOver
  <2>2. \A k \in 1 .. n : bundles[k] \in [models : Seq(ModelsOver(U, R)), families : Seq(G)]
    BY ElementOfSeq DEF BundlesOver
  <2>3. n \in 0 .. n
    BY <2>1
  <2> QED  BY <2>1, <2>2, <2>3
<1>3. \A k \in 0 .. n : \A x : x \in kept[k] <=> x \in S /\ Account(k, x)
  <2> HIDE DEF Account, S, n
  <2> QED  OBVIOUS
<1>4. \A k \in 0 .. n : so(k) \in SUBSET (ModelsOver(U, R) \X DOMAIN bundles)
  <2> SUFFICES ASSUME NEW k \in 0 .. n, NEW p \in so(k) PROVE p \in ModelsOver(U, R) \X DOMAIN bundles
    OBVIOUS
  <2>1. PICK b \in selected : \E j \in 1 .. Len(bundles[b].models) : p = <<bundles[b].models[j], b>>
    BY DEF PairsUpTo, PairsBy
  <2> DEFINE models == bundles[b].models
  <2>2. models \in Seq(ModelsOver(U, R))
    BY <1>2
  <2>3. PICK j \in 1 .. Len(models) : p = <<models[j], b>>
    BY <2>1
  <2> HIDE DEF models
  <2>4. models[j] \in ModelsOver(U, R)
    BY <2>2, ElementOfSeq
  <2> QED  BY <2>3, <2>4
<1>5. f[0] \in kept[0]
  <2> DEFINE q == f[0]
  <2>1. q \in S /\ q.items = <<>> /\ q.bytes = 0 /\ DOMAIN q.items = {}
    BY <1>1 DEF QueuesOver, ItemsOver
  <2>2. so(0) = {}
    BY DEF PairsUpTo
  <2>3. Files(so(0)) = {}
    BY <2>2 DEF Files
  <2>4. Paid(listings, {}) = 0
    BY NothingIsPaid
  <2> HIDE DEF q, so
  <2>5. AskedAccounts(U, R, G, bundles, listings, q, so(0))
    BY <2>1, <2>3, <2>4 DEF AskedAccounts, QueuesOver
  <2> QED  BY <1>2, <1>3, <2>1, <2>5 DEF q
<1>6. ASSUME NEW k \in 1 .. n, f[k - 1] \in kept[k - 1] PROVE f[k] \in kept[k]
  <2>1. k \in 0 .. n /\ k - 1 \in 0 .. n
    BY <1>2
  <2>2. f[k - 1] \in S /\ Account(k - 1, f[k - 1])
    <3> HIDE DEF kept, Account, S, n
    <3> QED  BY <1>3, <1>6, <2>1
  <2>3. \A b \in 1 .. k : b \in 1 .. (k - 1) \/ b = k
    BY <1>2
  <2>4. k \in 1 .. k /\ \A b \in 1 .. (k - 1) : b \in 1 .. k
    BY <1>2
  <2> DEFINE models == bundles[k].models
  <2>5. CASE k \in selected
    <3>1. so(k) = so(k - 1) \cup PairsBy(models, k, Len(models))
      <4>1. selected \cap (1 .. k) = (selected \cap (1 .. (k - 1))) \cup {k}
        BY <2>3, <2>4, <2>5
      <4> QED  BY <4>1 DEF PairsUpTo
    <3>2. so(k - 1) \in SUBSET (ModelsOver(U, R) \X DOMAIN bundles)
      BY <1>4, <2>1
    <3> DEFINE pairs == so(k - 1)
               after == AskedBy(f[k - 1], bundles[k], listings)
    <3>3. AskedAccounts(U, R, G, bundles, listings, f[k - 1], pairs) /\ k \in DOMAIN bundles
      BY <1>2, <2>2
    <3> HIDE DEF pairs
    <3>4. /\ after \in QueuesOver(U, R, G)
          /\ AskedAccounts(U, R, G, bundles, listings, after, pairs \cup PairsBy(models, k, Len(models)))
      BY <3>2, <3>3, OneMoreTemplate DEF pairs
    <3>5. f[k] = after
      BY <1>1, <2>5
    <3> HIDE DEF after, so
    <3>6. f[k] \in S /\ Account(k, f[k])
      BY <3>1, <3>4, <3>5 DEF pairs
    <3> HIDE DEF kept, Account, S, n
    <3> QED  BY <1>3, <2>1, <3>6
  <2>6. CASE k \notin selected
    <3>1. so(k) = so(k - 1)
      <4>1. selected \cap (1 .. k) = selected \cap (1 .. (k - 1))
        BY <2>3, <2>4, <2>6
      <4> QED  BY <4>1 DEF PairsUpTo
    <3>2. f[k] = f[k - 1]
      BY <1>1, <2>6
    <3> HIDE DEF so
    <3>3. f[k] \in S /\ Account(k, f[k])
      BY <2>2, <3>1, <3>2
    <3> HIDE DEF kept, Account, S, n
    <3> QED  BY <1>3, <2>1, <3>3
  <2> QED  BY <2>5, <2>6
<1>7. \A k \in 0 .. n : f[k] \in kept[k]
  <2> HIDE DEF kept, n
  <2> QED  BY <1>2, <1>5, <1>6, StepsKeep
<1>8. Account(n, f[n])
  <2> HIDE DEF kept, Account, S, n
  <2> QED  BY <1>2, <1>3, <1>7
<1> QED  BY <1>1, <1>8

\* A set made into a list has its number of elements.
LEMMA ListedAsMany ==
    ASSUME NEW S, IsFiniteSet(S) PROVE Len(SetToSeq(S)) = Cardinality(S)
<1> DEFINE n == Cardinality(S)
           Lists(f) == f \in [1 .. n -> S] /\ IsInjective(f)
<1>1. n \in Nat
  BY FS_CardinalityType
<1>2. \E f : Lists(f)
  <2>1. PICK m \in Nat : ExistsBijection(1 .. m, S)
    BY FS_NatBijection
  <2>2. m = n
    BY <2>1, FS_CountingElements
  <2> HIDE DEF n
  <2>3. PICK f : f \in Bijection(1 .. n, S)
    BY <2>1, <2>2 DEF ExistsBijection
  <2> QED  BY <2>3 DEF Bijection, Injection
<1>3. Lists(SetToSeq(S))
  <2> DEFINE chosen == CHOOSE f : Lists(f)
  <2>1. Lists(chosen)
    <3> HIDE DEF Lists
    <3> QED  BY <1>2
  <2>2. SetToSeq(S) = CHOOSE f \in [1 .. n -> S] : IsInjective(f)
    BY DEF SetToSeq
  <2> HIDE DEF n
  <2> QED  BY <1>2, <2>2
<1>4. DOMAIN SetToSeq(S) = 1 .. n
  BY <1>3
<1> HIDE DEF n
<1>5. SetToSeq(S) \in Seq(S)
  BY <1>1, <1>3, SeqDef
<1> QED  BY <1>1, <1>4, <1>5, LenProperties DEF n

\* Of every selection of any templates, over listings of any sizes, a file that they share
\* is queued and paid for once, and filed under a family only if it is the only one of all
\* that asked (cli/mod.rs:1230-1280, placement.rs:307-311).
THEOREM SharedFilesAreQueuedOnce ==
    ASSUME NEW U, NEW R, NEW G, NEW bundles \in BundlesOver(U, R, G), NEW listings,
           NEW selected \in SUBSET DOMAIN bundles,
           \A url \in U : Known(SizeOf(listings, url)) \in Nat
    PROVE  SharedFilesAbstain(bundles, selected, listings)
<1> DEFINE q == QueueItems(bundles, selected, listings)
           pairs == PairsUpTo(bundles, selected, Len(bundles))
           asked == UNION {Range(bundles[b].models) : b \in selected}
           askers(m) == {b \in selected : \E x \in Range(bundles[b].models) : SamePlacement(m, x)}
           families(item) == UNION {Range(bundles[b].families) : b \in askers(item)}
           n == Len(q.items)
           filed(item) == ResolveFamily(FamilyEvidence(QueuedJob(item), [base |-> {}]), <<>>)
<1>1. \A m \in ModelsOver(U, R) : Cost(listings, m) \in Nat
  BY DEF ModelsOver, Cost
<1>2. AskedAccounts(U, R, G, bundles, listings, q, pairs)
  BY <1>1, SelectionAccounts
<1>3. /\ DOMAIN bundles = 1 .. Len(bundles) /\ selected \cap (1 .. Len(bundles)) = selected
      /\ \A b \in selected : bundles[b].models \in Seq(ModelsOver(U, R))
  <2>1. DOMAIN bundles = 1 .. Len(bundles) /\ Len(bundles) \in Nat
    BY LenProperties DEF BundlesOver
  <2>2. \A b \in 1 .. Len(bundles) : bundles[b] \in [models : Seq(ModelsOver(U, R)), families : Seq(G)]
    BY <2>1, ElementOfSeq DEF BundlesOver
  <2> QED  BY <2>1, <2>2
<1>4. \A b \in selected :
        LET models == bundles[b].models
        IN  DOMAIN models = 1 .. Len(models) /\ Range(models) \in SUBSET ModelsOver(U, R)
  <2> SUFFICES ASSUME NEW b \in selected
               PROVE  LET models == bundles[b].models
                      IN  DOMAIN models = 1 .. Len(models) /\ Range(models) \in SUBSET ModelsOver(U, R)
    OBVIOUS
  <2> DEFINE models == bundles[b].models
  <2>1. models \in Seq(ModelsOver(U, R))
    BY <1>3
  <2> HIDE DEF models
  <2>2. DOMAIN models = 1 .. Len(models) /\ \A j \in 1 .. Len(models) : models[j] \in ModelsOver(U, R)
    BY <2>1, LenProperties, ElementOfSeq
  <2>3. Range(models) \in SUBSET ModelsOver(U, R)
    BY <2>2 DEF Range
  <2> QED  BY <2>2, <2>3 DEF models
<1>5. \A p : p \in pairs <=> \E b \in selected : \E m \in Range(bundles[b].models) : p = <<m, b>>
  <2> SUFFICES ASSUME NEW p
               PROVE  p \in pairs <=> \E b \in selected : \E m \in Range(bundles[b].models) : p = <<m, b>>
    OBVIOUS
  <2>1. p \in pairs <=> \E b \in selected : p \in PairsBy(bundles[b].models, b, Len(bundles[b].models))
    BY <1>3 DEF PairsUpTo
  <2>2. ASSUME NEW b \in selected
        PROVE  p \in PairsBy(bundles[b].models, b, Len(bundles[b].models))
                 <=> \E m \in Range(bundles[b].models) : p = <<m, b>>
    BY <1>4 DEF PairsBy, Range
  <2> QED  BY <2>1, <2>2
<1> HIDE DEF q, pairs
<1>6. Files(pairs) = asked
  <2>1. ASSUME NEW m PROVE m \in Files(pairs) <=> m \in asked
    <3>1. m \in asked <=> \E b \in selected : m \in Range(bundles[b].models)
      OBVIOUS
    <3>2. m \in Files(pairs) <=> \E p \in pairs : p[1] = m
      BY DEF Files
    <3>3. (\E p \in pairs : p[1] = m) <=> \E b \in selected : <<m, b>> \in pairs
      <4>1. ASSUME NEW p \in pairs, p[1] = m PROVE \E b \in selected : <<m, b>> \in pairs
        <5>1. PICK b \in selected : \E x \in Range(bundles[b].models) : p = <<x, b>>
          BY <1>5
        <5>2. PICK x \in Range(bundles[b].models) : p = <<x, b>>
          BY <5>1
        <5>3. x = m
          BY <4>1, <5>2
        <5> QED  BY <5>2, <5>3
      <4>2. \A b : <<m, b>>[1] = m
        OBVIOUS
      <4> QED  BY <4>1, <4>2
    <3>4. \A b \in selected : <<m, b>> \in pairs <=> m \in Range(bundles[b].models)
      BY <1>5
    <3> HIDE DEF asked
    <3> QED  BY <3>1, <3>2, <3>3, <3>4
  <2> HIDE DEF asked
  <2> QED  BY <2>1
<1>7. /\ q \in QueuesOver(U, R, G)
      /\ \A i, j \in DOMAIN q.items : FileOf(q.items[i]) = FileOf(q.items[j]) => i = j
      /\ {FileOf(q.items[i]) : i \in DOMAIN q.items} = asked
      /\ \A i \in DOMAIN q.items :
           /\ q.items[i].families = FamiliesOf(bundles, pairs, FileOf(q.items[i]))
           /\ IsFiniteSet(q.items[i].families)
      /\ q.bytes = Paid(listings, asked)
  BY <1>2, <1>6 DEF AskedAccounts, QueuesOver
<1>8. n \in Nat /\ DOMAIN q.items = 1 .. n
  BY <1>7, LenProperties DEF QueuesOver, ItemsOver
<1>9. \A item : \A m \in asked : SamePlacement(item, m) <=> FileOf(item) = m
  <2>1. \A m \in asked : m \in ModelsOver(U, R)
    BY <1>4
  <2>2. \A m \in ModelsOver(U, R) : m = [url |-> m.url, role |-> m.role]
    BY DEF ModelsOver
  <2> HIDE DEF asked
  <2> QED  BY <2>1, <2>2 DEF FileOf, SamePlacement
<1>10. \A m \in asked : \E i \in DOMAIN q.items : SamePlacement(q.items[i], m)
  <2> HIDE DEF asked
  <2> QED  BY <1>7, <1>9
<1>11. n = Cardinality(asked)
  <2> DEFINE h == [i \in 1 .. n |-> FileOf(q.items[i])]
  <2> HIDE DEF asked, n
  <2>1. h \in Bijection(1 .. n, asked)
    BY <1>7, <1>8 DEF Bijection, Injection, Surjection, IsInjective
  <2>2. ExistsBijection(1 .. n, asked)
    <3> HIDE DEF h
    <3> QED  BY <2>1 DEF ExistsBijection
  <2> QED  BY <1>8, <2>2, FS_CountingElements
<1>12. q.bytes = MapThenSumSet(LAMBDA m : Known(SizeOf(listings, m.url)), asked)
  BY <1>7 DEF Paid
<1>13. ASSUME NEW i \in DOMAIN q.items PROVE families(q.items[i]) = q.items[i].families
  <2> DEFINE m == FileOf(q.items[i])
  <2>1. \A b : b \in askers(q.items[i]) <=> b \in selected /\ m \in Range(bundles[b].models)
    <3> SUFFICES ASSUME NEW b \in selected
                 PROVE  (\E x \in Range(bundles[b].models) : SamePlacement(q.items[i], x))
                          <=> m \in Range(bundles[b].models)
      OBVIOUS
    <3>1. Range(bundles[b].models) \in SUBSET asked
      OBVIOUS
    <3> HIDE DEF asked
    <3> QED  BY <1>9, <3>1
  <2>2. ASSUME NEW b
        PROVE  (\E p \in pairs : p[1] = m /\ p[2] = b) <=> b \in selected /\ m \in Range(bundles[b].models)
    <3> HIDE DEF m
    <3>1. <<m, b>>[1] = m /\ <<m, b>>[2] = b
      OBVIOUS
    <3>2. b \in selected /\ m \in Range(bundles[b].models) => <<m, b>> \in pairs
      BY <1>5
    <3>3. ASSUME NEW p \in pairs, p[1] = m, p[2] = b PROVE b \in selected /\ m \in Range(bundles[b].models)
      <4>1. PICK c \in selected : \E x \in Range(bundles[c].models) : p = <<x, c>>
        BY <1>5
      <4>2. PICK x \in Range(bundles[c].models) : p = <<x, c>>
        BY <4>1
      <4>3. x = m /\ c = b
        BY <3>3, <4>2
      <4> QED  BY <4>3
    <3> QED  BY <3>1, <3>2, <3>3
  <2>3. FamiliesOf(bundles, pairs, m) = UNION {Range(bundles[b].families) : b \in askers(q.items[i])}
    <3> DEFINE who == askers(q.items[i])
    <3>1. \A b : b \in who <=> \E p \in pairs : p[1] = m /\ p[2] = b
      BY <2>1, <2>2
    <3> HIDE DEF who, m
    <3>2. FamiliesOf(bundles, pairs, m) = UNION {Range(bundles[b].families) : b \in who}
      BY <3>1 DEF FamiliesOf
    <3> QED  BY <3>2 DEF who
  <2> QED  BY <1>7, <2>3
<1>14. ASSUME NEW i \in DOMAIN q.items, filed(q.items[i]).source = "single_family_template"
       PROVE  Cardinality(families(q.items[i])) = 1
  <2> DEFINE item == q.items[i]
             labels == SetToSeq(item.families)
  <2>1. Len(labels) = 1
    BY <1>14 DEF ResolveFamily, FamilyEvidence, QueuedJob, Filed, Unfiled
  <2>2. Len(labels) = Cardinality(item.families)
    BY <1>7, ListedAsMany
  <2> HIDE DEF families, labels
  <2> QED  BY <1>13, <2>1, <2>2
<1> QED  BY <1>10, <1>11, <1>12, <1>14 DEF SharedFilesAbstain, q

----------------------------------------------------------------------------
(* The questions that the instance of MCServices asks.                     *)

\* A bounded sequence is a sequence.
LEMMA BoundedSequences == ASSUME NEW S, NEW n \in Nat PROVE SeqOf(S, n) \subseteq Seq(S)
<1>1. \A m \in Nat : [1 .. m -> S] \subseteq Seq(S)
  BY SeqDef
<1>2. ASSUME NEW s \in SeqOf(S, n) PROVE s \in Seq(S)
  <2>1. PICK m \in 0 .. n : s \in [1 .. m -> S]
    BY <1>2 DEF SeqOf
  <2> QED  BY <1>1, <2>1
<1> QED  BY <1>2

\* The workflows that are asked for follow TheNodesDecide: a file is listed once, in the
\* role its first node declares (templates/mod.rs:331-395).
THEOREM WorkflowsAskedFor == Spec => []WorkflowsDeclare
<1>1. ASSUME input \in InputsOf(service) PROVE WorkflowsDeclare
  <2> SUFFICES ASSUME service = "workflow" PROVE NodesDecide(input.workflow)
    BY DEF WorkflowsDeclare
  <2> DEFINE headings == Opt({"VAE", "Diffusion Models", "Notes"})
             workflow == input.workflow
  <2>1. workflow \in Workflows
    BY <1>1 DEF InputsOf
  <2>2. SomeMentions = MentionsOver(Links, headings)
    BY DEF SomeMentions, MentionsOver
  <2>3. SeqOf(SomeMentions, 2) \subseteq Seq(SomeMentions) /\ SeqOf(SomeMentions, 1) \subseteq Seq(SomeMentions)
    BY BoundedSequences
  <2> HIDE DEF headings, workflow
  <2>4. workflow \in [nodes : Seq(SomeMentions), notes : Seq(SomeMentions)]
    BY <2>1, <2>3 DEF Workflows
  <2>5. NodesDecide(workflow)
    BY <2>2, <2>4, TheNodesDecide
  <2> QED  BY <2>5 DEF workflow
<1> QED  BY <1>1, QuestionsStay, PTL

\* The listings that are asked for follow ListingsAreAccountedFor: every template is
\* offered, counted as hidden, or has nothing to offer (templates/mod.rs:225-238).
THEOREM ListingsAskedFor == Spec => []ListingsAccount
<1>1. ASSUME input \in InputsOf(service) PROVE ListingsAccount
  <2> DEFINE vram == Vram(input.configured, input.sysfs, input.smi)
  <2> HIDE DEF vram
  <2> SUFFICES ASSUME service = "listing"
               PROVE  ListingAccounts(Index, input.filter, input.workflows, Listings, vram, input.all)
    BY DEF ListingsAccount, vram
  <2>1. input.all \in BOOLEAN
    BY <1>1 DEF InputsOf
  <2>2. PICK first, second, third : Index = <<first, second, third>>
    BY DEF Index
  <2>3. Index \in Seq({first, second, third})
    BY <2>2
  <2> QED  BY <2>1, <2>3, ListingsAreAccountedFor
<1> QED  BY <1>1, QuestionsStay, PTL

\* The selections that are asked for follow SharedFilesAreQueuedOnce: a file that two
\* templates list is queued once, under a family only if it is theirs alone
\* (cli/mod.rs:1230-1280).
THEOREM SelectionsAskedFor == Spec => []SharedFilesAreNobodys
<1>1. ASSUME input \in InputsOf(service) PROVE SharedFilesAreNobodys
  <2> DEFINE bundles == input.bundles
             roles == {"vae", "loras"}
             labels == {<<"n">>, <<"x">>}
  <2> SUFFICES ASSUME service = "selection"
               PROVE  SharedFilesAbstain(bundles, DOMAIN bundles \ {input.spared}, Listings)
    BY DEF SharedFilesAreNobodys
  <2>1. bundles \in SeqOf(SomeBundles, 2)
    BY <1>1 DEF InputsOf
  <2>2. SomeBundles \subseteq [models : Seq(ModelsOver(Urls, roles)), families : Seq(labels)]
    <3>1. {<<>>, <<<<"n">>>>, <<<<"x">>, <<"n">>>>} \subseteq Seq(labels)
      OBVIOUS
    <3>2. SeqOf([url : Urls, role : roles], 2) \subseteq Seq(ModelsOver(Urls, roles))
      BY BoundedSequences DEF ModelsOver
    <3> HIDE DEF roles, labels
    <3> QED  BY <3>1, <3>2 DEF SomeBundles, roles
  <2>3. bundles \in BundlesOver(Urls, roles, labels)
    <3> DEFINE shape == [models : Seq(ModelsOver(Urls, roles)), families : Seq(labels)]
    <3>1. SeqOf(SomeBundles, 2) \subseteq Seq(SomeBundles)
      BY BoundedSequences
    <3> HIDE DEF bundles, shape
    <3>2. bundles \in Seq(SomeBundles) /\ SomeBundles \subseteq shape
      BY <2>1, <2>2, <3>1 DEF shape
    <3>3. bundles \in Seq(shape)
      BY <3>2
    <3> QED  BY <3>3 DEF BundlesOver, shape
  <2>4. ASSUME NEW url \in Urls PROVE Known(SizeOf(Listings, url)) \in Nat
    <3>1. <<"vae">> # <<>>
      OBVIOUS
    <3>2. CASE url = [dir |-> <<"vae">>, file |-> "a"]
      <4> DEFINE entry == [file |-> "a", size |-> 4]
      <4>1. Listings[url.dir] = {{entry}} /\ url.file = "a"
        BY <3>1, <3>2 DEF Listings
      <4>2. entry.size = 4 /\ entry.file = "a"
        OBVIOUS
      <4> HIDE DEF entry
      <4>3. SizeOf(Listings, url) = {4}
        <5>1. {e \in {entry} : e.file = url.file} = {entry}
          BY <4>1, <4>2
        <5>2. The(Listings[url.dir]) = {entry}
          BY <4>1, TheOne
        <5>3. SizeOf(Listings, url) = {e.size : e \in {entry}}
          BY <4>1, <5>1, <5>2 DEF SizeOf
        <5> QED  BY <4>2, <5>3
      <4>4. The({4}) = 4
        BY TheOne
      <4>5. Known({4}) = 4
        BY <4>4 DEF Known
      <4> QED  BY <4>3, <4>5
    <3>3. CASE url = [dir |-> <<>>, file |-> "b"]
      <4>1. Listings[url.dir] = {}
        BY <3>3 DEF Listings
      <4> QED  BY <4>1 DEF SizeOf, Known
    <3> QED  BY <3>2, <3>3 DEF Urls
  <2> HIDE DEF bundles, roles, labels
  <2> QED  BY <2>3, <2>4, SharedFilesAreQueuedOnce
<1> QED  BY <1>1, QuestionsStay, PTL

=============================================================================
