---------------------------- MODULE LinterProofs ----------------------------
(***************************************************************************)
(* Theorems about what the generator makes of the files, what the linter   *)
(* says of them, and what it prints of that under filters and a limit,     *)
(* for any installations, Apps, paths, trees, files and flags.             *)
(***************************************************************************)
EXTENDS LintReport, FiniteSetTheorems, SequenceTheorems, WellFoundedInduction, TLAPS

-----------------------------------------------------------------------------
(* Documents *)

\* Documents stay documents when patched (applyPatch).
LEMMA PatchedPartial ==
  ASSUME NEW T, NEW base \in Partial(T), NEW patch \in Partial(T)
  PROVE  Patched(base, patch) \in Partial(T)
<1>1. PICK S \in SUBSET Paths : base \in [S -> T]
  BY DEF Partial
<1>2. PICK R \in SUBSET Paths : patch \in [R -> T]
  BY DEF Partial
<1>3. Patched(base, patch) \in [S \cup R -> T]
  BY <1>1, <1>2 DEF Patched
<1> QED
  BY <1>3 DEF Partial

\* A file that does not exist counts as an empty one.
LEMMA OrEmptyPartial ==
  ASSUME NEW T, NEW doc \in Partial(T) \cup {None}
  PROVE  OrEmpty(doc) \in Partial(T)
<1>1. Empty \in [{} -> T]
  BY DEF Empty
<1> QED
  BY <1>1 DEF OrEmpty, Partial

\* Documents stay documents when a leaf is set or removed.
LEMMA WithPartial ==
  ASSUME NEW T, NEW doc \in Partial(T), NEW p \in Paths, NEW v \in T
  PROVE  With(doc, p, v) \in Partial(T)
<1>1. [q \in {p} |-> v] \in [{p} -> T] /\ {p} \in SUBSET Paths
  OBVIOUS
<1>2. [q \in {p} |-> v] \in Partial(T)
  BY <1>1 DEF Partial
<1> QED
  BY <1>2, PatchedPartial DEF With

LEMMA WithoutPartial ==
  ASSUME NEW T, NEW doc \in Partial(T), NEW p
  PROVE  Without(doc, p) \in Partial(T)
<1>1. PICK S \in SUBSET Paths : doc \in [S -> T]
  BY DEF Partial
<1>2. Without(doc, p) \in [S \ {p} -> T]
  BY <1>1 DEF Without
<1> QED
  BY <1>2 DEF Partial

-----------------------------------------------------------------------------
(* Types *)

\* Every commit keeps the types of the files.
LEMMA NextFiles ==
  ASSUME TypeOK, Next
  PROVE  files' \in Files
<1> USE DEF TypeOK, Commit
<1>1. ASSUME NEW p \in Paths, UnsetConfig(p) PROVE files' \in Files
  BY <1>1, WithoutPartial DEF UnsetConfig, Files
<1>2. ASSUME NEW p \in Paths, NEW i \in Installations, UnsetPatch(i, p)
      PROVE  files' \in Files
  <2>1. Without(files.patch[i], p) \in Partial(Value)
    BY <1>2, WithoutPartial DEF UnsetPatch, Files
  <2> QED
    BY <1>2, <2>1 DEF UnsetPatch, Files
<1>3. ASSUME NEW p \in Paths, NEW i \in Installations, UnsetSecret(i, p)
      PROVE  files' \in Files
  <2>1. Without(files.secret[i], p) \in Partial(Value)
    BY WithoutPartial DEF Files
  <2> QED
    BY <1>3, <2>1 DEF UnsetSecret, Files
<1>4. ASSUME NEW i \in Installations, RemovePatch(i) PROVE files' \in Files
  BY <1>4 DEF RemovePatch, Files
<1>5. ASSUME NEW p \in Paths, NEW v \in Value, SetConfig(p, v)
      PROVE  files' \in Files
  BY <1>5, WithPartial DEF SetConfig, Files
<1>6. ASSUME NEW p \in Paths, NEW v \in Value, NEW i \in Installations, SetPatch(i, p, v)
      PROVE  files' \in Files
  <2>1. With(OrEmpty(files.patch[i]), p, v) \in Partial(Value)
    BY WithPartial, OrEmptyPartial DEF Files
  <2> QED
    BY <1>6, <2>1 DEF SetPatch, Files
<1>7. ASSUME NEW p \in Paths, NEW v \in Value, NEW i \in Installations, SetSecret(i, p, v)
      PROVE  files' \in Files
  <2>1. With(files.secret[i], p, v) \in Partial(Value)
    BY WithPartial DEF Files
  <2> QED
    BY <1>7, <2>1 DEF SetSecret, Files
<1>8. ASSUME NEW a \in Apps, NEW p \in Paths, NEW l \in Line, SetTemplate(a, p, l)
      PROVE  files' \in Files
  <2>1. With(files.template[a], p, l) \in Partial(Line)
    BY WithPartial DEF Files
  <2> QED
    BY <1>8, <2>1 DEF SetTemplate, Files
<1>9. ASSUME NEW a \in Apps, NEW p \in Paths, NEW l \in Line, SetSecretTemplate(a, p, l)
      PROVE  files' \in Files
  <2>1. With(OrEmpty(files.secretTemplate[a]), p, l) \in Partial(Line)
    BY WithPartial, OrEmptyPartial DEF Files
  <2> QED
    BY <1>9, <2>1 DEF SetSecretTemplate, Files
<1>10. ASSUME NEW a \in Apps, NEW p \in Paths, NEW l \in Line, NEW i \in Installations,
              SetTemplatePatch(i, a, p, l)
       PROVE  files' \in Files
  <2>1. With(OrEmpty(files.templatePatch[i][a]), p, l) \in Partial(Line)
    BY WithPartial, OrEmptyPartial DEF Files
  <2> QED
    BY <1>10, <2>1 DEF SetTemplatePatch, Files
<1>11. ASSUME NEW a \in Apps, NEW p \in Paths, NEW l \in Line, NEW i \in Installations,
              SetSecretPatch(i, a, p, l)
       PROVE  files' \in Files
  <2>1. With(OrEmpty(files.secretPatch[i][a]), p, l) \in Partial(Line)
    BY WithPartial, OrEmptyPartial DEF Files
  <2> QED
    BY <1>11, <2>1 DEF SetSecretPatch, Files
<1>12. ASSUME NEW a \in Apps, RemoveSecretTemplate(a) PROVE files' \in Files
  BY <1>12 DEF RemoveSecretTemplate, Files
<1>13. ASSUME NEW n \in Includes, RemoveInclude(n) PROVE files' \in Files
  BY <1>13 DEF RemoveInclude, Files
<1>14. ASSUME NEW n \in Includes, NEW refs \in SUBSET Fields, NEW includes \in SUBSET Includes,
              SetInclude(n, refs, includes)
       PROVE  files' \in Files
  BY <1>14 DEF SetInclude, Files
<1> QED
  BY <1>1, <1>2, <1>3, <1>4, <1>5, <1>6, <1>7, <1>8, <1>9, <1>10, <1>11, <1>12, <1>13,
     <1>14, FilesAssumption DEF Next

\* A commit is counted, and only while the bound allows.
LEMMA NextCommits ==
  ASSUME TypeOK, Next
  PROVE  commits' \in 0 .. MaxCommits
<1>1. commits < MaxCommits /\ commits' = commits + 1
  BY DEF Next, Commit, UnsetConfig, UnsetPatch, UnsetSecret, RemovePatch, SetConfig,
         SetPatch, SetSecret, SetTemplate, SetSecretTemplate, SetTemplatePatch,
         SetSecretPatch, RemoveSecretTemplate, RemoveInclude, SetInclude
<1> QED
  BY <1>1, FilesAssumption DEF TypeOK

\* Every file keeps its type, whatever is committed: what the theorems below use of
\* the files.
LEMMA FilesTyped == Spec => []TypeOK
<1>1. Init => TypeOK
  BY FilesAssumption DEF Init, TypeOK
<1>2. TypeOK /\ [Next]_vars => TypeOK'
  <2> SUFFICES ASSUME TypeOK, [Next]_vars PROVE TypeOK'
    OBVIOUS
  <2>1. CASE Next
    BY <2>1, NextFiles, NextCommits DEF TypeOK
  <2>2. CASE UNCHANGED vars
    BY <2>2 DEF TypeOK, vars
  <2> QED
    BY <2>1, <2>2
<1> QED
  BY <1>1, <1>2, PTL DEF Spec

-----------------------------------------------------------------------------
(* Undefined references *)

\* With config.yaml.patch there, values come from it and from config.yaml.
LEMMA ContextDomain ==
  ASSUME NEW f, NEW i, f.patch[i] # None
  PROVE  DOMAIN Context(f, i) = DOMAIN f.config \cup DOMAIN f.patch[i]
BY DEF Context, Patched, OrEmpty

\* A leaf is defined only by a value of its own.
LEMMA LeafDefined ==
  ASSUME NEW doc, NEW p \in Paths
  PROVE  Defined(doc, p) <=> p \in DOMAIN doc
BY FieldsAssumption DEF Defined

\* A template that comes to evaluate what there is not does not render.
LEMMA RenderFails ==
  ASSUME NEW f, NEW template, NEW doc, NEW x \in Evaluated(template, doc), ~Defined(doc, x)
  PROVE  ~Renders(f, template, doc)
BY DEF Renders

\* What a template evaluates the linter has found in its text.
LEMMA EvaluatedReferences ==
  ASSUME NEW template, NEW doc
  PROVE  Evaluated(template, doc) \subseteq References(template)
BY DEF Evaluated, References

\* The ConfigMap or the Secret failing, all fails.
LEMMA GenerationFails ==
  ASSUME NEW f, NEW i, NEW a, ConfigMapOf(f, i, a) = Failed \/ SecretOf(f, i, a) = Failed
  PROVE  Generated(f, i, a) = Failed
BY DEF Generated

\* A leaf of a default template that is "templated but never configured" fails the
\* App in every installation for which the template evaluates it
\* (lintUndefinedTemplateValues), in every state.
THEOREM NeverConfiguredFailsAlways == Spec => []NeverConfiguredFails
<1>1. NeverConfiguredFails
  <2> SUFFICES ASSUME Lintable(files), NEW a \in Apps, NEW p \in Paths,
                      NEW i \in Installations, lintUndefinedTemplateValues(files, a, p),
                      p \in Evaluated(files.template[a], Context(files, i))
               PROVE  Generated(files, i, a) = Failed
    BY DEF NeverConfiguredFails
  <2>1. p \notin DOMAIN files.config /\ p \notin DOMAIN files.patch[i]
    BY DEF lintUndefinedTemplateValues, Missing, Excused, OvershadowedBy
  <2>2. ~Defined(Context(files, i), p)
    BY <2>1, ContextDomain, LeafDefined DEF Lintable
  <2>3. ConfigMapOf(files, i, a) = Failed
    BY <2>2, RenderFails DEF ConfigMapOf
  <2> QED
    BY <2>3, GenerationFails
<1> QED
  BY <1>1, PTL

\* Of what patches of templates evaluate, the linter reports all that is undefined,
\* and among leaves nothing else: what it reports there fails the generation.
THEOREM PatchErrorsAlwaysMatch == Spec => []PatchErrorsMatch
<1>1. PatchErrorsMatch
  <2> SUFFICES ASSUME Lintable(files), NEW i \in Installations, NEW a \in Apps
               PROVE  LET context == Context(files, i)
                          secret == Decrypted(files.secret[i])
                      IN /\ \A x \in Evaluated(OrEmpty(files.templatePatch[i][a]), context) :
                              /\ ~Defined(context, x) => Reports(i, a, x)
                              /\ Reports(i, a, x) /\ x \in Paths =>
                                   Generated(files, i, a) = Failed
                         /\ \A x \in Evaluated(OrEmpty(files.secretPatch[i][a]), secret) :
                              /\ ~Defined(secret, x) => SecretReports(i, a, x)
                              /\ SecretReports(i, a, x) /\ x \in Paths =>
                                   Generated(files, i, a) = Failed
    BY DEF PatchErrorsMatch
  <2> DEFINE context == Context(files, i)
             secret == Decrypted(files.secret[i])
             patch == OrEmpty(files.templatePatch[i][a])
             secretPatch == OrEmpty(files.secretPatch[i][a])
  <2>1. DOMAIN context = DOMAIN files.config \cup DOMAIN files.patch[i]
    BY ContextDomain DEF Lintable
  <2>2. DOMAIN secret = DOMAIN files.secret[i]
    BY DEF Decrypted
  <2>3. ASSUME NEW x \in Evaluated(patch, context), ~Defined(context, x)
        PROVE  Reports(i, a, x)
    BY <2>1, <2>3, EvaluatedReferences
       DEF Reports, lintUndefinedTemplatePatchValues, Missing, Defined
  <2>4. ASSUME NEW x \in Evaluated(patch, context), Reports(i, a, x), x \in Paths
        PROVE  Generated(files, i, a) = Failed
    <3>1. ~Defined(context, x)
      BY <2>1, <2>4, LeafDefined DEF Reports, lintUndefinedTemplatePatchValues, Missing
    <3>2. ~Renders(files, patch, context)
      BY <3>1, RenderFails
    <3> QED
      BY <3>2, GenerationFails DEF ConfigMapOf
  <2>5. ASSUME NEW x \in Evaluated(secretPatch, secret), ~Defined(secret, x)
        PROVE  SecretReports(i, a, x)
    BY <2>2, <2>5, EvaluatedReferences
       DEF SecretReports, lintUndefinedSecretTemplatePatchValues, Defined
  <2>6. ASSUME NEW x \in Evaluated(secretPatch, secret), SecretReports(i, a, x), x \in Paths
        PROVE  Generated(files, i, a) = Failed
    <3>1. ~Defined(secret, x)
      BY <2>2, <2>6, LeafDefined DEF SecretReports, lintUndefinedSecretTemplatePatchValues
    <3>2. ~Renders(files, secretPatch, secret)
      BY <3>1, RenderFails
    <3>3. files.secretTemplate[a] # None
      BY DEF Lintable
    <3> QED
      BY <3>2, <3>3, GenerationFails DEF SecretOf
  <2> QED
    BY <2>3, <2>4, <2>5, <2>6
<1> QED
  BY <1>1, PTL

-----------------------------------------------------------------------------
(* Locality *)

\* Rendering reads no files but include files.
LEMMA RendersAlike ==
  ASSUME NEW f, NEW g, f.include = g.include, NEW template, NEW doc
  PROVE  /\ Renders(f, template, doc) <=> Renders(g, template, doc)
         /\ Rendered(f, template, doc) = Rendered(g, template, doc)
<1>1. \A line : Text(f, line, doc) = Text(g, line, doc)
  BY DEF Text
<1> QED
  BY <1>1 DEF Renders, Rendered, Includable

\* The generated documents depend on the files of Concerns alone.
LEMMA GeneratedConcerns ==
  ASSUME NEW f, NEW g, NEW i, NEW a,
         f.config = g.config, f.patch[i] = g.patch[i], f.secret[i] = g.secret[i],
         f.template[a] = g.template[a], f.templatePatch[i][a] = g.templatePatch[i][a],
         f.secretTemplate[a] = g.secretTemplate[a],
         f.secretPatch[i][a] = g.secretPatch[i][a], f.include = g.include
  PROVE  Generated(f, i, a) = Generated(g, i, a)
<1>1. \A template, doc :
        /\ Renders(f, template, doc) <=> Renders(g, template, doc)
        /\ Rendered(f, template, doc) = Rendered(g, template, doc)
  BY RendersAlike
<1>2. ConfigMapOf(f, i, a) = ConfigMapOf(g, i, a)
  BY <1>1 DEF ConfigMapOf, Context
<1>3. SecretOf(f, i, a) = SecretOf(g, i, a)
  BY <1>1 DEF SecretOf
<1> QED
  BY <1>2, <1>3 DEF Generated

\* A commit to other files does not change what an installation generates for
\* an App.
THEOREM EditsStayLocal == Spec => EditsAreLocal
<1>1. \A i \in Installations, a \in Apps :
        Concerns(i, a)' = Concerns(i, a) => Generated(files', i, a) = Generated(files, i, a)
  BY GeneratedConcerns DEF Concerns
<1> QED
  BY <1>1, PTL DEF EditsAreLocal

-----------------------------------------------------------------------------
(* Advice *)

\* Documents that agree but for p.
AgreeBut(p, c, d) ==
  \A q : q # p => /\ q \in DOMAIN c <=> q \in DOMAIN d
                  /\ q \in DOMAIN c => c[q] = d[q]

\* What is not p, nor a tree above it, is defined in both or in none.
LEMMA DefinedWithout ==
  ASSUME NEW p, NEW c, NEW d, AgreeBut(p, c, d), NEW x, x # p,
         x \in Nodes => p \notin Under[x]
  PROVE  Defined(c, x) <=> Defined(d, x)
<1>1. x \in DOMAIN c <=> x \in DOMAIN d
  BY DEF AgreeBut
<1>2. x \in Nodes => \A q \in Under[x] : q \in DOMAIN c <=> q \in DOMAIN d
  BY DEF AgreeBut
<1> QED
  BY <1>1, <1>2 DEF Defined

\* Fields that are not p, nor above it, have the same there.
LEMMA PartWithout ==
  ASSUME NEW p, NEW c, NEW d, AgreeBut(p, c, d), NEW fields, p \notin Leaves(fields)
  PROVE  Part(c, fields) = Part(d, fields)
<1>1. \A q \in Leaves(fields) :
        /\ q \in DOMAIN c <=> q \in DOMAIN d
        /\ q \in DOMAIN c => c[q] = d[q]
  BY DEF AgreeBut
<1> QED
  BY <1>1 DEF Part

\* A template that does not refer to p nor to a tree above it, nor includes what
\* does, renders the same with documents that agree but for p.
LEMMA RendersWithout ==
  ASSUME NEW f, NEW template \in Partial(Line), NEW p \in Paths, NEW c, NEW d,
         AgreeBut(p, c, d), p \notin References(template), ~ReadByNode(template, p),
         ~ReadByInclude(f, p)
  PROVE  /\ Renders(f, template, c) <=> Renders(f, template, d)
         /\ Renders(f, template, c) => Rendered(f, template, c) = Rendered(f, template, d)
<1>1. \A l \in DOMAIN template : template[l] \in Line
  BY DEF Partial
<1>2. \A x \in References(template) : x # p /\ (x \in Nodes => p \notin Under[x])
  BY DEF ReadByNode, Leaves
<1>3. \A x \in References(template) : Defined(c, x) <=> Defined(d, x)
  BY <1>2, DefinedWithout
<1>4. ASSUME NEW l \in DOMAIN template
      PROVE  Taken(template[l], c) <=> Taken(template[l], d)
  <2>1. CASE template[l].when = None
    BY <2>1 DEF Taken
  <2>2. CASE template[l].when # None
    <3>1. template[l].when \in Fields
      BY <1>1, <2>2 DEF Line
    <3>2. template[l].when \in References(template)
      BY <3>1 DEF References
    <3>3. /\ template[l].when \in DOMAIN c <=> template[l].when \in DOMAIN d
          /\ template[l].when \in DOMAIN c => c[template[l].when] = d[template[l].when]
      BY <1>2, <3>2 DEF AgreeBut
    <3> QED
      BY <1>3, <2>2, <3>2, <3>3 DEF Taken
  <2> QED
    BY <2>1, <2>2
<1>5. Evaluated(template, c) = Evaluated(template, d)
  BY <1>4 DEF Evaluated
<1>6. Evaluated(template, c) \subseteq References(template)
  BY EvaluatedReferences
<1>7. ASSUME NEW l \in DOMAIN template, template[l].kind = "include"
      PROVE  /\ Includable(f, template[l].of, c) <=> Includable(f, template[l].of, d)
             /\ f.include[template[l].of] # None =>
                  p \notin Leaves(f.include[template[l].of].refs)
  <2>1. template[l].of \in Includes
    BY <1>1, <1>7 DEF Line
  <2>2. CASE f.include[template[l].of] = None
    BY <2>2 DEF Includable
  <2>3. CASE f.include[template[l].of] # None
    <3> DEFINE refs == f.include[template[l].of].refs
    <3>1. p \notin Leaves(refs)
      BY <2>1, <2>3 DEF ReadByInclude
    <3>2. \A x \in refs : x # p /\ (x \in Nodes => p \notin Under[x])
      BY <3>1 DEF Leaves
    <3>3. \A x \in refs : Defined(c, x) <=> Defined(d, x)
      BY <3>2, DefinedWithout
    <3> QED
      BY <3>1, <3>3 DEF Includable
  <2> QED
    BY <2>2, <2>3
<1>8. Renders(f, template, c) <=> Renders(f, template, d)
  BY <1>3, <1>4, <1>5, <1>6, <1>7 DEF Renders
<1>9. ASSUME Renders(f, template, c)
      PROVE  Rendered(f, template, c) = Rendered(f, template, d)
  <2>1. ASSUME NEW l \in DOMAIN template, Taken(template[l], c)
        PROVE  Text(f, template[l], c) = Text(f, template[l], d)
    <3>1. CASE template[l].kind = "value"
      BY <3>1 DEF Text
    <3>2. CASE template[l].kind = "ref"
      <4>1. template[l].of \in Fields
        BY <1>1, <3>2 DEF Line
      <4>2. template[l].of \in Evaluated(template, c)
        BY <2>1, <3>2, <4>1 DEF Evaluated
      <4>3. Defined(c, template[l].of) /\ template[l].of # p
        BY <1>2, <1>6, <1>9, <4>2 DEF Renders
      <4>4. CASE template[l].of \in Paths
        <5>1. template[l].of \in DOMAIN c
          BY <4>3, <4>4, LeafDefined
        <5>2. c[template[l].of] = d[template[l].of]
          BY <4>3, <5>1 DEF AgreeBut
        <5>3. template[l].of \notin Nodes
          BY <4>4, FieldsAssumption
        <5> QED
          BY <3>2, <4>4, <5>2, <5>3 DEF Text
      <4>5. CASE template[l].of \in Nodes
        <5>1. p \notin Leaves({template[l].of})
          BY <1>2, <1>6, <4>2, <4>3, <4>5 DEF Leaves
        <5>2. Part(c, {template[l].of}) = Part(d, {template[l].of})
          BY <5>1, PartWithout
        <5>3. template[l].of \notin Paths
          BY <4>5, FieldsAssumption
        <5> QED
          BY <3>2, <4>5, <5>2, <5>3 DEF Text
      <4> QED
        BY <4>1, <4>4, <4>5 DEF Fields
    <3>3. CASE template[l].kind = "include"
      <4>1. f.include[template[l].of] # None
        BY <1>9, <2>1, <3>3 DEF Renders, Includable
      <4>2. Part(c, f.include[template[l].of].refs) = Part(d, f.include[template[l].of].refs)
        BY <1>7, <3>3, <4>1, PartWithout
      <4> QED
        BY <3>3, <4>2 DEF Text
    <3> QED
      BY <1>1, <3>1, <3>2, <3>3 DEF Line
  <2> QED
    BY <1>4, <2>1 DEF Rendered
<1> QED
  BY <1>8, <1>9

\* Generation is the same when only values change, and those not for what the
\* App's templates refer to.
LEMMA GeneratedWithout ==
  ASSUME NEW f \in Files, NEW g, NEW i \in Installations, NEW a \in Apps, NEW p \in Paths,
         f.secret[i] = g.secret[i], f.template[a] = g.template[a],
         f.templatePatch[i][a] = g.templatePatch[i][a],
         f.secretTemplate[a] = g.secretTemplate[a],
         f.secretPatch[i][a] = g.secretPatch[i][a], f.include = g.include,
         AgreeBut(p, Context(f, i), Context(g, i)),
         p \notin References(f.template[a]),
         p \notin References(OrEmpty(f.templatePatch[i][a])),
         ~ReadUnseen(f, p)
  PROVE  Generated(f, i, a) = Generated(g, i, a)
<1>1. \A template, doc :
        /\ Renders(f, template, doc) <=> Renders(g, template, doc)
        /\ Rendered(f, template, doc) = Rendered(g, template, doc)
  BY RendersAlike
<1>2. f.template[a] \in Partial(Line) /\ OrEmpty(f.templatePatch[i][a]) \in Partial(Line)
  BY OrEmptyPartial DEF Files
<1>3. ASSUME NEW template \in Partial(Line), p \notin References(template),
             ~ReadByNode(template, p)
      PROVE  /\ Renders(f, template, Context(f, i)) <=> Renders(g, template, Context(g, i))
             /\ Renders(f, template, Context(f, i)) =>
                  Rendered(f, template, Context(f, i)) = Rendered(g, template, Context(g, i))
  BY <1>1, <1>3, RendersWithout DEF ReadUnseen
<1>4. ConfigMapOf(f, i, a) = ConfigMapOf(g, i, a)
  BY <1>2, <1>3 DEF ConfigMapOf, ReadUnseen
<1>5. SecretOf(f, i, a) = SecretOf(g, i, a)
  BY <1>1 DEF SecretOf
<1> QED
  BY <1>4, <1>5 DEF Generated

\* Generation is the same when values change only where patches hide it.
LEMMA GeneratedContext ==
  ASSUME NEW f, NEW g, NEW i, NEW a,
         f.secret[i] = g.secret[i], f.template[a] = g.template[a],
         f.templatePatch[i][a] = g.templatePatch[i][a],
         f.secretTemplate[a] = g.secretTemplate[a],
         f.secretPatch[i][a] = g.secretPatch[i][a], f.include = g.include,
         Context(f, i) = Context(g, i)
  PROVE  Generated(f, i, a) = Generated(g, i, a)
<1>1. \A template, doc :
        /\ Renders(f, template, doc) <=> Renders(g, template, doc)
        /\ Rendered(f, template, doc) = Rendered(g, template, doc)
  BY RendersAlike
<1>2. ConfigMapOf(f, i, a) = ConfigMapOf(g, i, a)
  BY <1>1 DEF ConfigMapOf
<1>3. SecretOf(f, i, a) = SecretOf(g, i, a)
  BY <1>1 DEF SecretOf
<1> QED
  BY <1>2, <1>3 DEF Generated

\* Unsetting a value of config.yaml the linter calls unused or overshadowed.
LEMMA UnsetConfigSafe ==
  ASSUME TypeOK, Lintable(files), NEW p \in Paths, UnsetConfig(p),
         \/ lintUnusedconfigValues(files, p) /\ ~ReadUnseen(files, p)
         \/ lintovershadowedconfigValues(files, p),
         NEW i \in Installations, NEW a \in Apps
  PROVE  Generated(files', i, a) = Generated(files, i, a)
<1>1. files' = [files EXCEPT !.config = Without(files.config, p)]
  BY DEF UnsetConfig, Commit
<1>2. files \in Files
  BY DEF TypeOK
<1>3. /\ files'.config = Without(files.config, p)
      /\ files'.patch = files.patch /\ files'.secret = files.secret
      /\ files'.template = files.template /\ files'.templatePatch = files.templatePatch
      /\ files'.secretTemplate = files.secretTemplate
      /\ files'.secretPatch = files.secretPatch /\ files'.include = files.include
  BY <1>1, <1>2 DEF Files
<1>4. files.patch[i] # None
  BY DEF Lintable
<1>5. CASE p \in DOMAIN files.patch[i]
  <2>1. Context(files', i) = Context(files, i)
    BY <1>3, <1>4, <1>5 DEF Context, Patched, Without, OrEmpty
  <2> QED
    BY <2>1, <1>3, GeneratedContext
<1>6. CASE p \notin DOMAIN files.patch[i]
  <2>1. lintUnusedconfigValues(files, p) /\ ~ReadUnseen(files, p)
    BY <1>6 DEF lintovershadowedconfigValues, OvershadowedBy
  <2>2. /\ p \notin References(files.template[a])
        /\ p \notin References(OrEmpty(files.templatePatch[i][a]))
    BY <1>6, <2>1 DEF lintUnusedconfigValues, UsesConfig, UsesConfigByPatch,
       UsesConfigByDefault
  <2>3. AgreeBut(p, Context(files, i), Context(files', i))
    BY <1>3, <1>4 DEF AgreeBut, Context, Patched, Without, OrEmpty
  <2> QED
    BY <1>2, <1>3, <2>1, <2>2, <2>3, GeneratedWithout
<1> QED
  BY <1>5, <1>6

\* Unsetting a value of a config.yaml.patch the linter calls unused or duplicate.
LEMMA UnsetPatchSafe ==
  ASSUME TypeOK, Lintable(files), NEW p \in Paths, NEW j \in Installations, UnsetPatch(j, p),
         \/ lintUnusedConfigPatchValues(files, j, p) /\ ~ReadUnseen(files, p)
         \/ lintDuplicateconfigValues(files, j, p),
         NEW i \in Installations, NEW a \in Apps
  PROVE  Generated(files', i, a) = Generated(files, i, a)
<1>1. files' = [files EXCEPT !.patch[j] = Without(files.patch[j], p)]
  BY DEF UnsetPatch, Commit
<1>2. files \in Files
  BY DEF TypeOK
<1>3. /\ files'.patch = [files.patch EXCEPT ![j] = Without(files.patch[j], p)]
      /\ files'.config = files.config /\ files'.secret = files.secret
      /\ files'.template = files.template /\ files'.templatePatch = files.templatePatch
      /\ files'.secretTemplate = files.secretTemplate
      /\ files'.secretPatch = files.secretPatch /\ files'.include = files.include
  BY <1>1, <1>2 DEF Files
<1>4. CASE i # j
  <2>1. files'.patch[i] = files.patch[i]
    BY <1>2, <1>3, <1>4 DEF Files
  <2>2. Context(files', i) = Context(files, i)
    BY <2>1, <1>3 DEF Context
  <2> QED
    BY <2>2, <1>3, GeneratedContext
<1>5. CASE i = j
  <2>1. files'.patch[i] = Without(files.patch[i], p)
    BY <1>2, <1>3, <1>5 DEF Files
  <2>2. files.patch[i] # None /\ files'.patch[i] # None
    <3>1. files.patch[i] # None
      BY DEF Lintable
    <3>2. files'.patch[i] \in Partial(Value)
      BY <1>2, <2>1, <3>1, WithoutPartial DEF Files
    <3> QED
      BY <3>1, <3>2, FilesAssumption
  <2>3. CASE lintDuplicateconfigValues(files, j, p)
    <3>1. Context(files', i) = Context(files, i)
      BY <1>3, <1>5, <2>1, <2>2, <2>3
         DEF lintDuplicateconfigValues, Context, Patched, Without, OrEmpty
    <3> QED
      BY <3>1, <1>3, GeneratedContext
  <2>4. CASE lintUnusedConfigPatchValues(files, j, p) /\ ~ReadUnseen(files, p)
    <3>1. /\ p \notin References(files.template[a])
          /\ p \notin References(OrEmpty(files.templatePatch[i][a]))
      BY <1>5, <2>4 DEF lintUnusedConfigPatchValues, UsesPatch
    <3>2. AgreeBut(p, Context(files, i), Context(files', i))
      BY <1>3, <2>1, <2>2 DEF AgreeBut, Context, Patched, Without, OrEmpty
    <3> QED
      BY <1>2, <1>3, <2>4, <3>1, <3>2, GeneratedWithout
  <2> QED
    BY <2>3, <2>4
<1> QED
  BY <1>4, <1>5

\* Unsetting an encrypted value of a secret.yaml the linter calls unused.
LEMMA UnsetSecretSafe ==
  ASSUME TypeOK, Lintable(files), NEW p \in Paths, NEW j \in Installations, UnsetSecret(j, p),
         lintUnusedSecretValues(files, j, p), ~lintUnencryptedSecretValues(files, j, p),
         ~SecretReadUnseen(files, p),
         NEW i \in Installations, NEW a \in Apps
  PROVE  Generated(files', i, a) = Generated(files, i, a)
<1>1. files' = [files EXCEPT !.secret[j] = Without(files.secret[j], p)]
  BY DEF UnsetSecret, Commit
<1>2. files \in Files
  BY DEF TypeOK
<1>3. /\ files'.secret = [files.secret EXCEPT ![j] = Without(files.secret[j], p)]
      /\ files'.config = files.config /\ files'.patch = files.patch
      /\ files'.template = files.template /\ files'.templatePatch = files.templatePatch
      /\ files'.secretTemplate = files.secretTemplate
      /\ files'.secretPatch = files.secretPatch /\ files'.include = files.include
  BY <1>1, <1>2 DEF Files
<1>4. CASE i # j
  <2>1. files'.secret[i] = files.secret[i]
    BY <1>2, <1>3, <1>4 DEF Files
  <2>2. /\ files.config = files'.config /\ files.patch[i] = files'.patch[i]
        /\ files.template[a] = files'.template[a]
        /\ files.templatePatch[i][a] = files'.templatePatch[i][a]
        /\ files.secretTemplate[a] = files'.secretTemplate[a]
        /\ files.secretPatch[i][a] = files'.secretPatch[i][a]
        /\ files.include = files'.include
    BY <1>3
  <2>3. Generated(files, i, a) = Generated(files', i, a)
    BY <2>1, <2>2, GeneratedConcerns
  <2> QED
    BY <2>3
<1>5. CASE i = j
  <2> DEFINE secret == files.secret[i]
             template == files.secretTemplate[a]
             patch == OrEmpty(files.secretPatch[i][a])
  <2>1. files'.secret[i] = Without(secret, p)
    BY <1>2, <1>3, <1>5 DEF Files
  <2>2. p \in DOMAIN secret /\ secret[p].sealed
    BY <1>5 DEF lintUnusedSecretValues, lintUnencryptedSecretValues
  <2>3. Decryptable(secret) <=> Decryptable(Without(secret, p))
    BY <2>2 DEF Decryptable, Without
  <2>4. AgreeBut(p, Decrypted(secret), Decrypted(Without(secret, p)))
    BY DEF AgreeBut, Decrypted, Without
  <2>5. template # None /\ template \in Partial(Line) /\ patch \in Partial(Line)
    BY <1>2, OrEmptyPartial DEF Lintable, Files
  <2>6. p \notin References(template) /\ ~ReadByNode(template, p)
    BY <2>5 DEF SecretReadUnseen, ReadByNode, Leaves, OrEmpty
  <2>7. p \notin References(patch) /\ ~ReadByNode(patch, p)
    BY <1>5, <2>2
       DEF lintUnusedSecretValues, UsesSecret, UsesSecretByPatch, SecretReadUnseen
  <2>8. \A t, doc :
          /\ Renders(files, t, doc) <=> Renders(files', t, doc)
          /\ Rendered(files, t, doc) = Rendered(files', t, doc)
    BY <1>3, RendersAlike
  <2>9. ASSUME NEW t \in Partial(Line), p \notin References(t), ~ReadByNode(t, p)
        PROVE  /\ Renders(files, t, Decrypted(secret))
                    <=> Renders(files', t, Decrypted(Without(secret, p)))
               /\ Renders(files, t, Decrypted(secret)) =>
                    Rendered(files, t, Decrypted(secret))
                      = Rendered(files', t, Decrypted(Without(secret, p)))
    BY <2>4, <2>8, <2>9, RendersWithout DEF SecretReadUnseen
  <2>10. SecretOf(files', i, a) = SecretOf(files, i, a)
    BY <1>3, <2>1, <2>3, <2>5, <2>6, <2>7, <2>9 DEF SecretOf
  <2>11. ConfigMapOf(files', i, a) = ConfigMapOf(files, i, a)
    BY <1>3, <2>8 DEF ConfigMapOf, Context
  <2> QED
    BY <2>10, <2>11 DEF Generated
<1> QED
  BY <1>4, <1>5

\* Without an include file, templates that do not include it render the same.
LEMMA RendersWithoutInclude ==
  ASSUME NEW f, NEW g, NEW n,
         \A x \in Includes \ {n} : f.include[x] = g.include[x],
         NEW template \in Partial(Line), n \notin Calls(template), NEW doc
  PROVE  /\ Renders(f, template, doc) <=> Renders(g, template, doc)
         /\ Rendered(f, template, doc) = Rendered(g, template, doc)
<1>1. \A x \in DOMAIN template : template[x] \in Line
  BY DEF Partial
<1>2. ASSUME NEW x \in DOMAIN template, template[x].kind = "include"
      PROVE  f.include[template[x].of] = g.include[template[x].of]
  <2>1. template[x].of \in Includes
    BY <1>1, <1>2 DEF Line
  <2>2. template[x].of # n
    BY <1>2 DEF Calls
  <2> QED
    BY <2>1, <2>2
<1>3. Renders(f, template, doc) <=> Renders(g, template, doc)
  BY <1>2 DEF Renders, Includable
<1>4. ASSUME NEW x \in DOMAIN template
      PROVE  Text(f, template[x], doc) = Text(g, template[x], doc)
  <2>1. CASE template[x].kind = "value"
    BY <2>1 DEF Text
  <2>2. CASE template[x].kind = "ref"
    BY <2>2, <1>1 DEF Text, Line, Fields
  <2>3. CASE template[x].kind = "include"
    BY <1>2, <2>3 DEF Text
  <2> QED
    BY <2>1, <2>2, <2>3, <1>1 DEF Line
<1>5. Rendered(f, template, doc) = Rendered(g, template, doc)
  BY <1>4 DEF Rendered
<1> QED
  BY <1>3, <1>5

\* Removing an include file the linter calls never included.
LEMMA RemoveIncludeSafe ==
  ASSUME TypeOK, Lintable(files), NEW n \in Includes, RemoveInclude(n),
         NeverIncluded(files, n), ~IncludedUnseen(files, n),
         NEW i \in Installations, NEW a \in Apps
  PROVE  Generated(files', i, a) = Generated(files, i, a)
<1>1. files' = [files EXCEPT !.include[n] = None]
  BY DEF RemoveInclude, Commit
<1>2. files \in Files
  BY DEF TypeOK
<1>3. /\ files'.secret = files.secret
      /\ files'.config = files.config /\ files'.patch = files.patch
      /\ files'.template = files.template /\ files'.templatePatch = files.templatePatch
      /\ files'.secretTemplate = files.secretTemplate
      /\ files'.secretPatch = files.secretPatch
      /\ \A x \in Includes \ {n} : files.include[x] = files'.include[x]
  BY <1>1, <1>2 DEF Files
<1>4. ASSUME NEW t \in Partial(Line), n \notin Calls(t)
      PROVE  \A doc : /\ Renders(files, t, doc) <=> Renders(files', t, doc)
                      /\ Rendered(files, t, doc) = Rendered(files', t, doc)
  BY <1>3, <1>4, RendersWithoutInclude
<1>5. /\ files.template[a] \in Partial(Line)
      /\ OrEmpty(files.templatePatch[i][a]) \in Partial(Line)
      /\ OrEmpty(files.secretPatch[i][a]) \in Partial(Line)
      /\ files.secretTemplate[a] \in Partial(Line) /\ files.secretTemplate[a] # None
  BY <1>2, OrEmptyPartial DEF Lintable, Files
<1>6. /\ n \notin Calls(files.template[a])
      /\ n \notin Calls(OrEmpty(files.templatePatch[i][a]))
  BY DEF NeverIncluded, Included, IncludedUnseen, OnCondition
<1>7. /\ n \notin Calls(files.secretTemplate[a])
      /\ n \notin Calls(OrEmpty(files.secretPatch[i][a]))
  BY <1>5 DEF IncludedUnseen, OrEmpty
<1>8. ConfigMapOf(files', i, a) = ConfigMapOf(files, i, a)
  BY <1>3, <1>4, <1>5, <1>6 DEF ConfigMapOf, Context
<1>9. SecretOf(files', i, a) = SecretOf(files, i, a)
  BY <1>3, <1>4, <1>5, <1>7 DEF SecretOf
<1> QED
  BY <1>8, <1>9 DEF Generated

\* Following the linter's advice to remove one value or include file changes no
\* generated document.
THEOREM AdviceStaysSafe == Spec => AdviceIsSafe
<1>1. TypeOK => (Lintable(files) /\ Heeds =>
        \A i \in Installations, a \in Apps :
          Generated(files', i, a) = Generated(files, i, a))
  BY UnsetConfigSafe, UnsetPatchSafe, UnsetSecretSafe, RemoveIncludeSafe DEF Heeds
<1> QED
  BY <1>1, FilesTyped, PTL DEF AdviceIsSafe

-----------------------------------------------------------------------------
(* Decryption *)

\* Part of a document is a document.
LEMMA PartPartial ==
  ASSUME NEW doc \in Partial(Value), NEW fields
  PROVE  Part(doc, fields) \in Partial(Value)
<1>1. PICK S \in SUBSET Paths : doc \in [S -> Value]
  BY DEF Partial
<1>2. Part(doc, fields) \in [Leaves(fields) \cap S -> Value]
  BY <1>1 DEF Part
<1>3. Leaves(fields) \cap S \in SUBSET Paths
  OBVIOUS
<1> QED
  BY <1>2, <1>3 DEF Partial

\* What is taken from a template that renders is a value.
LEMMA TextOutput ==
  ASSUME NEW f, NEW template \in Partial(Line), NEW doc \in Partial(Value),
         Renders(f, template, doc), NEW p \in DOMAIN template, Taken(template[p], doc)
  PROVE  Text(f, template[p], doc) \in Output
<1>1. template[p] \in Line
  BY DEF Partial
<1>2. Value \subseteq Output
  BY DEF Value, Output
<1>3. ASSUME NEW fields PROVE [text |-> Part(doc, fields), sealed |-> FALSE] \in Output
  BY PartPartial DEF Output
<1>4. CASE template[p].kind = "value"
  BY <1>1, <1>2, <1>4 DEF Text, Line
<1>5. CASE template[p].kind = "ref" /\ template[p].of \in Paths
  <2>1. template[p].of \in Evaluated(template, doc)
    BY <1>5 DEF Evaluated, Fields
  <2>2. template[p].of \in DOMAIN doc
    BY <1>5, <2>1, LeafDefined DEF Renders
  <2>3. Text(f, template[p], doc) = doc[template[p].of]
    BY <1>5, FieldsAssumption DEF Text
  <2>4. \A q \in DOMAIN doc : doc[q] \in Value
    BY DEF Partial
  <2> QED
    BY <1>2, <2>2, <2>3, <2>4
<1>6. CASE template[p].kind = "ref" /\ template[p].of \in Nodes
  <2>1. Text(f, template[p], doc) = [text |-> Part(doc, {template[p].of}), sealed |-> FALSE]
    BY <1>6, FieldsAssumption DEF Text
  <2> QED
    BY <1>3, <2>1
<1>7. CASE template[p].kind = "include"
  <2>1. Text(f, template[p], doc)
          = [text |-> Part(doc, f.include[template[p].of].refs), sealed |-> FALSE]
    BY <1>7 DEF Text
  <2> QED
    BY <1>3, <2>1
<1> QED
  BY <1>1, <1>4, <1>5, <1>6, <1>7 DEF Line, Fields

\* Nothing that was decrypted counts as encrypted.
LEMMA DecryptedPlain ==
  ASSUME NEW doc, NEW p \in DOMAIN doc, doc[p] \in Output
  PROVE  Decrypted(doc)[p].sealed = FALSE
<1>1. Decrypted(doc)[p] = [doc[p] EXCEPT !.sealed = FALSE]
  BY DEF Decrypted
<1> QED
  BY <1>1 DEF Output

\* A document stays one when it is decrypted.
LEMMA DecryptedPartial ==
  ASSUME NEW T, NEW doc \in Partial([text : T, sealed : BOOLEAN])
  PROVE  Decrypted(doc) \in Partial([text : T, sealed : BOOLEAN])
<1>1. PICK S \in SUBSET Paths : doc \in [S -> [text : T, sealed : BOOLEAN]]
  BY DEF Partial
<1>2. Decrypted(doc) \in [S -> [text : T, sealed : BOOLEAN]]
  BY <1>1 DEF Decrypted
<1> QED
  BY <1>2 DEF Partial

LEMMA DecryptedValue ==
  ASSUME NEW doc \in Partial(Value), NEW p \in DOMAIN doc
  PROVE  Decrypted(doc)[p] \in Value /\ Decrypted(doc)[p].sealed = FALSE
<1>1. doc[p] \in Value
  BY DEF Partial
<1>2. Decrypted(doc)[p] = [doc[p] EXCEPT !.sealed = FALSE]
  BY DEF Decrypted
<1> QED
  BY <1>1, <1>2 DEF Value

\* Nor does what a template has of what was decrypted, but for values of its own.
LEMMA TextPlain ==
  ASSUME NEW f, NEW template \in Partial(Line), NEW doc,
         \A q \in DOMAIN doc : doc[q].sealed = FALSE,
         Renders(f, template, doc), NEW p \in DOMAIN template, Taken(template[p], doc),
         Text(f, template[p], doc).sealed
  PROVE  template[p].kind = "value"
<1>1. template[p] \in Line
  BY DEF Partial
<1>2. CASE template[p].kind = "ref" /\ template[p].of \in Paths
  <2>1. template[p].of \in Evaluated(template, doc)
    BY <1>2 DEF Evaluated, Fields
  <2>2. template[p].of \in DOMAIN doc
    BY <1>2, <2>1, LeafDefined DEF Renders
  <2>3. Text(f, template[p], doc) = doc[template[p].of]
    BY <1>2, FieldsAssumption DEF Text
  <2> QED
    BY <2>2, <2>3
<1>3. CASE template[p].kind = "ref" /\ template[p].of \in Nodes
  <2>1. Text(f, template[p], doc) = [text |-> Part(doc, {template[p].of}), sealed |-> FALSE]
    BY <1>3, FieldsAssumption DEF Text
  <2>2. Text(f, template[p], doc).sealed = FALSE
    BY <2>1
  <2> QED
    BY <2>2
<1>4. CASE template[p].kind = "include"
  <2>1. Text(f, template[p], doc)
          = [text |-> Part(doc, f.include[template[p].of].refs), sealed |-> FALSE]
    BY <1>4 DEF Text
  <2>2. Text(f, template[p], doc).sealed = FALSE
    BY <2>1
  <2> QED
    BY <2>2
<1> QED
  BY <1>1, <1>2, <1>3, <1>4 DEF Line, Fields

\* Patching takes values from the base only where there is no patch.
LEMMA PatchedAt ==
  ASSUME NEW base, NEW patch, NEW p \in DOMAIN Patched(base, patch)
  PROVE  /\ p \in DOMAIN patch => Patched(base, patch)[p] = patch[p]
         /\ p \notin DOMAIN patch => p \in DOMAIN base /\ Patched(base, patch)[p] = base[p]
BY DEF Patched

\* A Secret has an encrypted value only where the App's template says so.
THEOREM NoCiphertextEver == Spec => []NoCiphertext
<1>1. TypeOK => NoCiphertext
  <2> SUFFICES ASSUME TypeOK, NEW i \in Installations, NEW a \in Apps,
                      Generated(files, i, a) # Failed,
                      NEW p \in DOMAIN Generated(files, i, a).secret,
                      Generated(files, i, a).secret[p].sealed
               PROVE  /\ /\ p \in DOMAIN files.secretTemplate[a]
                         /\ files.secretTemplate[a][p].kind = "value"
                      /\ p \in DOMAIN OrEmpty(files.secretPatch[i][a]) =>
                           ~Taken(OrEmpty(files.secretPatch[i][a])[p],
                                  Decrypted(files.secret[i]))
    BY DEF NoCiphertext
  <2> DEFINE template == files.secretTemplate[a]
             patch == OrEmpty(files.secretPatch[i][a])
             context == Decrypted(files.secret[i])
             secret == SecretOf(files, i, a)
             base == Rendered(files, template, context)
             patched == Rendered(files, patch, context)
  <2>1. Generated(files, i, a).secret = secret /\ secret # Failed
    BY DEF Generated
  <2>2. template # None
    <3>1. SUFFICES ASSUME template = None PROVE FALSE
      OBVIOUS
    <3>2. secret = Empty
      BY <2>1, <3>1 DEF SecretOf
    <3> QED
      BY <2>1, <3>2 DEF Empty
  <2>3. /\ secret = Patched(base, Decrypted(patched))
        /\ Renders(files, template, context) /\ Renders(files, patch, context)
    BY <2>1, <2>2 DEF SecretOf
  <2>4. template \in Partial(Line) /\ patch \in Partial(Line) /\ files.secret[i] \in Partial(Value)
    BY <2>2, OrEmptyPartial DEF TypeOK, Files
  <2>5. context \in Partial(Value) /\ \A q \in DOMAIN context : context[q].sealed = FALSE
    <3>1. \A q \in DOMAIN context : context[q].sealed = FALSE
      BY <2>4, DecryptedValue DEF Decrypted
    <3> QED
      BY <2>4, <3>1, DecryptedPartial DEF Value
  <2>6. p \notin DOMAIN patched
    <3>1. SUFFICES ASSUME p \in DOMAIN patched PROVE FALSE
      OBVIOUS
    <3>2. /\ p \in DOMAIN patch /\ Taken(patch[p], context)
          /\ patched[p] = Text(files, patch[p], context)
      BY <3>1 DEF Rendered
    <3>3. patched[p] \in Output
      <4> HIDE DEF patched, patch, context
      <4> QED
        BY <2>3, <2>4, <2>5, <3>2, TextOutput
    <3>4. secret[p] = Decrypted(patched)[p]
      <4>1. p \in DOMAIN Decrypted(patched)
        BY <3>1 DEF Decrypted
      <4> HIDE DEF patched, base, secret
      <4> QED
        BY <2>1, <2>3, <4>1, PatchedAt
    <3> HIDE DEF patched, secret
    <3> QED
      BY <2>1, <3>1, <3>3, <3>4, DecryptedPlain
  <2>7. p \in DOMAIN base /\ secret[p] = base[p]
    <3>1. DOMAIN Decrypted(patched) = DOMAIN patched
      BY DEF Decrypted
    <3> HIDE DEF patched, base, secret
    <3> QED
      BY <2>1, <2>3, <2>6, <3>1, PatchedAt
  <2>8. /\ p \in DOMAIN template /\ Taken(template[p], context)
        /\ secret[p] = Text(files, template[p], context)
    BY <2>7 DEF Rendered
  <2>9. template[p].kind = "value"
    <3> HIDE DEF template, context, secret
    <3> QED
      BY <2>1, <2>3, <2>4, <2>5, <2>8, TextPlain
  <2>10. p \in DOMAIN patch => ~Taken(patch[p], context)
    BY <2>6 DEF Rendered
  <2> QED
    BY <2>8, <2>9, <2>10
<1> QED
  BY <1>1, FilesTyped, PTL

-----------------------------------------------------------------------------
(* Sequences of messages *)

\* Induction over the natural numbers, stated of a set: a set that misses one
\* has a least that it misses.
LEMMA NaturalInduction ==
  ASSUME NEW S, 0 \in S, \A n \in Nat : n \in S => n + 1 \in S
  PROVE  Nat \subseteq S
<1> DEFINE missed == Nat \ S
           less == {ss \in Nat \X Nat : ss[1] < ss[2]}
<1>1. SUFFICES ASSUME missed # {} PROVE FALSE
  OBVIOUS
<1>2. IsWellFoundedOn(less, Nat)
  BY NatLessThanWellFounded, Zenon DEF OpToRel
<1>3. PICK x \in missed : \A y \in missed : <<y, x>> \notin less
  <2>1. missed \subseteq Nat
    OBVIOUS
  <2> HIDE DEF missed, less
  <2> QED
    BY <1>1, <1>2, <2>1, WFMin
<1>4. x \in Nat /\ x # 0
  OBVIOUS
<1>5. x - 1 \in Nat /\ <<x - 1, x>> \in less
  BY <1>4
<1>6. x - 1 \in S
  BY <1>3, <1>5
<1> QED
  BY <1>4, <1>5, <1>6

LEMMA FunctionIsSeq ==
  ASSUME NEW n \in Nat, NEW S, NEW s \in [1 .. n -> S]
  PROVE  s \in Seq(S) /\ Len(s) = n
OBVIOUS

\* A finite set can be put in sequence, and only the empty one gives the empty
\* sequence.
LEMMA SetToSeqProperties ==
  ASSUME NEW S, IsFiniteSet(S)
  PROVE  /\ SetToSeq(S) \in Seq(S)
         /\ SetToSeq(S) = << >> => S = {}
<1> DEFINE n == Cardinality(S)
<1>1. n \in Nat /\ ExistsBijection(1 .. n, S)
  BY FS_CardinalityType
<1>2. PICK f \in [1 .. n -> S] : \A x, y \in 1 .. n : f[x] = f[y] => x = y
  BY <1>1 DEF ExistsBijection, Bijection, Injection, IsInjective
<1>3. IsInjective(f)
  BY <1>2 DEF IsInjective
<1>4. SetToSeq(S) \in [1 .. n -> S]
  BY <1>2, <1>3 DEF SetToSeq
<1>5. n = 0 <=> S = {}
  BY FS_EmptySet
<1> HIDE DEF n
<1>6. SetToSeq(S) \in Seq(S) /\ Len(SetToSeq(S)) = n
  BY <1>1, <1>4
<1> QED
  BY <1>5, <1>6

\* g is how FlattenSeq goes about the first n members of s.
Flattens(g, s, n) == g = [i \in 1 .. n |-> IF i = 1 THEN s[i] ELSE g[i - 1] \o s[i]]

LEMMA FlattensMore ==
  ASSUME NEW s, NEW n \in Nat, NEW g, Flattens(g, s, n)
  PROVE  \E h : Flattens(h, s, n + 1)
<1> DEFINE h == [i \in 1 .. n + 1 |->
                   IF i = n + 1 THEN IF i = 1 THEN s[i] ELSE g[i - 1] \o s[i] ELSE g[i]]
<1>1. ASSUME NEW i \in 1 .. n + 1
      PROVE  h[i] = IF i = 1 THEN s[i] ELSE h[i - 1] \o s[i]
  <2>1. CASE i = n + 1
    BY <2>1
  <2>2. CASE i # n + 1
    <3>1. i \in 1 .. n /\ h[i] = g[i]
      BY <2>2
    <3>2. g[i] = IF i = 1 THEN s[i] ELSE g[i - 1] \o s[i]
      BY <3>1 DEF Flattens
    <3>3. i # 1 => h[i - 1] = g[i - 1]
      BY <3>1
    <3> QED
      BY <3>1, <3>2, <3>3
  <2> QED
    BY <2>1, <2>2
<1>2. h = [i \in 1 .. n + 1 |-> h[i]]
  OBVIOUS
<1> HIDE DEF h
<1>3. Flattens(h, s, n + 1)
  BY <1>1, <1>2 DEF Flattens
<1> QED
  BY <1>3

LEMMA FlattensAll ==
  ASSUME NEW s, NEW n \in Nat
  PROVE  \E g : Flattens(g, s, n)
<1> DEFINE S == {m \in Nat : \E g : Flattens(g, s, m)}
<1>1. 0 \in S
  <2>1. Flattens([i \in 1 .. 0 |-> << >>], s, 0)
    BY DEF Flattens
  <2> QED
    BY <2>1
<1>2. \A m \in Nat : m \in S => m + 1 \in S
  BY FlattensMore
<1> HIDE DEF S
<1>3. n \in S
  BY <1>1, <1>2, NaturalInduction
<1> QED
  BY <1>3 DEF S

\* The concatenation of sequences is a sequence, and not empty unless all of them are.
LEMMA FlattenSeqProperties ==
  ASSUME NEW T, NEW s \in Seq(Seq(T)), NEW k \in 1 .. Len(s), s[k] # << >>
  PROVE  FlattenSeq(s) \in Seq(T) /\ FlattenSeq(s) # << >>
<1> DEFINE n == Len(s)
           flatten == CHOOSE g : g = [i \in 1 .. n |-> IF i = 1 THEN s[i] ELSE g[i - 1] \o s[i]]
<1>1. n \in Nat /\ n # 0 /\ \A i \in 1 .. n : s[i] \in Seq(T)
  OBVIOUS
<1>2. FlattenSeq(s) = flatten[n]
  BY <1>1 DEF FlattenSeq
<1>3. Flattens(flatten, s, n)
  BY <1>1, FlattensAll DEF Flattens
<1> HIDE DEF flatten
<1> DEFINE S == {m \in Nat : m \in 1 .. n => /\ flatten[m] \in Seq(T)
                                             /\ k <= m => flatten[m] # << >>}
<1>4. 0 \in S
  OBVIOUS
<1>5. ASSUME NEW m \in Nat, m \in S, m + 1 \in 1 .. n
      PROVE  flatten[m + 1] \in Seq(T) /\ (k <= m + 1 => flatten[m + 1] # << >>)
  <2>1. flatten[m + 1] = IF m = 0 THEN s[m + 1] ELSE flatten[m] \o s[m + 1]
    <3>1. \A i \in 1 .. n :
            flatten[i] = IF i = 1 THEN s[i] ELSE flatten[i - 1] \o s[i]
      <4> HIDE DEF n, S
      <4> QED
        BY <1>3 DEF Flattens
    <3>2. m + 1 - 1 = m /\ (m + 1 = 1 <=> m = 0)
      OBVIOUS
    <3> HIDE DEF n, S
    <3> QED
      BY <1>5, <3>1, <3>2
  <2>2. s[m + 1] \in Seq(T)
    BY <1>1, <1>5
  <2>3. CASE m = 0
    <3>1. flatten[m + 1] = s[m + 1]
      BY <2>1, <2>3
    <3>2. k <= m + 1 => k = m + 1
      BY <1>1, <2>3
    <3> QED
      BY <2>2, <3>1, <3>2
  <2>4. CASE m # 0
    <3>1. m \in 1 .. n
      BY <1>1, <1>5, <2>4
    <3>2. flatten[m] \in Seq(T) /\ (k <= m => flatten[m] # << >>)
      BY <1>5, <3>1
    <3>3. flatten[m + 1] = flatten[m] \o s[m + 1]
      <4> HIDE DEF n, S
      <4> QED
        BY <2>1, <2>4
    <3>4. k <= m + 1 => k <= m \/ k = m + 1
      <4>1. k \in Nat /\ m \in Nat
        BY <1>1
      <4> HIDE DEF n, S
      <4> QED
        BY <4>1
    <3>5. k <= m + 1 => flatten[m] # << >> \/ s[m + 1] # << >>
      BY <3>2, <3>4
    <3>6. /\ flatten[m] \o s[m + 1] \in Seq(T)
          /\ Len(flatten[m] \o s[m + 1]) = Len(flatten[m]) + Len(s[m + 1])
      BY <2>2, <3>2, ConcatProperties
    <3> HIDE DEF n, S
    <3>7. flatten[m] # << >> \/ s[m + 1] # << >> => flatten[m] \o s[m + 1] # << >>
      BY <2>2, <3>2, <3>6
    <3> QED
      BY <3>3, <3>5, <3>6, <3>7
  <2> QED
    BY <2>3, <2>4
<1>6. \A m \in Nat : m \in S => m + 1 \in S
  BY <1>5
<1> HIDE DEF S
<1>7. Nat \subseteq S
  BY <1>4, <1>6, NaturalInduction
<1>8. n \in 1 .. n /\ k <= n
  BY <1>1
<1>9. n \in S
  BY <1>1, <1>7
<1> QED
  BY <1>2, <1>8, <1>9 DEF S

-----------------------------------------------------------------------------
(* Reports *)

\* Whatever can be in a message: finitely many places in a repository.
Kinds ==
  {"config.yaml", "config.yaml.patch", "template", "template patch", "secret.yaml",
   "secret template", "secret patch"} \cup Includes
Places ==
  {At(x[1][1], x[1][2], x[2][1], x[2][2]) :
     x \in (Kinds \X (Installations \cup {All})) \X ((Apps \cup {All}) \X (Fields \cup {"*"}))}
AllMessages == {[isError |-> x[1], at |-> x[2]] : x \in BOOLEAN \X Places}

LEMMA PlaceOf ==
  ASSUME NEW kind \in Kinds, NEW i \in Installations \cup {All}, NEW a \in Apps \cup {All},
         NEW p \in Fields \cup {"*"}
  PROVE  At(kind, i, a, p) \in Places
<1>1. <<<<kind, i>>, <<a, p>>>>
        \in (Kinds \X (Installations \cup {All})) \X ((Apps \cup {All}) \X (Fields \cup {"*"}))
  OBVIOUS
<1> QED
  BY <1>1 DEF Places

LEMMA PlacesFinite == IsFiniteSet(Places)
<1> DEFINE Left == Kinds \X (Installations \cup {All})
           Right == (Apps \cup {All}) \X (Fields \cup {"*"})
           place == [x \in Left \X Right |-> At(x[1][1], x[1][2], x[2][1], x[2][2])]
<1>1. IsFiniteSet(Kinds)
  <2>1. IsFiniteSet({"config.yaml"} \cup {"config.yaml.patch"} \cup {"template"}
                      \cup {"template patch"} \cup {"secret.yaml"} \cup {"secret template"}
                      \cup {"secret patch"})
    BY FS_Singleton, FS_Union
  <2>2. Kinds = ({"config.yaml"} \cup {"config.yaml.patch"} \cup {"template"}
                   \cup {"template patch"} \cup {"secret.yaml"} \cup {"secret template"}
                   \cup {"secret patch"}) \cup Includes
    BY DEF Kinds
  <2> QED
    BY <2>1, <2>2, RepositoryAssumption, FS_Union
<1>2. /\ IsFiniteSet(Installations \cup {All}) /\ IsFiniteSet(Apps \cup {All})
      /\ IsFiniteSet(Fields \cup {"*"})
  BY RepositoryAssumption, FS_AddElement
<1>3. IsFiniteSet(Left) /\ IsFiniteSet(Right)
  BY <1>1, <1>2, FS_Product
<1>4. IsFiniteSet(Left \X Right)
  <2> HIDE DEF Left, Right
  <2> QED
    BY <1>3, FS_Product
<1>5. Places = {place[x] : x \in Left \X Right}
  BY DEF Places
<1>6. place \in Surjection(Left \X Right, Places)
  <2> HIDE DEF place, Left, Right
  <2>1. place \in [Left \X Right -> Places]
    BY <1>5 DEF place
  <2> QED
    BY <1>5, <2>1 DEF Surjection
<1> HIDE DEF place, Left, Right
<1> QED
  BY <1>4, <1>6, FS_Surjection

LEMMA MessagesFinite == IsFiniteSet(AllMessages)
<1> DEFINE report == [x \in BOOLEAN \X Places |-> [isError |-> x[1], at |-> x[2]]]
<1>1. IsFiniteSet(BOOLEAN)
  <2>1. BOOLEAN = {TRUE} \cup {FALSE}
    OBVIOUS
  <2>2. IsFiniteSet({TRUE}) /\ IsFiniteSet({FALSE})
    BY FS_Singleton, Zenon
  <2>3. IsFiniteSet({TRUE} \cup {FALSE})
    BY <2>2, FS_Union
  <2> QED
    BY <2>1, <2>3
<1>2. IsFiniteSet(BOOLEAN \X Places)
  BY <1>1, PlacesFinite, FS_Product
<1>3. AllMessages = {report[x] : x \in BOOLEAN \X Places}
  BY DEF AllMessages
<1>4. report \in Surjection(BOOLEAN \X Places, AllMessages)
  <2>1. report \in [BOOLEAN \X Places -> AllMessages]
    BY <1>3
  <2> HIDE DEF report
  <2> QED
    BY <1>3, <2>1 DEF Surjection
<1> HIDE DEF report
<1> QED
  BY <1>2, <1>4, FS_Surjection

FunctionNames ==
  {"lintUnusedconfigValues", "lintDuplicateconfigValues", "lintovershadowedconfigValues",
   "lintUnusedConfigPatchValues", "lintUndefinedTemplateValues",
   "lintUndefinedTemplatePatchValues", "lintUnusedSecretValues",
   "lintUndefinedSecrettemplateValues", "lintUndefinedSecretTemplatePatchValues",
   "lintUnencryptedSecretValues", "lintIncludeFiles"}

LEMMA FunctionNamed ==
  ASSUME NEW k \in DOMAIN allLinterFunctions
  PROVE  allLinterFunctions[k] \in FunctionNames
<1>1. k \in 1 .. 11
  BY DEF allLinterFunctions
<1> QED
  BY <1>1 DEF allLinterFunctions, FunctionNames

LEMMA ErrorPlaces ==
  ASSUME NEW f \in Files, NEW k \in DOMAIN allLinterFunctions
  PROVE  Errors(f)[allLinterFunctions[k]] \subseteq Places
<1>1. ASSUME NEW kind \in Kinds, NEW x \in Installations \X Paths
      PROVE  At(kind, x[1], All, x[2]) \in Places
  BY PlaceOf DEF Fields
<1>2. ASSUME NEW kind \in Kinds, NEW x \in Apps \X Fields
      PROVE  At(kind, All, x[1], x[2]) \in Places
  BY PlaceOf
<1>3. ASSUME NEW kind \in Kinds, NEW x \in Installations \X Apps \X Fields
      PROVE  At(kind, x[1], x[2], x[3]) \in Places
  BY PlaceOf
<1>4. ASSUME NEW kind \in Kinds, NEW p \in Fields \cup {"*"}
      PROVE  At(kind, All, All, p) \in Places
  BY PlaceOf
<1>5. Errors(f)["lintUnusedconfigValues"] \subseteq Places
  BY <1>4 DEF Errors, Kinds, Fields
<1>6. Errors(f)["lintDuplicateconfigValues"] \subseteq Places
  <2>1. SUFFICES ASSUME NEW e \in Errors(f)["lintDuplicateconfigValues"] PROVE e \in Places
    OBVIOUS
  <2>2. PICK x \in Installations \X Paths : e = At("config.yaml.patch", x[1], All, x[2])
    BY DEF Errors
  <2> QED
    BY <1>1, <2>2 DEF Kinds
<1>7. Errors(f)["lintovershadowedconfigValues"] \subseteq Places
  BY <1>4 DEF Errors, Kinds, Fields
<1>8. Errors(f)["lintUnusedConfigPatchValues"] \subseteq Places
  <2>1. SUFFICES ASSUME NEW e \in Errors(f)["lintUnusedConfigPatchValues"] PROVE e \in Places
    OBVIOUS
  <2>2. PICK x \in Installations \X Paths : e = At("config.yaml.patch", x[1], All, x[2])
    BY DEF Errors
  <2> QED
    BY <1>1, <2>2 DEF Kinds
<1>9. Errors(f)["lintUndefinedTemplateValues"] \subseteq Places
  <2>1. SUFFICES ASSUME NEW e \in Errors(f)["lintUndefinedTemplateValues"] PROVE e \in Places
    OBVIOUS
  <2>2. PICK x \in Apps \X Fields : e = At("template", All, x[1], x[2])
    BY DEF Errors
  <2> QED
    BY <1>2, <2>2 DEF Kinds
<1>10. Errors(f)["lintUndefinedTemplatePatchValues"] \subseteq Places
  <2>1. SUFFICES ASSUME NEW e \in Errors(f)["lintUndefinedTemplatePatchValues"] PROVE e \in Places
    OBVIOUS
  <2>2. PICK x \in Installations \X Apps \X Fields : e = At("template patch", x[1], x[2], x[3])
    BY DEF Errors
  <2> QED
    BY <1>3, <2>2 DEF Kinds
<1>11. Errors(f)["lintUnusedSecretValues"] \subseteq Places
  <2>1. SUFFICES ASSUME NEW e \in Errors(f)["lintUnusedSecretValues"] PROVE e \in Places
    OBVIOUS
  <2>2. PICK x \in Installations \X Paths : e = At("secret.yaml", x[1], All, x[2])
    BY DEF Errors
  <2> QED
    BY <1>1, <2>2 DEF Kinds
<1>12. Errors(f)["lintUndefinedSecrettemplateValues"] \subseteq Places
  <2>1. SUFFICES ASSUME NEW e \in Errors(f)["lintUndefinedSecrettemplateValues"] PROVE e \in Places
    OBVIOUS
  <2>2. PICK x \in Apps \X Fields : e = At("secret template", All, x[1], x[2])
    BY DEF Errors
  <2> QED
    BY <1>2, <2>2 DEF Kinds
<1>13. Errors(f)["lintUndefinedSecretTemplatePatchValues"] \subseteq Places
  <2>1. SUFFICES ASSUME NEW e \in Errors(f)["lintUndefinedSecretTemplatePatchValues"] PROVE e \in Places
    OBVIOUS
  <2>2. PICK x \in Installations \X Apps \X Fields : e = At("secret patch", x[1], x[2], x[3])
    BY DEF Errors
  <2> QED
    BY <1>3, <2>2 DEF Kinds
<1>14. Errors(f)["lintUnencryptedSecretValues"] \subseteq Places
  <2>1. SUFFICES ASSUME NEW e \in Errors(f)["lintUnencryptedSecretValues"] PROVE e \in Places
    OBVIOUS
  <2>2. PICK x \in Installations \X Paths : e = At("secret.yaml", x[1], All, x[2])
    BY DEF Errors
  <2> QED
    BY <1>1, <2>2 DEF Kinds
<1>15. Errors(f)["lintIncludeFiles"] \subseteq Places
  BY <1>4 DEF Errors, Kinds
<1> QED
  BY <1>5, <1>6, <1>7, <1>8, <1>9, <1>10, <1>11, <1>12, <1>13, <1>14, <1>15,
     FunctionNamed DEF FunctionNames

LEMMA SuggestionPlaces ==
  ASSUME NEW f \in Files, NEW k \in DOMAIN allLinterFunctions
  PROVE  Suggestions(f, allLinterFunctions[k]) \subseteq Places
<1> DEFINE function == allLinterFunctions[k]
<1>1. function \in FunctionNames
  BY FunctionNamed
<1> HIDE DEF function
<1> SUFFICES Suggestions(f, function) \subseteq Places
  BY DEF function
<1>2. DOMAIN f.config \subseteq Paths /\ \A i \in Installations : DOMAIN f.secret[i] \subseteq Paths
  BY DEF Files, Partial
<1>3. CASE function = "lintUnusedconfigValues"
  BY <1>2, <1>3, PlaceOf DEF Suggestions, Kinds, Fields
<1>4. CASE function = "lintovershadowedconfigValues"
  BY <1>2, <1>4, PlaceOf DEF Suggestions, Kinds, Fields
<1>5. CASE function = "lintUnusedSecretValues"
  <2>1. SUFFICES ASSUME NEW i \in Installations, NEW p \in DOMAIN f.secret[i]
                 PROVE  At("secret.yaml", i, All, p) \in Places
    BY <1>5 DEF Suggestions
  <2> QED
    BY <1>2, PlaceOf DEF Kinds, Fields
<1>6. CASE function \notin {"lintUnusedconfigValues", "lintovershadowedconfigValues",
                            "lintUnusedSecretValues"}
  BY <1>1, <1>6 DEF Suggestions, FunctionNames
<1> QED
  BY <1>3, <1>4, <1>5, <1>6

\* A function's messages are reports, and there are some if an error is wanted.
LEMMA MessagesProperties ==
  ASSUME NEW f \in Files, NEW o, NEW k \in DOMAIN allLinterFunctions
  PROVE  /\ Messages(f, o, allLinterFunctions[k]) \in Seq(AllMessages)
         /\ \A x \in Errors(f)[allLinterFunctions[k]] :
              Wanted(o, [isError |-> TRUE, at |-> x]) =>
                Messages(f, o, allLinterFunctions[k]) # << >>
<1> DEFINE function == allLinterFunctions[k]
           Told(isError, places) ==
             {msg \in {[isError |-> isError, at |-> x] : x \in places} : Wanted(o, msg)}
<1>1. ASSUME NEW isError \in BOOLEAN, NEW places \in SUBSET Places
      PROVE  /\ SetToSeq(Told(isError, places)) \in Seq(AllMessages)
             /\ SetToSeq(Told(isError, places)) = << >> => Told(isError, places) = {}
  <2>1. Told(isError, places) \subseteq AllMessages
    <3>1. SUFFICES ASSUME NEW x \in places
                   PROVE  [isError |-> isError, at |-> x] \in AllMessages
      OBVIOUS
    <3>2. <<isError, x>> \in BOOLEAN \X Places
      OBVIOUS
    <3> QED
      BY <3>2 DEF AllMessages
  <2>2. IsFiniteSet(Told(isError, places))
    BY <2>1, MessagesFinite, FS_Subset
  <2> HIDE DEF Told
  <2> QED
    BY <2>1, <2>2, SetToSeqProperties
<1>2. Messages(f, o, function)
        = SetToSeq(Told(TRUE, Errors(f)[function])) \o SetToSeq(Told(FALSE, Suggestions(f, function)))
  BY DEF Messages
<1>3. Errors(f)[function] \in SUBSET Places /\ Suggestions(f, function) \in SUBSET Places
  BY ErrorPlaces, SuggestionPlaces
<1>4. ASSUME NEW x \in Errors(f)[function], Wanted(o, [isError |-> TRUE, at |-> x])
      PROVE  Told(TRUE, Errors(f)[function]) # {}
  BY <1>4
<1> HIDE DEF Told, function
<1>5. /\ SetToSeq(Told(TRUE, Errors(f)[function])) \in Seq(AllMessages)
      /\ SetToSeq(Told(FALSE, Suggestions(f, function))) \in Seq(AllMessages)
      /\ SetToSeq(Told(TRUE, Errors(f)[function])) = << >> => Told(TRUE, Errors(f)[function]) = {}
  BY <1>1, <1>3
<1>6. ASSUME NEW u \in Seq(AllMessages), NEW v \in Seq(AllMessages), u # << >>
      PROVE  u \o v # << >>
  BY <1>6, ConcatProperties
<1>7. Messages(f, o, function) \in Seq(AllMessages)
  BY <1>2, <1>5, ConcatProperties
<1>8. \A x \in Errors(f)[function] :
        Wanted(o, [isError |-> TRUE, at |-> x]) => Messages(f, o, function) # << >>
  BY <1>2, <1>4, <1>5, <1>6
<1> QED
  BY <1>7, <1>8 DEF function

\* The command says something if a function that runs finds a wanted error.
LEMMA LintSpeaks ==
  ASSUME NEW f \in Files, NEW o \in Options, NEW k \in DOMAIN allLinterFunctions,
         Runs(o, allLinterFunctions[k]),
         NEW x \in Errors(f)[allLinterFunctions[k]], x.path \notin o.skipped
  PROVE  Lint(f, o) # << >>
<1> DEFINE s == [j \in DOMAIN allLinterFunctions |->
                   IF Runs(o, allLinterFunctions[j])
                   THEN Messages(f, o, allLinterFunctions[j]) ELSE << >>]
<1>1. Wanted(o, [isError |-> TRUE, at |-> x])
  BY DEF Wanted
<1>2. s[k] # << >>
  BY <1>1, MessagesProperties
<1>3. \A j \in DOMAIN allLinterFunctions : s[j] \in Seq(AllMessages)
  BY MessagesProperties
<1>4. DOMAIN allLinterFunctions = 1 .. 11
  BY DEF allLinterFunctions
<1>5. s \in Seq(Seq(AllMessages)) /\ k \in 1 .. Len(s)
  <2>1. s \in [1 .. 11 -> Seq(AllMessages)]
    BY <1>3, <1>4
  <2> HIDE DEF s
  <2>2. s \in Seq(Seq(AllMessages)) /\ Len(s) = 11
    BY <2>1, FunctionIsSeq
  <2> QED
    BY <1>4, <2>2
<1>6. Found(f, o) = FlattenSeq(s)
  BY DEF Found
<1> HIDE DEF s
<1>7. Found(f, o) \in Seq(AllMessages) /\ Found(f, o) # << >>
  BY <1>2, <1>5, <1>6, FlattenSeqProperties
<1>8. o.maxMessages \in Nat
  BY OptionsAssumption
<1>9. CASE o.maxMessages > 0 /\ o.maxMessages < Len(Found(f, o))
  <2>1. Lint(f, o) = SubSeq(Found(f, o), 1, o.maxMessages)
    BY <1>9 DEF Lint, Capped
  <2>2. Len(SubSeq(Found(f, o), 1, o.maxMessages)) = o.maxMessages
    BY <1>7, <1>8, <1>9, SubSeqProperties
  <2> QED
    BY <1>8, <1>9, <2>1, <2>2
<1>10. CASE ~(o.maxMessages > 0 /\ o.maxMessages < Len(Found(f, o)))
  BY <1>7, <1>10 DEF Lint, Capped
<1> QED
  BY <1>9, <1>10

-----------------------------------------------------------------------------
(* Clean reports *)

\* What renders gives a document of values.
LEMMA RenderedOutput ==
  ASSUME NEW f, NEW template \in Partial(Line), NEW doc \in Partial(Value),
         Renders(f, template, doc)
  PROVE  Rendered(f, template, doc) \in Partial(Output)
<1> DEFINE taken == {p \in DOMAIN template : Taken(template[p], doc)}
<1>1. taken \in SUBSET Paths
  BY DEF Partial
<1>2. \A p \in taken : Text(f, template[p], doc) \in Output
  BY TextOutput
<1>3. Rendered(f, template, doc) \in [taken -> Output]
  BY <1>2 DEF Rendered
<1> QED
  BY <1>1, <1>3 DEF Partial

\* A template renders when there is what it refers to and includes.
LEMMA RendersAll ==
  ASSUME NEW f, NEW template, NEW doc, \A x \in References(template) : Defined(doc, x),
         \A n \in Calls(template) : Includable(f, n, doc)
  PROVE  Renders(f, template, doc)
BY EvaluatedReferences DEF Calls, Renders

\* An App that fails to generate, for a reason that the linter looks at, is
\* reported by one of the functions of Needed.
LEMMA FailureIsFound ==
  ASSUME TypeOK, Lintable(files), NEW i \in Installations, NEW a \in Apps,
         NotLookedAt(i, a), Generated(files, i, a) = Failed
  PROVE  \/ \E x \in Fields : lintUndefinedTemplateValues(files, a, x)
         \/ \E x \in Fields : lintUndefinedTemplatePatchValues(files, i, a, x)
         \/ \E x \in Fields : lintUndefinedSecretTemplatePatchValues(files, i, a, x)
         \/ \E p \in Paths : lintUnencryptedSecretValues(files, i, p)
         \/ \E n \in Includes : IncludedButMissing(files, n)
<1> SUFFICES ASSUME \A x \in Fields : ~lintUndefinedTemplateValues(files, a, x),
                    \A x \in Fields : ~lintUndefinedTemplatePatchValues(files, i, a, x),
                    \A x \in Fields : ~lintUndefinedSecretTemplatePatchValues(files, i, a, x),
                    \A p \in Paths : ~lintUnencryptedSecretValues(files, i, p),
                    \A n \in Includes : ~IncludedButMissing(files, n)
             PROVE  FALSE
  OBVIOUS
<1> DEFINE template == files.template[a]
           patch == OrEmpty(files.templatePatch[i][a])
           context == Context(files, i)
           secretTemplate == files.secretTemplate[a]
           secretPatch == OrEmpty(files.secretPatch[i][a])
           secrets == Decrypted(files.secret[i])
<1>1. /\ files \in Files
      /\ template \in Partial(Line) /\ patch \in Partial(Line)
      /\ secretPatch \in Partial(Line) /\ files.secret[i] \in Partial(Value)
  BY OrEmptyPartial DEF TypeOK, Files
<1>2. secretTemplate # None /\ secretTemplate \in Partial(Line)
  BY <1>1 DEF Lintable, Files
<1>3. context \in Partial(Value)
  <2>1. files.config \in Partial(Value) /\ OrEmpty(files.patch[i]) \in Partial(Value)
    BY <1>1, OrEmptyPartial DEF Files
  <2> QED
    BY <2>1, PatchedPartial DEF Context
<1>4. secrets \in Partial(Value)
  BY <1>1, DecryptedPartial DEF Value
<1>5. DOMAIN context = DOMAIN files.config \cup DOMAIN files.patch[i]
  BY ContextDomain DEF Lintable
<1>6. \A t \in Partial(Line) : IncludesOf(t) \subseteq Includes
  <2>1. SUFFICES ASSUME NEW t \in Partial(Line), NEW x \in DOMAIN t
                 PROVE  t[x].kind = "include" => t[x].of \in Includes
    BY DEF IncludesOf, PathsOf
  <2>2. t[x] \in Line
    BY DEF Partial
  <2> QED
    BY <2>2 DEF Line
<1>7. ASSUME NEW x \in References(template) PROVE Defined(context, x)
  <2>1. CASE Excused(files, x)
    BY <2>1 DEF NotLookedAt
  <2>2. CASE ~Excused(files, x)
    <3>1. x \in Fields
      BY DEF References
    <3>2. ~Missing(files, i, x)
      BY <2>2, <3>1 DEF lintUndefinedTemplateValues
    <3> QED
      BY <1>5, <3>2 DEF Missing, Defined
  <2> QED
    BY <2>1, <2>2
<1>8. ASSUME NEW x \in References(patch) PROVE Defined(context, x)
  <2>1. x \in Fields
    BY DEF References
  <2>2. ~Missing(files, i, x)
    BY <2>1 DEF lintUndefinedTemplatePatchValues
  <2> QED
    BY <1>5, <2>2 DEF Missing, Defined
<1>9. \A n \in Calls(template) \cup Calls(patch) : Includable(files, n, context)
  <2>1. SUFFICES ASSUME NEW n \in IncludesOf(template) \cup IncludesOf(patch)
                 PROVE  Includable(files, n, context)
    BY DEF NotLookedAt
  <2>2. n \in Includes /\ Included(files, n)
    BY <1>1, <1>6 DEF Included
  <2>3. files.include[n] # None
    BY <2>2 DEF IncludedButMissing
  <2> QED
    BY <2>2, <2>3 DEF NotLookedAt, Includable
<1>10. Renders(files, template, context) /\ Renders(files, patch, context)
  BY <1>7, <1>8, <1>9, RendersAll
<1>11. ConfigMapOf(files, i, a) \in Partial(Output)
  <2>1. ConfigMapOf(files, i, a)
          = Patched(Rendered(files, template, context), Rendered(files, patch, context))
    BY <1>10 DEF ConfigMapOf
  <2>2. /\ Rendered(files, template, context) \in Partial(Output)
        /\ Rendered(files, patch, context) \in Partial(Output)
    BY <1>1, <1>3, <1>10, RenderedOutput
  <2> HIDE DEF template, patch, context
  <2> QED
    BY <2>1, <2>2, PatchedPartial
<1>12. Decryptable(files.secret[i])
  <2>1. DOMAIN files.secret[i] \subseteq Paths
    BY <1>1 DEF Partial
  <2> QED
    BY <2>1 DEF Decryptable, lintUnencryptedSecretValues
<1>13. \A p \in DOMAIN secretPatch :
         secretPatch[p].kind = "value" /\ secretPatch[p].of.sealed
  BY DEF NotLookedAt
<1>14. DOMAIN secrets = DOMAIN files.secret[i]
  BY DEF Decrypted
<1>15. Renders(files, secretTemplate, secrets)
  <2>1. \A x \in References(secretTemplate) : Defined(secrets, x)
    BY <1>14 DEF NotLookedAt, Defined
  <2>2. Calls(secretTemplate) = {}
    BY DEF NotLookedAt
  <2> QED
    BY <2>1, <2>2, RendersAll
<1>16. Renders(files, secretPatch, secrets)
  <2>1. \A x \in References(secretPatch) : Defined(secrets, x)
    <3>1. ASSUME NEW x \in References(secretPatch) PROVE x \in DOMAIN files.secret[i]
      <4>1. x \in Fields
        BY DEF References
      <4> QED
        BY <4>1 DEF lintUndefinedSecretTemplatePatchValues
    <3> QED
      BY <1>14, <3>1 DEF Defined
  <2>2. Calls(secretPatch) = {}
    BY <1>13 DEF Calls
  <2> QED
    BY <2>1, <2>2, RendersAll
<1>17. Decryptable(Rendered(files, secretPatch, secrets))
  BY <1>13 DEF Decryptable, Rendered, Text
<1>18. SecretOf(files, i, a) \in Partial(Output)
  <2>1. SecretOf(files, i, a)
          = Patched(Rendered(files, secretTemplate, secrets),
                    Decrypted(Rendered(files, secretPatch, secrets)))
    BY <1>2, <1>12, <1>15, <1>16, <1>17 DEF SecretOf
  <2>2. /\ Rendered(files, secretTemplate, secrets) \in Partial(Output)
        /\ Rendered(files, secretPatch, secrets) \in Partial(Output)
    BY <1>1, <1>2, <1>4, <1>15, <1>16, RenderedOutput
  <2> HIDE DEF secretTemplate, secretPatch, secrets
  <2>3. Decrypted(Rendered(files, secretPatch, secrets)) \in Partial(Output)
    BY <2>2, DecryptedPartial DEF Output
  <2> QED
    BY <2>1, <2>2, <2>3, PatchedPartial
<1>19. Generated(files, i, a)
         = [configmap |-> ConfigMapOf(files, i, a), secret |-> SecretOf(files, i, a)]
  BY <1>11, <1>18, FailedAssumption DEF Generated
<1> QED
  BY <1>11, <1>18, <1>19, FailedAssumption

\* If an App fails to generate for a reason that the linter looks at, the command
\* fails, with any flags that let it look, in every state.
THEOREM CleanAlwaysGenerates == Spec => []CleanGenerates
<1>1. TypeOK => CleanGenerates
  <2> SUFFICES ASSUME TypeOK, NEW i \in Installations, NEW a \in Apps,
                      Lintable(files), NotLookedAt(i, a), Generated(files, i, a) = Failed,
                      NEW o \in Options, o.functions = {} \/ Needed \subseteq o.functions,
                      o.skipped \cap Reportable(i, a) = {}
               PROVE  Lint(files, o) # << >>
    BY DEF CleanGenerates, Succeeds
  <2>1. files \in Files
    BY DEF TypeOK
  <2>2. \A function \in Needed :
          /\ Runs(o, function)
          /\ \E k \in DOMAIN allLinterFunctions : allLinterFunctions[k] = function
    <3>1. /\ 5 \in DOMAIN allLinterFunctions
          /\ allLinterFunctions[5] = "lintUndefinedTemplateValues"
          /\ 6 \in DOMAIN allLinterFunctions
          /\ allLinterFunctions[6] = "lintUndefinedTemplatePatchValues"
          /\ 9 \in DOMAIN allLinterFunctions
          /\ allLinterFunctions[9] = "lintUndefinedSecretTemplatePatchValues"
          /\ 10 \in DOMAIN allLinterFunctions
          /\ allLinterFunctions[10] = "lintUnencryptedSecretValues"
          /\ 11 \in DOMAIN allLinterFunctions /\ allLinterFunctions[11] = "lintIncludeFiles"
      BY DEF allLinterFunctions
    <3> QED
      BY <3>1 DEF Runs, Needed
  <2>3. ASSUME NEW function \in Needed, NEW x \in Errors(files)[function],
               x.path \in Reportable(i, a)
        PROVE  Lint(files, o) # << >>
    BY <2>1, <2>2, <2>3, LintSpeaks
  <2>4. ASSUME NEW x \in Fields, lintUndefinedTemplateValues(files, a, x)
        PROVE  Lint(files, o) # << >>
    <3> DEFINE e == At("template", All, a, x)
    <3>1. e \in Errors(files)["lintUndefinedTemplateValues"]
      <4>1. <<a, x>> \in {y \in Apps \X Fields : lintUndefinedTemplateValues(files, y[1], y[2])}
        BY <2>4
      <4> QED
        BY <4>1 DEF Errors
    <3>2. e.path \in Reportable(i, a)
      BY <2>4 DEF Reportable, lintUndefinedTemplateValues, At
    <3> QED
      BY <2>3, <3>1, <3>2 DEF Needed
  <2>5. ASSUME NEW x \in Fields, lintUndefinedTemplatePatchValues(files, i, a, x)
        PROVE  Lint(files, o) # << >>
    <3> DEFINE e == At("template patch", i, a, x)
    <3>1. e \in Errors(files)["lintUndefinedTemplatePatchValues"]
      <4> DEFINE y == <<i, a, x>>
      <4>1. /\ y \in {z \in Installations \X Apps \X Fields :
                       lintUndefinedTemplatePatchValues(files, z[1], z[2], z[3])}
            /\ e = At("template patch", y[1], y[2], y[3])
        BY <2>5
      <4> HIDE DEF e, y
      <4> QED
        BY <4>1 DEF Errors
    <3>2. e.path \in Reportable(i, a)
      BY <2>5 DEF Reportable, lintUndefinedTemplatePatchValues, At
    <3> QED
      BY <2>3, <3>1, <3>2 DEF Needed
  <2>6. ASSUME NEW x \in Fields, lintUndefinedSecretTemplatePatchValues(files, i, a, x)
        PROVE  Lint(files, o) # << >>
    <3> DEFINE e == At("secret patch", i, a, x)
    <3>1. e \in Errors(files)["lintUndefinedSecretTemplatePatchValues"]
      <4> DEFINE y == <<i, a, x>>
      <4>1. /\ y \in {z \in Installations \X Apps \X Fields :
                       lintUndefinedSecretTemplatePatchValues(files, z[1], z[2], z[3])}
            /\ e = At("secret patch", y[1], y[2], y[3])
        BY <2>6
      <4> HIDE DEF e, y
      <4> QED
        BY <4>1 DEF Errors
    <3>2. e.path \in Reportable(i, a)
      BY <2>6 DEF Reportable, lintUndefinedSecretTemplatePatchValues, At
    <3> QED
      BY <2>3, <3>1, <3>2 DEF Needed
  <2>7. ASSUME NEW p \in Paths, lintUnencryptedSecretValues(files, i, p)
        PROVE  Lint(files, o) # << >>
    <3> DEFINE e == At("secret.yaml", i, All, p)
    <3>1. e \in Errors(files)["lintUnencryptedSecretValues"]
      <4>1. <<i, p>> \in {y \in Installations \X Paths :
                            lintUnencryptedSecretValues(files, y[1], y[2])}
        BY <2>7
      <4> QED
        BY <4>1 DEF Errors
    <3>2. e.path \in Reportable(i, a)
      BY <2>7 DEF Reportable, lintUnencryptedSecretValues, At
    <3> QED
      BY <2>3, <3>1, <3>2 DEF Needed
  <2>8. ASSUME NEW n \in Includes, IncludedButMissing(files, n)
        PROVE  Lint(files, o) # << >>
    <3> DEFINE e == At(n, All, All, "*")
    <3>1. e \in Errors(files)["lintIncludeFiles"]
      BY <2>8 DEF Errors
    <3>2. e.path \in Reportable(i, a)
      BY DEF Reportable, At
    <3> QED
      BY <2>3, <3>1, <3>2 DEF Needed
  <2> QED
    BY <2>4, <2>5, <2>6, <2>7, <2>8, FailureIsFound
<1> QED
  BY <1>1, FilesTyped, PTL

-----------------------------------------------------------------------------
(* Fewer errors *)

\* What g has the linter report, f has.
AtMost(g, f) ==
  /\ \A p \in Paths :
       /\ lintUnusedconfigValues(g, p) => lintUnusedconfigValues(f, p)
       /\ lintovershadowedconfigValues(g, p) => lintovershadowedconfigValues(f, p)
  /\ \A i \in Installations, p \in Paths :
       /\ lintDuplicateconfigValues(g, i, p) => lintDuplicateconfigValues(f, i, p)
       /\ lintUnusedConfigPatchValues(g, i, p) => lintUnusedConfigPatchValues(f, i, p)
       /\ lintUnusedSecretValues(g, i, p) => lintUnusedSecretValues(f, i, p)
       /\ lintUnencryptedSecretValues(g, i, p) => lintUnencryptedSecretValues(f, i, p)
  /\ \A a \in Apps, x \in Fields :
       /\ lintUndefinedTemplateValues(g, a, x) => lintUndefinedTemplateValues(f, a, x)
       /\ lintUndefinedSecrettemplateValues(g, a, x) => lintUndefinedSecrettemplateValues(f, a, x)
  /\ \A i \in Installations, a \in Apps, x \in Fields :
       /\ lintUndefinedTemplatePatchValues(g, i, a, x) =>
            lintUndefinedTemplatePatchValues(f, i, a, x)
       /\ lintUndefinedSecretTemplatePatchValues(g, i, a, x) =>
            lintUndefinedSecretTemplatePatchValues(f, i, a, x)
  /\ \A n \in Includes :
       NeverIncluded(g, n) \/ IncludedButMissing(g, n) =>
         NeverIncluded(f, n) \/ IncludedButMissing(f, n)

LEMMA FewerErrors ==
  ASSUME NEW g, NEW f, AtMost(g, f), NEW k \in DOMAIN allLinterFunctions
  PROVE  Errors(g)[allLinterFunctions[k]] \subseteq Errors(f)[allLinterFunctions[k]]
<1>1. Errors(g)["lintUnusedconfigValues"] \subseteq Errors(f)["lintUnusedconfigValues"]
  BY DEF Errors, AtMost
<1>2. Errors(g)["lintDuplicateconfigValues"] \subseteq Errors(f)["lintDuplicateconfigValues"]
  <2>1. {y \in Installations \X Paths : lintDuplicateconfigValues(g, y[1], y[2])}
          \subseteq {y \in Installations \X Paths : lintDuplicateconfigValues(f, y[1], y[2])}
    BY DEF AtMost
  <2> QED
    BY <2>1 DEF Errors
<1>3. Errors(g)["lintovershadowedconfigValues"] \subseteq Errors(f)["lintovershadowedconfigValues"]
  BY DEF Errors, AtMost
<1>4. Errors(g)["lintUnusedConfigPatchValues"] \subseteq Errors(f)["lintUnusedConfigPatchValues"]
  <2>1. {y \in Installations \X Paths : lintUnusedConfigPatchValues(g, y[1], y[2])}
          \subseteq {y \in Installations \X Paths : lintUnusedConfigPatchValues(f, y[1], y[2])}
    BY DEF AtMost
  <2> QED
    BY <2>1 DEF Errors
<1>5. Errors(g)["lintUndefinedTemplateValues"] \subseteq Errors(f)["lintUndefinedTemplateValues"]
  <2>1. {y \in Apps \X Fields : lintUndefinedTemplateValues(g, y[1], y[2])}
          \subseteq {y \in Apps \X Fields : lintUndefinedTemplateValues(f, y[1], y[2])}
    BY DEF AtMost
  <2> QED
    BY <2>1 DEF Errors
<1>6. Errors(g)["lintUndefinedTemplatePatchValues"] \subseteq Errors(f)["lintUndefinedTemplatePatchValues"]
  <2>1. {y \in Installations \X Apps \X Fields : lintUndefinedTemplatePatchValues(g, y[1], y[2], y[3])}
          \subseteq {y \in Installations \X Apps \X Fields : lintUndefinedTemplatePatchValues(f, y[1], y[2], y[3])}
    BY DEF AtMost
  <2> QED
    BY <2>1 DEF Errors
<1>7. Errors(g)["lintUnusedSecretValues"] \subseteq Errors(f)["lintUnusedSecretValues"]
  <2>1. {y \in Installations \X Paths : lintUnusedSecretValues(g, y[1], y[2])}
          \subseteq {y \in Installations \X Paths : lintUnusedSecretValues(f, y[1], y[2])}
    BY DEF AtMost
  <2> QED
    BY <2>1 DEF Errors
<1>8. Errors(g)["lintUndefinedSecrettemplateValues"] \subseteq Errors(f)["lintUndefinedSecrettemplateValues"]
  <2>1. {y \in Apps \X Fields : lintUndefinedSecrettemplateValues(g, y[1], y[2])}
          \subseteq {y \in Apps \X Fields : lintUndefinedSecrettemplateValues(f, y[1], y[2])}
    BY DEF AtMost
  <2> QED
    BY <2>1 DEF Errors
<1>9. Errors(g)["lintUndefinedSecretTemplatePatchValues"] \subseteq Errors(f)["lintUndefinedSecretTemplatePatchValues"]
  <2>1. {y \in Installations \X Apps \X Fields : lintUndefinedSecretTemplatePatchValues(g, y[1], y[2], y[3])}
          \subseteq {y \in Installations \X Apps \X Fields : lintUndefinedSecretTemplatePatchValues(f, y[1], y[2], y[3])}
    BY DEF AtMost
  <2> QED
    BY <2>1 DEF Errors
<1>10. Errors(g)["lintUnencryptedSecretValues"] \subseteq Errors(f)["lintUnencryptedSecretValues"]
  <2>1. {y \in Installations \X Paths : lintUnencryptedSecretValues(g, y[1], y[2])}
          \subseteq {y \in Installations \X Paths : lintUnencryptedSecretValues(f, y[1], y[2])}
    BY DEF AtMost
  <2> QED
    BY <2>1 DEF Errors
<1>11. Errors(g)["lintIncludeFiles"] \subseteq Errors(f)["lintIncludeFiles"]
  BY DEF Errors, AtMost
<1> QED
  BY <1>1, <1>2, <1>3, <1>4, <1>5, <1>6, <1>7, <1>8, <1>9, <1>10, <1>11, FunctionNamed
     DEF FunctionNames


LEMMA FewerOfAll ==
  ASSUME NEW g, NEW f, AtMost(g, f), NEW k \in DOMAIN allLinterFunctions,
         NEW x \in Errors(f)[allLinterFunctions[k]], x \notin Errors(g)[allLinterFunctions[k]]
  PROVE  AllErrors(g) \subseteq AllErrors(f) /\ AllErrors(g) # AllErrors(f)
<1>1. \A h, y : y \in AllErrors(h) <=>
        \E l \in DOMAIN allLinterFunctions :
          \E z \in Errors(h)[allLinterFunctions[l]] : y = <<allLinterFunctions[l], z>>
  BY DEF AllErrors, ToSet
<1>2. AllErrors(g) \subseteq AllErrors(f)
  BY <1>1, FewerErrors
<1>3. <<allLinterFunctions[k], x>> \in AllErrors(f)
  BY <1>1
<1>4. <<allLinterFunctions[k], x>> \notin AllErrors(g)
  <2>1. \A y \in DOMAIN allLinterFunctions : \A z :
          <<allLinterFunctions[y], z>> = <<allLinterFunctions[k], x>> =>
            allLinterFunctions[y] = allLinterFunctions[k] /\ z = x
    OBVIOUS
  <2> QED
    BY <1>1, <2>1
<1> QED
  BY <1>2, <1>3, <1>4

\* Only secrets differ, or only config.yaml and its patches.
LEMMA SameIncludes ==
  ASSUME NEW g, NEW f, g.include = f.include, g.template = f.template,
         g.templatePatch = f.templatePatch, NEW n
  PROVE  NeverIncluded(g, n) \/ IncludedButMissing(g, n) <=>
           NeverIncluded(f, n) \/ IncludedButMissing(f, n)
BY DEF NeverIncluded, IncludedButMissing, Included

LEMMA SameSecrets ==
  ASSUME NEW g, NEW f, g.secret = f.secret, g.secretTemplate = f.secretTemplate,
         g.secretPatch = f.secretPatch, NEW i, NEW a, NEW p
  PROVE  /\ lintUnusedSecretValues(g, i, p) <=> lintUnusedSecretValues(f, i, p)
         /\ lintUnencryptedSecretValues(g, i, p) <=> lintUnencryptedSecretValues(f, i, p)
         /\ lintUndefinedSecrettemplateValues(g, a, p) <=>
              lintUndefinedSecrettemplateValues(f, a, p)
         /\ lintUndefinedSecretTemplatePatchValues(g, i, a, p) <=>
              lintUndefinedSecretTemplatePatchValues(f, i, a, p)
<1>1. \A j, b : CountedReferences(g, j, b) = CountedReferences(f, j, b)
  BY DEF CountedReferences
<1> QED
  BY <1>1 DEF lintUnusedSecretValues, lintUnencryptedSecretValues, UsesSecret,
     UsesSecretByPatch, UsesSecretByDefault, lintUndefinedSecrettemplateValues, MissingSecret,
     lintUndefinedSecretTemplatePatchValues

\* Unsetting an unused or overshadowed value of config.yaml.
LEMMA UnsetConfigReports ==
  ASSUME TypeOK, Lintable(files), NEW p \in Paths, UnsetConfig(p),
         lintUnusedconfigValues(files, p) \/ lintovershadowedconfigValues(files, p)
  PROVE  AtMost(files', files)
<1> DEFINE f == files
           g == files'
<1>1. /\ g.config = Without(f.config, p)
      /\ g.patch = f.patch /\ g.secret = f.secret /\ g.template = f.template
      /\ g.templatePatch = f.templatePatch /\ g.secretTemplate = f.secretTemplate
      /\ g.secretPatch = f.secretPatch /\ g.include = f.include
  BY DEF UnsetConfig, Commit, TypeOK, Files
<1>2. /\ DOMAIN g.config = DOMAIN f.config \ {p}
      /\ \A q \in DOMAIN g.config : g.config[q] = f.config[q]
  BY <1>1 DEF Without
<1>3. p \in DOMAIN f.config
  BY DEF lintUnusedconfigValues, lintovershadowedconfigValues
<1>4. \A i \in Installations : p \in DOMAIN f.patch[i]
         \/ \A a \in Apps : /\ p \notin References(f.template[a])
                            /\ p \notin References(OrEmpty(f.templatePatch[i][a]))
  BY <1>3 DEF lintUnusedconfigValues, lintovershadowedconfigValues, OvershadowedBy, UsesConfig,
     UsesConfigByPatch, UsesConfigByDefault
<1> HIDE DEF f, g
<1>5. ASSUME NEW q \in Paths
      PROVE  /\ lintUnusedconfigValues(g, q) => lintUnusedconfigValues(f, q)
             /\ lintovershadowedconfigValues(g, q) => lintovershadowedconfigValues(f, q)
  <2>1. q # p => \A i, a : UsesConfig(g, i, a, q) <=> UsesConfig(f, i, a, q)
    BY <1>1, <1>2 DEF UsesConfig, UsesConfigByPatch, UsesConfigByDefault
  <2> QED
    BY <1>1, <1>2, <2>1
       DEF lintUnusedconfigValues, lintovershadowedconfigValues, OvershadowedBy
<1>6. ASSUME NEW i \in Installations, NEW q \in Paths
      PROVE  /\ lintDuplicateconfigValues(g, i, q) => lintDuplicateconfigValues(f, i, q)
             /\ lintUnusedConfigPatchValues(g, i, q) => lintUnusedConfigPatchValues(f, i, q)
  BY <1>1, <1>2 DEF lintDuplicateconfigValues, lintUnusedConfigPatchValues, UsesPatch
<1>7. ASSUME NEW a \in Apps, NEW q \in Fields, lintUndefinedTemplateValues(g, a, q)
      PROVE  lintUndefinedTemplateValues(f, a, q)
  <2>1. PICK i \in Installations : Missing(g, i, q)
    BY <1>7 DEF lintUndefinedTemplateValues
  <2>2. Missing(f, i, q)
    BY <1>1, <1>2, <1>4, <1>7, <2>1 DEF Missing, lintUndefinedTemplateValues
  <2> QED
    BY <1>1, <1>7, <2>2 DEF lintUndefinedTemplateValues, Excused, OvershadowedBy
<1>8. ASSUME NEW i \in Installations, NEW a \in Apps, NEW q \in Fields,
             lintUndefinedTemplatePatchValues(g, i, a, q)
      PROVE  lintUndefinedTemplatePatchValues(f, i, a, q)
  BY <1>1, <1>2, <1>4, <1>8 DEF lintUndefinedTemplatePatchValues, Missing
<1> QED
  BY <1>1, <1>5, <1>6, <1>7, <1>8, SameIncludes, SameSecrets DEF AtMost, f, g

\* Unsetting an unused or duplicate value of a config.yaml.patch.
LEMMA UnsetPatchReports ==
  ASSUME TypeOK, Lintable(files), NEW j \in Installations, NEW p \in Paths, UnsetPatch(j, p),
         lintUnusedConfigPatchValues(files, j, p) \/ lintDuplicateconfigValues(files, j, p)
  PROVE  AtMost(files', files)
<1> DEFINE f == files
           g == files'
<1>1. /\ g.patch = [f.patch EXCEPT ![j] = Without(f.patch[j], p)]
      /\ g.config = f.config /\ g.secret = f.secret /\ g.template = f.template
      /\ g.templatePatch = f.templatePatch /\ g.secretTemplate = f.secretTemplate
      /\ g.secretPatch = f.secretPatch /\ g.include = f.include
  BY DEF UnsetPatch, Commit, TypeOK, Files
<1>2. /\ \A i \in Installations : i # j => g.patch[i] = f.patch[i]
      /\ DOMAIN g.patch[j] = DOMAIN f.patch[j] \ {p}
      /\ \A q \in DOMAIN g.patch[j] : g.patch[j][q] = f.patch[j][q]
  <2>1. DOMAIN f.patch = Installations
    BY DEF TypeOK, Files
  <2>2. g.patch[j] = Without(f.patch[j], p)
    BY <1>1, <2>1
  <2> QED
    BY <1>1, <2>1, <2>2 DEF Without
<1>3. p \in DOMAIN f.patch[j]
  BY DEF lintUnusedConfigPatchValues, lintDuplicateconfigValues
<1>4. p \in DOMAIN f.config
         \/ \A a \in Apps : /\ p \notin References(f.template[a])
                            /\ p \notin References(OrEmpty(f.templatePatch[j][a]))
  BY <1>3 DEF lintUnusedConfigPatchValues, lintDuplicateconfigValues, UsesPatch
<1> HIDE DEF f, g
<1>5. ASSUME NEW q \in Paths
      PROVE  /\ lintUnusedconfigValues(g, q) => lintUnusedconfigValues(f, q)
             /\ lintovershadowedconfigValues(g, q) => lintovershadowedconfigValues(f, q)
  <2>1. \A i \in Installations : DOMAIN g.patch[i] \subseteq DOMAIN f.patch[i]
    BY <1>2
  <2>2. \A i \in Installations : \A a : UsesConfig(f, i, a, q) => UsesConfig(g, i, a, q)
    BY <1>1, <2>1 DEF UsesConfig, UsesConfigByPatch, UsesConfigByDefault
  <2> QED
    BY <1>1, <2>1, <2>2
       DEF lintUnusedconfigValues, lintovershadowedconfigValues, OvershadowedBy
<1>6. ASSUME NEW i \in Installations, NEW q \in Paths
      PROVE  /\ lintDuplicateconfigValues(g, i, q) => lintDuplicateconfigValues(f, i, q)
             /\ lintUnusedConfigPatchValues(g, i, q) => lintUnusedConfigPatchValues(f, i, q)
  BY <1>1, <1>2 DEF lintDuplicateconfigValues, lintUnusedConfigPatchValues, UsesPatch
<1>7. ASSUME NEW a \in Apps, NEW q \in Fields, lintUndefinedTemplateValues(g, a, q)
      PROVE  lintUndefinedTemplateValues(f, a, q)
  <2>1. PICK i \in Installations : Missing(g, i, q)
    BY <1>7 DEF lintUndefinedTemplateValues
  <2>2. q # p
    BY <1>1, <1>4, <1>7, <2>1 DEF Missing, lintUndefinedTemplateValues
  <2>3. \A l \in Installations : q \in DOMAIN g.patch[l] <=> q \in DOMAIN f.patch[l]
    BY <1>2, <2>2
  <2> QED
    BY <1>1, <1>7, <2>3 DEF lintUndefinedTemplateValues, Missing, Excused, OvershadowedBy
<1>8. ASSUME NEW i \in Installations, NEW a \in Apps, NEW q \in Fields,
             lintUndefinedTemplatePatchValues(g, i, a, q)
      PROVE  lintUndefinedTemplatePatchValues(f, i, a, q)
  BY <1>1, <1>2, <1>4, <1>8 DEF lintUndefinedTemplatePatchValues, Missing
<1> QED
  BY <1>1, <1>5, <1>6, <1>7, <1>8, SameIncludes, SameSecrets DEF AtMost, f, g

\* Unsetting an unused value of a secret.yaml.
LEMMA UnsetSecretReports ==
  ASSUME TypeOK, Lintable(files), NEW j \in Installations, NEW p \in Paths, UnsetSecret(j, p),
         lintUnusedSecretValues(files, j, p)
  PROVE  AtMost(files', files)
<1> DEFINE f == files
           g == files'
<1>1. /\ g.secret = [f.secret EXCEPT ![j] = Without(f.secret[j], p)]
      /\ g.config = f.config /\ g.patch = f.patch /\ g.template = f.template
      /\ g.templatePatch = f.templatePatch /\ g.secretTemplate = f.secretTemplate
      /\ g.secretPatch = f.secretPatch /\ g.include = f.include
  BY DEF UnsetSecret, Commit, TypeOK, Files
<1>2. /\ \A i \in Installations : i # j => g.secret[i] = f.secret[i]
      /\ DOMAIN g.secret[j] = DOMAIN f.secret[j] \ {p}
      /\ \A q \in DOMAIN g.secret[j] : g.secret[j][q] = f.secret[j][q]
  <2>1. DOMAIN f.secret = Installations
    BY DEF TypeOK, Files
  <2>2. g.secret[j] = Without(f.secret[j], p)
    BY <1>1, <2>1
  <2> QED
    BY <1>1, <2>1, <2>2 DEF Without
<1>3. \A a \in Apps : p \notin References(OrEmpty(f.secretPatch[j][a]))
  BY DEF lintUnusedSecretValues, UsesSecret, UsesSecretByPatch
<1> HIDE DEF f, g
<1>4. ASSUME NEW q, NEW i, NEW a
      PROVE  /\ lintUnusedconfigValues(g, q) => lintUnusedconfigValues(f, q)
             /\ lintovershadowedconfigValues(g, q) => lintovershadowedconfigValues(f, q)
             /\ lintDuplicateconfigValues(g, i, q) => lintDuplicateconfigValues(f, i, q)
             /\ lintUnusedConfigPatchValues(g, i, q) => lintUnusedConfigPatchValues(f, i, q)
             /\ lintUndefinedTemplateValues(g, a, q) => lintUndefinedTemplateValues(f, a, q)
             /\ lintUndefinedTemplatePatchValues(g, i, a, q) =>
                  lintUndefinedTemplatePatchValues(f, i, a, q)
  <2>1. /\ \A k, b : /\ UsesConfig(g, k, b, q) <=> UsesConfig(f, k, b, q)
                     /\ UsesPatch(g, k, b, q) <=> UsesPatch(f, k, b, q)
        /\ \A k : Missing(g, k, q) <=> Missing(f, k, q)
        /\ OvershadowedBy(g, q) = OvershadowedBy(f, q)
        /\ Excused(g, q) <=> Excused(f, q)
    BY <1>1 DEF UsesConfig, UsesConfigByPatch, UsesConfigByDefault, UsesPatch, Missing,
       OvershadowedBy, Excused
  <2> QED
    BY <1>1, <2>1 DEF lintUnusedconfigValues, lintovershadowedconfigValues,
       lintDuplicateconfigValues, lintUnusedConfigPatchValues, lintUndefinedTemplateValues,
       lintUndefinedTemplatePatchValues
<1>5. ASSUME NEW i \in Installations, NEW q \in Paths
      PROVE  /\ lintUnusedSecretValues(g, i, q) => lintUnusedSecretValues(f, i, q)
             /\ lintUnencryptedSecretValues(g, i, q) => lintUnencryptedSecretValues(f, i, q)
  <2>1. \A a : CountedReferences(g, i, a) = CountedReferences(f, i, a)
    BY <1>1 DEF CountedReferences
  <2> QED
    BY <1>1, <1>2, <2>1 DEF lintUnusedSecretValues, lintUnencryptedSecretValues, UsesSecret,
       UsesSecretByPatch, UsesSecretByDefault
<1>6. ASSUME NEW i \in Installations, NEW a \in Apps, NEW q \in Fields,
             lintUndefinedSecretTemplatePatchValues(g, i, a, q)
      PROVE  lintUndefinedSecretTemplatePatchValues(f, i, a, q)
  BY <1>1, <1>2, <1>3, <1>6 DEF lintUndefinedSecretTemplatePatchValues
<1>7. ASSUME NEW a \in Apps, NEW q \in Fields, lintUndefinedSecrettemplateValues(g, a, q)
      PROVE  lintUndefinedSecrettemplateValues(f, a, q)
  <2>1. PICK i \in Installations : q \in CountedReferences(g, i, a) \ DOMAIN g.secret[i]
    BY <1>7 DEF lintUndefinedSecrettemplateValues, MissingSecret
  <2>2. \A k \in Installations : Defined(g.secret[k], q)
    BY <1>7 DEF lintUndefinedSecrettemplateValues
  <2>3. q # p
    BY <2>1, <2>2, LeafDefined
  <2>4. \A k \in Installations : DOMAIN g.secret[k] \subseteq DOMAIN f.secret[k]
    BY <1>2
  <2>5. \A k \in Installations : Defined(f.secret[k], q)
    BY <2>2, <2>4 DEF Defined
  <2>6. q \in CountedReferences(f, i, a) \ DOMAIN f.secret[i]
    <3>1. CountedReferences(g, i, a) = CountedReferences(f, i, a)
      BY <1>1 DEF CountedReferences
    <3> QED
      BY <1>2, <2>1, <2>3, <3>1
  <2> QED
    BY <2>5, <2>6 DEF lintUndefinedSecrettemplateValues, MissingSecret
<1> QED
  BY <1>1, <1>4, <1>5, <1>6, <1>7, SameIncludes DEF AtMost, f, g

\* An error that a predicate does not hold for any more is gone.
LEMMA ConfigErrorGone ==
  ASSUME NEW g, NEW f, NEW p \in Paths,
         \/ lintUnusedconfigValues(f, p) /\ ~lintUnusedconfigValues(g, p)
         \/ lintovershadowedconfigValues(f, p) /\ ~lintovershadowedconfigValues(g, p)
  PROVE  \E k \in DOMAIN allLinterFunctions :
           \E x \in Errors(f)[allLinterFunctions[k]] : x \notin Errors(g)[allLinterFunctions[k]]
<1> DEFINE x == At("config.yaml", All, All, p)
<1>1. /\ 1 \in DOMAIN allLinterFunctions /\ allLinterFunctions[1] = "lintUnusedconfigValues"
      /\ 3 \in DOMAIN allLinterFunctions
      /\ allLinterFunctions[3] = "lintovershadowedconfigValues"
  BY DEF allLinterFunctions
<1>2. \A q : At("config.yaml", All, All, q) = x => q = p
  BY DEF At
<1>3. CASE lintUnusedconfigValues(f, p) /\ ~lintUnusedconfigValues(g, p)
  <2>1. /\ x \in Errors(f)["lintUnusedconfigValues"]
        /\ x \notin Errors(g)["lintUnusedconfigValues"]
    BY <1>2, <1>3 DEF Errors
  <2> QED
    BY <1>1, <2>1
<1>4. CASE lintovershadowedconfigValues(f, p) /\ ~lintovershadowedconfigValues(g, p)
  <2>1. /\ x \in Errors(f)["lintovershadowedconfigValues"]
        /\ x \notin Errors(g)["lintovershadowedconfigValues"]
    BY <1>2, <1>4 DEF Errors
  <2> QED
    BY <1>1, <2>1
<1> QED
  BY <1>3, <1>4

LEMMA FileErrorGone ==
  ASSUME NEW g, NEW f, NEW i \in Installations, NEW p \in Paths,
         \/ lintUnusedConfigPatchValues(f, i, p) /\ ~lintUnusedConfigPatchValues(g, i, p)
         \/ lintDuplicateconfigValues(f, i, p) /\ ~lintDuplicateconfigValues(g, i, p)
         \/ lintUnusedSecretValues(f, i, p) /\ ~lintUnusedSecretValues(g, i, p)
  PROVE  \E k \in DOMAIN allLinterFunctions :
           \E x \in Errors(f)[allLinterFunctions[k]] : x \notin Errors(g)[allLinterFunctions[k]]
<1>1. /\ 4 \in DOMAIN allLinterFunctions /\ allLinterFunctions[4] = "lintUnusedConfigPatchValues"
      /\ 2 \in DOMAIN allLinterFunctions /\ allLinterFunctions[2] = "lintDuplicateconfigValues"
      /\ 7 \in DOMAIN allLinterFunctions /\ allLinterFunctions[7] = "lintUnusedSecretValues"
  BY DEF allLinterFunctions
<1> DEFINE y == <<i, p>>
<1>2. /\ y \in Installations \X Paths /\ y[1] = i /\ y[2] = p
      /\ \A kind : \A z \in Installations \X Paths :
           At(kind, z[1], All, z[2]) = At(kind, i, All, p) => z[1] = i /\ z[2] = p
  BY DEF At
<1> HIDE DEF y
<1>3. CASE lintUnusedConfigPatchValues(f, i, p) /\ ~lintUnusedConfigPatchValues(g, i, p)
  <2> DEFINE x == At("config.yaml.patch", i, All, p)
  <2>1. /\ x \in Errors(f)["lintUnusedConfigPatchValues"]
        /\ x \notin Errors(g)["lintUnusedConfigPatchValues"]
    BY <1>2, <1>3 DEF Errors
  <2> QED
    BY <1>1, <2>1
<1>4. CASE lintDuplicateconfigValues(f, i, p) /\ ~lintDuplicateconfigValues(g, i, p)
  <2> DEFINE x == At("config.yaml.patch", i, All, p)
  <2>1. /\ x \in Errors(f)["lintDuplicateconfigValues"]
        /\ x \notin Errors(g)["lintDuplicateconfigValues"]
    BY <1>2, <1>4 DEF Errors
  <2> QED
    BY <1>1, <2>1
<1>5. CASE lintUnusedSecretValues(f, i, p) /\ ~lintUnusedSecretValues(g, i, p)
  <2> DEFINE x == At("secret.yaml", i, All, p)
  <2>1. x \in Errors(f)["lintUnusedSecretValues"] /\ x \notin Errors(g)["lintUnusedSecretValues"]
    BY <1>2, <1>5 DEF Errors
  <2> QED
    BY <1>1, <2>1
<1> QED
  BY <1>3, <1>4, <1>5

\* What was unset is not reported any more.
LEMMA UnsetGone ==
  ASSUME TypeOK, Lintable(files), NEW p \in Paths
  PROVE  /\ UnsetConfig(p) => p \notin DOMAIN files'.config
         /\ \A i \in Installations :
              /\ UnsetPatch(i, p) => p \notin DOMAIN files'.patch[i]
              /\ UnsetSecret(i, p) => p \notin DOMAIN files'.secret[i]
<1>1. UnsetConfig(p) => p \notin DOMAIN files'.config
  BY DEF TypeOK, Files, UnsetConfig, Commit, Without
<1>2. ASSUME NEW i \in Installations, UnsetPatch(i, p)
      PROVE  p \notin DOMAIN files'.patch[i]
  <2>1. files'.patch[i] = Without(files.patch[i], p)
    BY <1>2 DEF TypeOK, Files, UnsetPatch, Commit
  <2> QED
    BY <2>1 DEF Without
<1>3. ASSUME NEW i \in Installations, UnsetSecret(i, p)
      PROVE  p \notin DOMAIN files'.secret[i]
  <2>1. files'.secret[i] = Without(files.secret[i], p)
    BY <1>3 DEF TypeOK, Files, UnsetSecret, Commit
  <2> QED
    BY <2>1 DEF Without
<1> QED
  BY <1>1, <1>2, <1>3

\* Each removal of what the linter tells to remove makes an error disappear, and
\* brings none up.
THEOREM AdviceAlwaysEnds == Spec => AdviceComesToAnEnd
<1>1. TypeOK =>
        (Lintable(files) /\ RemovesReported =>
           AllErrors(files') \subseteq AllErrors(files) /\ AllErrors(files') # AllErrors(files))
  <2> SUFFICES ASSUME TypeOK, Lintable(files), NEW p \in Paths,
                      \/ /\ UnsetConfig(p)
                         /\ \/ lintUnusedconfigValues(files, p)
                            \/ lintovershadowedconfigValues(files, p)
                      \/ \E i \in Installations :
                           \/ /\ UnsetPatch(i, p)
                              /\ \/ lintUnusedConfigPatchValues(files, i, p)
                                 \/ lintDuplicateconfigValues(files, i, p)
                           \/ UnsetSecret(i, p) /\ lintUnusedSecretValues(files, i, p)
               PROVE  /\ AtMost(files', files)
                      /\ \E k \in DOMAIN allLinterFunctions :
                           \E x \in Errors(files)[allLinterFunctions[k]] :
                             x \notin Errors(files')[allLinterFunctions[k]]
    BY FewerOfAll DEF RemovesReported
  <2>1. CASE /\ UnsetConfig(p)
             /\ lintUnusedconfigValues(files, p) \/ lintovershadowedconfigValues(files, p)
    <3>1. ~lintUnusedconfigValues(files', p) /\ ~lintovershadowedconfigValues(files', p)
      BY <2>1, UnsetGone DEF lintUnusedconfigValues, lintovershadowedconfigValues
    <3> QED
      BY <2>1, <3>1, UnsetConfigReports, ConfigErrorGone
  <2>2. ASSUME NEW i \in Installations, UnsetPatch(i, p),
               lintUnusedConfigPatchValues(files, i, p) \/ lintDuplicateconfigValues(files, i, p)
        PROVE  /\ AtMost(files', files)
               /\ \E k \in DOMAIN allLinterFunctions :
                    \E x \in Errors(files)[allLinterFunctions[k]] :
                      x \notin Errors(files')[allLinterFunctions[k]]
    <3>1. ~lintUnusedConfigPatchValues(files', i, p) /\ ~lintDuplicateconfigValues(files', i, p)
      BY <2>2, UnsetGone DEF lintUnusedConfigPatchValues, lintDuplicateconfigValues
    <3> QED
      BY <2>2, <3>1, UnsetPatchReports, FileErrorGone
  <2>3. ASSUME NEW i \in Installations, UnsetSecret(i, p), lintUnusedSecretValues(files, i, p)
        PROVE  /\ AtMost(files', files)
               /\ \E k \in DOMAIN allLinterFunctions :
                    \E x \in Errors(files)[allLinterFunctions[k]] :
                      x \notin Errors(files')[allLinterFunctions[k]]
    <3>1. ~lintUnusedSecretValues(files', i, p)
      BY <2>3, UnsetGone DEF lintUnusedSecretValues
    <3> QED
      BY <2>3, <3>1, UnsetSecretReports, FileErrorGone
  <2> QED
    BY <2>1, <2>2, <2>3
<1> QED
  BY <1>1, FilesTyped, PTL DEF AdviceComesToAnEnd

\* The errors are finitely many, so that there is an end for them to come to.
LEMMA ErrorsFinite ==
  ASSUME NEW f \in Files
  PROVE  IsFiniteSet(AllErrors(f))
<1>1. DOMAIN allLinterFunctions = 1 .. 11
  BY DEF allLinterFunctions
<1>2. IsFiniteSet(ToSet(allLinterFunctions) \X Places)
  <2> DEFINE name == [k \in 1 .. 11 |-> allLinterFunctions[k]]
  <2>1. ToSet(allLinterFunctions) = {name[k] : k \in 1 .. 11}
    BY <1>1 DEF ToSet
  <2>2. name \in [1 .. 11 -> ToSet(allLinterFunctions)]
    BY <2>1
  <2> HIDE DEF name
  <2>3. name \in Surjection(1 .. 11, ToSet(allLinterFunctions))
    BY <2>1, <2>2 DEF Surjection
  <2>4. IsFiniteSet(1 .. 11)
    <3>1. \A n \in Nat : IsFiniteSet(1 .. n)
      BY FS_Interval
    <3> QED
      BY <3>1
  <2>5. IsFiniteSet(ToSet(allLinterFunctions))
    BY <2>3, <2>4, FS_Surjection
  <2> QED
    BY <2>5, PlacesFinite, FS_Product
<1>3. AllErrors(f) \subseteq ToSet(allLinterFunctions) \X Places
  <2>1. SUFFICES ASSUME NEW name \in ToSet(allLinterFunctions), NEW x \in Errors(f)[name]
                 PROVE  <<name, x>> \in ToSet(allLinterFunctions) \X Places
    BY DEF AllErrors
  <2>2. PICK k \in DOMAIN allLinterFunctions : name = allLinterFunctions[k]
    BY DEF ToSet
  <2>3. x \in Places
    BY <2>2, ErrorPlaces
  <2> QED
    BY <2>3
<1> QED
  BY <1>2, <1>3, FS_Subset

\* Each removal of what the linter tells to remove lowers the number of errors.
THEOREM AdviceCountsDown ==
  Spec => [][Lintable(files) /\ RemovesReported =>
               /\ Cardinality(AllErrors(files)) \in Nat
               /\ Cardinality(AllErrors(files')) < Cardinality(AllErrors(files))]_vars
<1>1. ASSUME TypeOK, AllErrors(files') \subseteq AllErrors(files),
             AllErrors(files') # AllErrors(files)
      PROVE  /\ Cardinality(AllErrors(files)) \in Nat
             /\ Cardinality(AllErrors(files')) < Cardinality(AllErrors(files))
  <2>1. files \in Files
    BY <1>1 DEF TypeOK
  <2>2. IsFiniteSet(AllErrors(files))
    BY <2>1, ErrorsFinite
  <2>3. IsFiniteSet(AllErrors(files'))
    BY <1>1, <2>2, FS_Subset
  <2>4. /\ Cardinality(AllErrors(files')) <= Cardinality(AllErrors(files))
        /\ Cardinality(AllErrors(files')) # Cardinality(AllErrors(files))
    BY <1>1, <2>2, FS_Subset
  <2>5. Cardinality(AllErrors(files)) \in Nat /\ Cardinality(AllErrors(files')) \in Nat
    BY <2>2, <2>3, FS_CardinalityType
  <2> QED
    BY <2>4, <2>5
<1> QED
  BY <1>1, FilesTyped, AdviceAlwaysEnds, PTL DEF AdviceComesToAnEnd

=============================================================================
