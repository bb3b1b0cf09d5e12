------------------------------- MODULE Linter -------------------------------
(***************************************************************************)
(* What the linter says of the files of the config repository, compared    *)
(* with what the generator makes of them.  The linter reads the files, not *)
(* their output: it finds references and include calls in each template by *)
(* itself, and cross-references them with the values.                      *)
(***************************************************************************)
EXTENDS ConfigGenerator

-----------------------------------------------------------------------------
(* newDiscovery *)

\* Files the linter cannot do without, more than the generator's.
Lintable(f) ==
  /\ \A i \in Installations : f.patch[i] # None
  /\ \A a \in Apps : f.secretTemplate[a] # None

\* newTemplateFile: a template refers to whatever looks like a field in its text;
\* its paths and the files it includes are those it has when it is executed without
\* a document, when no condition holds.
References(template) ==
  {x \in Fields : \E p \in DOMAIN template :
     \/ template[p].when = x
     \/ template[p].kind = "ref" /\ x \in {template[p].of, template[p].field}}
PathsOf(template) == {p \in DOMAIN template : template[p].when = None}
IncludesOf(template) ==
  {template[p].of : p \in {q \in PathsOf(template) : template[q].kind = "include"}}

\* populatePathsWithUsedBy: i's patch is used before the default.
UsesPatch(f, i, a, p) ==
  /\ p \in DOMAIN f.patch[i]
  /\ \/ p \in References(OrEmpty(f.templatePatch[i][a]))
     \/ p \in References(f.template[a])
UsesConfigByPatch(f, i, a, p) ==
  p \in (DOMAIN f.config \ DOMAIN f.patch[i]) \cap References(OrEmpty(f.templatePatch[i][a]))
UsesConfigByDefault(f, i, a, p) ==
  p \in (DOMAIN f.config \ DOMAIN f.patch[i]) \cap References(f.template[a])
UsesConfig(f, i, a, p) == UsesConfigByPatch(f, i, a, p) \/ UsesConfigByDefault(f, i, a, p)

\* mayBeMissing, which a tree node always is.
Missing(f, i, x) == x \notin DOMAIN f.patch[i] \cup DOMAIN f.config

\* populateSecretPathsWithUsedBy: the default template counts only where there
\* is a patch, and there without what the patch has at the same path.
CountedReferences(f, i, a) ==
  IF f.secretPatch[i][a] = None THEN {}
  ELSE References(f.secretTemplate[a]) \ PathsOf(f.secretPatch[i][a])
UsesSecretByPatch(f, i, a, p) ==
  p \in DOMAIN f.secret[i] \cap References(OrEmpty(f.secretPatch[i][a]))
UsesSecretByDefault(f, i, a, p) == p \in DOMAIN f.secret[i] \cap CountedReferences(f, i, a)
UsesSecret(f, i, a, p) == UsesSecretByPatch(f, i, a, p) \/ UsesSecretByDefault(f, i, a, p)

-----------------------------------------------------------------------------
(* The linter functions; each holds of what it reports. *)

lintUnusedconfigValues(f, p) ==
  /\ p \in DOMAIN f.config
  /\ \A i \in Installations, a \in Apps : ~UsesConfig(f, i, a, p)

lintUnusedConfigPatchValues(f, i, p) ==
  p \in DOMAIN f.patch[i] /\ \A a \in Apps : ~UsesPatch(f, i, a, p)

lintUnusedSecretValues(f, i, p) ==
  p \in DOMAIN f.secret[i] /\ \A a \in Apps : ~UsesSecret(f, i, a, p)

lintDuplicateAnywhere(f, i, p) ==
  /\ p \in DOMAIN f.config \cap DOMAIN f.patch[i]
  /\ \E j \in Installations : p \in DOMAIN f.patch[j] /\ f.patch[j][p] = f.config[p]
lintDuplicateconfigValues(f, i, p) ==
  p \in DOMAIN f.config \cap DOMAIN f.patch[i] /\ f.patch[i][p] = f.config[p]

OvershadowedBy(f, p) == {i \in Installations : p \in DOMAIN f.patch[i]}

lintovershadowedBySome(f, p) == p \in DOMAIN f.config /\ OvershadowedBy(f, p) # {}
lintovershadowedconfigValues(f, p) ==
  p \in DOMAIN f.config /\ OvershadowedBy(f, p) = Installations

\* A patch anywhere excuses it, or a template patch that has the same path or one
\* below.
Excused(f, x) ==
  \/ OvershadowedBy(f, x) # {}
  \/ \E i \in Installations, a \in Apps :
       Leaves({x}) \cap PathsOf(OrEmpty(f.templatePatch[i][a])) # {}

lintUndefinedUnexcused(f, a, x) ==
  x \in References(f.template[a]) /\ \E i \in Installations : Missing(f, i, x)
lintUndefinedTemplateValues(f, a, x) ==
  /\ x \in References(f.template[a])
  /\ \E i \in Installations : Missing(f, i, x)
  /\ ~Excused(f, x)

lintUndefinedByDefault(f, i, a, x) ==
  x \in References(OrEmpty(f.templatePatch[i][a])) \ DOMAIN f.config
lintUndefinedTemplatePatchValues(f, i, a, x) ==
  x \in References(OrEmpty(f.templatePatch[i][a])) /\ Missing(f, i, x)

lintUndefinedSecretTemplatePatchValues(f, i, a, x) ==
  x \in References(OrEmpty(f.secretPatch[i][a])) \ DOMAIN f.secret[i]

lintUnencryptedSecretValues(f, i, p) == p \in DOMAIN f.secret[i] /\ ~f.secret[i][p].sealed

\* lintIncludeFiles
IncludedByDefaults(f, n) ==
  \/ \E m \in Includes : f.include[m] # None /\ n \in f.include[m].includes
  \/ \E a \in Apps : n \in IncludesOf(f.template[a])
Included(f, n) ==
  \/ \E m \in Includes : f.include[m] # None /\ n \in f.include[m].includes
  \/ \E a \in Apps : n \in IncludesOf(f.template[a])
  \/ \E i \in Installations, a \in Apps : n \in IncludesOf(OrEmpty(f.templatePatch[i][a]))
NeverIncluded(f, n) == f.include[n] # None /\ ~Included(f, n)
IncludedButMissing(f, n) == f.include[n] = None /\ Included(f, n)

-----------------------------------------------------------------------------
(* Properties *)

\* What the linter does not see: values that are read below a tree node, by
\* include files or by default templates of secrets, and include files that secrets
\* include or that are included on a condition.
ReadByNode(template, p) == p \in Leaves(References(template) \cap Nodes)
ReadByInclude(f, p) ==
  \E n \in Includes : f.include[n] # None /\ p \in Leaves(f.include[n].refs)
ReadUnseen(f, p) ==
  \/ ReadByInclude(f, p)
  \/ \E a \in Apps :
       \/ ReadByNode(f.template[a], p)
       \/ \E i \in Installations : ReadByNode(OrEmpty(f.templatePatch[i][a]), p)
SecretReadUnseen(f, p) ==
  \/ ReadByInclude(f, p)
  \/ \E a \in Apps :
       \/ p \in Leaves(References(OrEmpty(f.secretTemplate[a])))
       \/ \E i \in Installations : ReadByNode(OrEmpty(f.secretPatch[i][a]), p)
Calls(template) ==
  {template[p].of : p \in {q \in DOMAIN template : template[q].kind = "include"}}
OnCondition(template) == Calls(template) \ IncludesOf(template)
IncludedUnseen(f, n) ==
  \E a \in Apps :
    \/ n \in OnCondition(f.template[a]) \cup Calls(OrEmpty(f.secretTemplate[a]))
    \/ \E i \in Installations :
         \/ n \in OnCondition(OrEmpty(f.templatePatch[i][a]))
         \/ n \in Calls(OrEmpty(f.secretPatch[i][a]))

\* A commit that removes one value or include file, as the linter advises.
Heeds ==
  \E p \in Paths :
    \/ /\ UnsetConfig(p)
       /\ \/ lintUnusedconfigValues(files, p) /\ ~ReadUnseen(files, p)
          \/ lintovershadowedconfigValues(files, p)
    \/ \E i \in Installations :
         /\ UnsetPatch(i, p)
         /\ \/ lintUnusedConfigPatchValues(files, i, p) /\ ~ReadUnseen(files, p)
            \/ lintDuplicateconfigValues(files, i, p)
    \/ \E i \in Installations :
         /\ UnsetSecret(i, p)
         /\ lintUnusedSecretValues(files, i, p)
         /\ ~lintUnencryptedSecretValues(files, i, p)
         /\ ~SecretReadUnseen(files, p)
    \/ \E n \in Includes :
         /\ RemoveInclude(n)
         /\ NeverIncluded(files, n) /\ ~IncludedUnseen(files, n)

\* Removing from config.yaml or a config.yaml.patch a value that the linter
\* calls unused, overshadowed by all patches, or a duplicate of the default, from
\* secret.yaml an encrypted one it calls unused, or an include file it calls never
\* included, changes no generated document, unless what the linter does not see
\* uses it.
AdviceIsSafe ==
  [][Lintable(files) /\ Heeds =>
       \A i \in Installations, a \in Apps :
         Generated(files', i, a) = Generated(files, i, a)]_vars

\* A leaf that a default template refers to and that is "templated but never
\* configured" fails the App in every installation for which the template comes to
\* evaluate it (lintUndefinedTemplateValues, missingkey=error): mayBeMissing may have
\* been set for another installation, and a template patch does not help.
NeverConfiguredFails ==
  Lintable(files) =>
    \A a \in Apps, p \in Paths, i \in Installations :
      /\ lintUndefinedTemplateValues(files, a, p)
      /\ p \in Evaluated(files.template[a], Context(files, i))
      => Generated(files, i, a) = Failed

\* Of the fields that a patch of templates evaluates for its installation, an
\* undefined one is always reported, and a leaf that is reported always fails the
\* generation (lintUndefinedTemplatePatchValues,
\* lintUndefinedSecretTemplatePatchValues).  A tree node is reported either way.
Reports(i, a, x) == lintUndefinedTemplatePatchValues(files, i, a, x)
SecretReports(i, a, x) == lintUndefinedSecretTemplatePatchValues(files, i, a, x)
PatchErrorsMatch ==
  Lintable(files) =>
    \A i \in Installations, a \in Apps :
      LET context == Context(files, i)
          secret == Decrypted(files.secret[i])
      IN /\ \A x \in Evaluated(OrEmpty(files.templatePatch[i][a]), context) :
              /\ ~Defined(context, x) => Reports(i, a, x)
              /\ Reports(i, a, x) /\ x \in Paths => Generated(files, i, a) = Failed
         /\ \A x \in Evaluated(OrEmpty(files.secretPatch[i][a]), secret) :
              /\ ~Defined(secret, x) => SecretReports(i, a, x)
              /\ SecretReports(i, a, x) /\ x \in Paths => Generated(files, i, a) = Failed

-----------------------------------------------------------------------------
(* What a comment of the linter says, and the code does not do. *)

\* discovery.go: "Check SECRET templates for all apps x installations, then set
\* UsedBy fields".  A value of secret.yaml that is reported unused then is not
\* read by any App's template.
UnusedSecretsAreUnread ==
  Lintable(files) =>
    \A i \in Installations, a \in Apps, p \in Paths :
      lintUnusedSecretValues(files, i, p) => p \notin References(files.secretTemplate[a])

=============================================================================
