----------------------------- MODULE LintReport -----------------------------
(***************************************************************************)
(* The report that "config-controller lint" makes of what the linter       *)
(* functions find, and the exit status that says whether it is empty: the  *)
(* functions run one after the other, and filters and a limit are applied  *)
(* to what they find.                                                      *)
(*                                                                         *)
(* The order of the messages of one function is by file and path among     *)
(* errors and among suggestions; which order that is does not matter here. *)
(* There are installations and Apps, so no function returns at once.       *)
(***************************************************************************)
EXTENDS Linter, SequencesExt

CONSTANT Options  \* the command's flags

ASSUME OptionsAssumption ==
  Options \subseteq [functions : SUBSET STRING, onlyErrors : BOOLEAN, maxMessages : Nat,
                     skipped : SUBSET (Fields \cup {"*"})]

\* A repository has finitely many files of finitely many lines.
ASSUME RepositoryAssumption ==
  IsFiniteSet(Installations) /\ IsFiniteSet(Apps) /\ IsFiniteSet(Fields) /\ IsFiniteSet(Includes)

allLinterFunctions ==
  <<"lintUnusedconfigValues", "lintDuplicateconfigValues", "lintovershadowedconfigValues",
    "lintUnusedConfigPatchValues", "lintUndefinedTemplateValues",
    "lintUndefinedTemplatePatchValues", "lintUnusedSecretValues",
    "lintUndefinedSecrettemplateValues", "lintUndefinedSecretTemplatePatchValues",
    "lintUnencryptedSecretValues", "lintIncludeFiles">>

-----------------------------------------------------------------------------
(* What the functions find, as sets of places in files. *)

At(kind, i, a, path) == [sourceFile |-> <<kind, i, a>>, path |-> path]
All == "every"  \* a file that is not of one installation or App

\* usedBy, with each template counted once.
UsersOf(f, p) ==
  {x \in Installations \X Apps : UsesConfigByPatch(f, x[1], x[2], p)}
    \cup {x \in {All} \X Apps : \E i \in Installations : UsesConfigByDefault(f, i, x[2], p)}
SecretUsersOf(f, i, p) ==
  {x \in {i} \X Apps : UsesSecretByPatch(f, i, x[2], p)}
    \cup {x \in {All} \X Apps : UsesSecretByDefault(f, i, x[2], p)}

\* A default template of a secret is looked at where the App has a patch; the
\* test that the path is not a tree node of some secret.yaml is inverted.
MissingSecret(f, a, x) ==
  \E i \in Installations : x \in CountedReferences(f, i, a) \ DOMAIN f.secret[i]
lintUndefinedSecrettemplateValues(f, a, x) ==
  /\ MissingSecret(f, a, x)
  /\ \A i \in Installations : Defined(f.secret[i], x)

Errors(f) ==
  [lintUnusedconfigValues |->
     {At("config.yaml", All, All, p) : p \in {q \in Paths : lintUnusedconfigValues(f, q)}},
   lintDuplicateconfigValues |->
     {At("config.yaml.patch", x[1], All, x[2]) :
        x \in {y \in Installations \X Paths : lintDuplicateconfigValues(f, y[1], y[2])}},
   lintovershadowedconfigValues |->
     {At("config.yaml", All, All, p) : p \in {q \in Paths : lintovershadowedconfigValues(f, q)}},
   lintUnusedConfigPatchValues |->
     {At("config.yaml.patch", x[1], All, x[2]) :
        x \in {y \in Installations \X Paths : lintUnusedConfigPatchValues(f, y[1], y[2])}},
   lintUndefinedTemplateValues |->
     {At("template", All, x[1], x[2]) :
        x \in {y \in Apps \X Fields : lintUndefinedTemplateValues(f, y[1], y[2])}},
   lintUndefinedTemplatePatchValues |->
     {At("template patch", x[1], x[2], x[3]) :
        x \in {y \in Installations \X Apps \X Fields :
                 lintUndefinedTemplatePatchValues(f, y[1], y[2], y[3])}},
   lintUnusedSecretValues |->
     {At("secret.yaml", x[1], All, x[2]) :
        x \in {y \in Installations \X Paths : lintUnusedSecretValues(f, y[1], y[2])}},
   lintUndefinedSecrettemplateValues |->
     {At("secret template", All, x[1], x[2]) :
        x \in {y \in Apps \X Fields : lintUndefinedSecrettemplateValues(f, y[1], y[2])}},
   lintUndefinedSecretTemplatePatchValues |->
     {At("secret patch", x[1], x[2], x[3]) :
        x \in {y \in Installations \X Apps \X Fields :
                 lintUndefinedSecretTemplatePatchValues(f, y[1], y[2], y[3])}},
   lintUnencryptedSecretValues |->
     {At("secret.yaml", x[1], All, x[2]) :
        x \in {y \in Installations \X Paths : lintUnencryptedSecretValues(f, y[1], y[2])}},
   lintIncludeFiles |->
     {At(n, All, All, "*") :
        n \in {m \in Includes : NeverIncluded(f, m) \/ IncludedButMissing(f, m)}}]

\* Suggestions of the functions that make any. That most, but not all, patches
\* overshadow a value is never suggested: the quotient of the two numbers is one of
\* integers and reaches 0.75 only when they are equal.
Suggestions(f, function) ==
  CASE function = "lintUnusedconfigValues" ->
         {At("config.yaml", All, All, p) :
            p \in {q \in DOMAIN f.config : Cardinality(UsersOf(f, q)) = 1}}
    [] function = "lintovershadowedconfigValues" ->
         {At("config.yaml", All, All, p) :
            p \in {q \in DOMAIN f.config :
                     /\ OvershadowedBy(f, q) # Installations
                     /\ 4 * (Cardinality(OvershadowedBy(f, q)) \div Cardinality(Installations)) >= 3}}
    [] function = "lintUnusedSecretValues" ->
         UNION {{At("secret.yaml", i, All, p) :
                   p \in {q \in DOMAIN f.secret[i] : Cardinality(SecretUsersOf(f, i, q)) = 1}} :
                i \in Installations}
    [] OTHER -> {}

-----------------------------------------------------------------------------
(* Linter.Lint *)

\* getFilteredLinterFunctions, skipValidation, OnlyErrors
Runs(o, function) == o.functions = {} \/ function \in o.functions
Wanted(o, msg) == msg.at.path \notin o.skipped /\ (o.onlyErrors => msg.isError)

\* What is printed of what a function finds, errors first.
Messages(f, o, function) ==
  LET Said(isError, places) ==
        SetToSeq({msg \in {[isError |-> isError, at |-> x] : x \in places} : Wanted(o, msg)})
  IN Said(TRUE, Errors(f)[function]) \o Said(FALSE, Suggestions(f, function))

Found(f, o) ==
  FlattenSeq([k \in DOMAIN allLinterFunctions |->
                IF Runs(o, allLinterFunctions[k])
                THEN Messages(f, o, allLinterFunctions[k]) ELSE << >>])
Capped(o, messages) ==
  IF o.maxMessages > 0 /\ o.maxMessages < Len(messages)
  THEN SubSeq(messages, 1, o.maxMessages) ELSE messages

LintCapFirst(f, o) ==
  SelectSeq(Capped(o, Found(f, [o EXCEPT !.skipped = {}, !.onlyErrors = FALSE])),
            LAMBDA msg : Wanted(o, msg))
Lint(f, o) == Capped(o, Found(f, o))

\* The command exits with status 0: the files could be read, and nothing is said.
Succeeds(f, o) == Lintable(f) /\ Lint(f, o) = << >>

-----------------------------------------------------------------------------
(* Properties *)

\* If an App fails to generate for an installation, the command fails, whatever it
\* is told to leave out of its report and however few messages it may print
\* (lint.go:102, runner.go:107): as long as it runs the functions that find
\* undefined and unencrypted values and missing include files, and skips no path
\* that these would report here. But for what the linter does not look at: what
\* templates have undefined and some patch excuses, what include files refer to or
\* include, files included on a condition, and what secret templates refer to or
\* include and secret patches have that Vault did not encrypt.
Needed == {"lintUndefinedTemplateValues", "lintUndefinedTemplatePatchValues",
           "lintUndefinedSecretTemplatePatchValues", "lintUnencryptedSecretValues",
           "lintIncludeFiles"}
NotLookedAt(i, a) ==
  LET context == Context(files, i)
      template == files.template[a]
      templatePatch == OrEmpty(files.templatePatch[i][a])
      secretTemplate == files.secretTemplate[a]
      secretPatch == OrEmpty(files.secretPatch[i][a])
  IN /\ \A x \in References(template) : Excused(files, x) => Defined(context, x)
     /\ \A n \in Includes : files.include[n] # None =>
          /\ \A x \in files.include[n].refs : Defined(context, x)
          /\ files.include[n].includes = {}
     /\ Calls(template) = IncludesOf(template)
     /\ Calls(templatePatch) = IncludesOf(templatePatch)
     /\ \A x \in References(secretTemplate) : Defined(files.secret[i], x)
     /\ Calls(secretTemplate) = {}
     /\ \A p \in DOMAIN secretPatch :
          secretPatch[p].kind = "value" /\ secretPatch[p].of.sealed
Reportable(i, a) ==
  References(files.template[a])
    \cup References(OrEmpty(files.templatePatch[i][a]))
    \cup References(OrEmpty(files.secretPatch[i][a])) \cup DOMAIN files.secret[i] \cup {"*"}
CleanGenerates ==
  \A i \in Installations, a \in Apps :
    Lintable(files) /\ NotLookedAt(i, a) /\ Generated(files, i, a) = Failed =>
      \A o \in Options :
        /\ o.functions = {} \/ Needed \subseteq o.functions
        /\ o.skipped \cap Reportable(i, a) = {}
        => ~Succeeds(files, o)

\* Removing what the linter tells to remove, one value after the other, comes to
\* an end: each time an error disappears, and none comes up that was not there
\* (getting rid of a value in one file may make it unused, undefined or a
\* duplicate in another).
AllErrors(f) ==
  UNION {{<<name, x>> : x \in Errors(f)[name]} : name \in ToSet(allLinterFunctions)}
RemovesReported ==
  \E p \in Paths :
    \/ /\ UnsetConfig(p)
       /\ lintUnusedconfigValues(files, p) \/ lintovershadowedconfigValues(files, p)
    \/ \E i \in Installations :
         \/ /\ UnsetPatch(i, p)
            /\ lintUnusedConfigPatchValues(files, i, p) \/ lintDuplicateconfigValues(files, i, p)
         \/ UnsetSecret(i, p) /\ lintUnusedSecretValues(files, i, p)
AdviceComesToAnEnd ==
  [][Lintable(files) /\ RemovesReported =>
       AllErrors(files') \subseteq AllErrors(files) /\ AllErrors(files') # AllErrors(files)]_vars

=============================================================================
