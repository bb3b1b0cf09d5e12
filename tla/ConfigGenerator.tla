-------------------------- MODULE ConfigGenerator --------------------------
(***************************************************************************)
(* What the generator makes of the files of the config repository: values, *)
(* templates over values, and an installation's patches of both.  The      *)
(* files change by commits; a generated document is a function of them,    *)
(* of the installation and of the App.                                     *)
(***************************************************************************)
EXTENDS Naturals, FiniteSets

CONSTANTS
  Installations,
  Apps,
  Paths,        \* paths of leaves in documents
  Nodes,        \* paths of trees in documents
  Under,        \* the leaves below a tree node
  Texts,        \* what values say
  Falsy,        \* what a condition does not hold of
  Includes,     \* names of include files
  None,         \* there is no such file
  Failed,       \* an error instead of documents
  InitialFiles, \* repositories to start from
  Lines,        \* bound on the lines that are committed
  MaxCommits    \* bound on the number of commits

VARIABLES files, commits

vars == <<files, commits>>

-----------------------------------------------------------------------------
(* Files *)

\* A value, and whether it is encrypted.
Value == [text : Texts, sealed : BOOLEAN]

\* What a dot in a template may be followed by: {{ .registry.domain }} is a leaf and
\* {{ .registry }} a tree node.
Fields == Paths \cup Nodes

\* What a template has at a path: a value, a reference to what the document it is
\* rendered with has at a leaf or below a node, or the text of an include file.
\* {{ range .registry }} may name a "field" of each thing there; {{ if .when }} may
\* go around the line.
Line ==
  [kind : {"value"}, of : Value, when : Fields \cup {None}]
    \cup [kind : {"ref"}, of : Fields, field : Paths \cup {None}, when : Fields \cup {None}]
    \cup [kind : {"include"}, of : Includes, when : Fields \cup {None}]

\* Documents and templates.
Partial(T) == UNION {[S -> T] : S \in SUBSET Paths}
Empty == [p \in {} |-> None]

Files ==
  [config         : Partial(Value),
   patch          : [Installations -> Partial(Value) \cup {None}],
   secret         : [Installations -> Partial(Value)],
   template       : [Apps -> Partial(Line)],
   templatePatch  : [Installations -> [Apps -> Partial(Line) \cup {None}]],
   secretTemplate : [Apps -> Partial(Line) \cup {None}],
   secretPatch    : [Installations -> [Apps -> Partial(Line) \cup {None}]],
   include        : [Includes -> [refs : SUBSET Fields, includes : SUBSET Includes]
                                   \cup {None}]]

OrEmpty(doc) == IF doc = None THEN Empty ELSE doc

ASSUME FilesAssumption ==
  /\ InitialFiles \subseteq Files
  /\ Lines \subseteq Line
  /\ None \notin Partial(Value)
  /\ MaxCommits \in Nat

ASSUME FieldsAssumption ==
  /\ Paths \cap Nodes = {}
  /\ None \notin Fields
  /\ Under \in [Nodes -> SUBSET Paths]
  /\ Falsy \subseteq Texts

\* A generated value; the text of a tree or of an include file is what it reads.
\* An error is no document.
Output == [text : Texts \cup Partial(Value), sealed : BOOLEAN]

ASSUME FailedAssumption ==
  Failed \notin Partial(Output) \cup [configmap : Partial(Output), secret : Partial(Output)]

-----------------------------------------------------------------------------
(* applyPatch *)

Patched(base, patch) ==
  [p \in DOMAIN base \cup DOMAIN patch |->
     IF p \in DOMAIN patch THEN patch[p] ELSE base[p]]

-----------------------------------------------------------------------------
(* renderTemplate, include *)

\* A tree is there when a leaf below it is.
Defined(doc, x) ==
  \/ x \in DOMAIN doc
  \/ x \in Nodes /\ Under[x] \cap DOMAIN doc # {}

\* The leaves that fields are or contain, and what a document has there.
Leaves(fields) == (fields \cap Paths) \cup UNION {Under[x] : x \in fields \cap Nodes}
Part(doc, fields) == [q \in Leaves(fields) \cap DOMAIN doc |-> doc[q]]

\* A line that the template has for this document; a tree that is there is not empty.
Taken(line, doc) ==
  \/ line.when = None
  \/ line.when \in Nodes /\ Defined(doc, line.when)
  \/ line.when \in DOMAIN doc /\ doc[line.when].text \notin Falsy

\* What must be defined: all conditions, and what the lines taken refer to.
Evaluated(template, doc) ==
  {x \in Fields : \E p \in DOMAIN template :
     \/ template[p].when = x
     \/ template[p].kind = "ref" /\ template[p].of = x /\ Taken(template[p], doc)}

\* An include file is rendered with the same document, but cannot include.
Includable(f, n, doc) ==
  /\ f.include[n] # None
  /\ f.include[n].includes = {}
  /\ \A x \in f.include[n].refs : Defined(doc, x)

\* missingkey=error
Renders(f, template, doc) ==
  /\ \A x \in Evaluated(template, doc) : Defined(doc, x)
  /\ \A p \in DOMAIN template :
       template[p].kind = "include" /\ Taken(template[p], doc) =>
         Includable(f, template[p].of, doc)

Text(f, line, doc) ==
  CASE line.kind = "value" -> line.of
    [] line.kind = "ref" /\ line.of \in Paths -> doc[line.of]
    [] line.kind = "ref" /\ line.of \in Nodes ->
         [text |-> Part(doc, {line.of}), sealed |-> FALSE]
    [] line.kind = "include" ->
         [text |-> Part(doc, f.include[line.of].refs), sealed |-> FALSE]

Rendered(f, template, doc) ==
  [p \in {q \in DOMAIN template : Taken(template[q], doc)} |-> Text(f, template[p], doc)]

-----------------------------------------------------------------------------
(* Traverse: Vault refuses what it did not encrypt. *)

Decryptable(doc) == \A p \in DOMAIN doc : doc[p].sealed
Decrypted(doc) == [p \in DOMAIN doc |-> [doc[p] EXCEPT !.sealed = FALSE]]

-----------------------------------------------------------------------------
(* generateRawConfig *)

\* 1.
Context(f, i) == Patched(f.config, OrEmpty(f.patch[i]))

\* 2. to 4.
ConfigMapOfAny(f, i, a) ==
  LET j == CHOOSE j \in Installations : TRUE
      patch == OrEmpty(f.templatePatch[j][a])
      context == Context(f, i)
  IN IF Renders(f, f.template[a], context) /\ Renders(f, patch, context)
     THEN Patched(Rendered(f, f.template[a], context), Rendered(f, patch, context))
     ELSE Failed
ConfigMapOf(f, i, a) ==
  LET patch == OrEmpty(f.templatePatch[i][a])
      context == Context(f, i)
  IN IF Renders(f, f.template[a], context) /\ Renders(f, patch, context)
     THEN Patched(Rendered(f, f.template[a], context), Rendered(f, patch, context))
     ELSE Failed

\* 5. to 8.
SecretPatchedRaw(f, i, a) ==
  IF ~Decryptable(f.secret[i]) THEN Failed
  ELSE IF f.secretTemplate[a] = None THEN Empty
  ELSE LET patch == OrEmpty(f.secretPatch[i][a])
           context == Decrypted(f.secret[i])
       IN IF Renders(f, f.secretTemplate[a], context) /\ Renders(f, patch, context)
          THEN Patched(Rendered(f, f.secretTemplate[a], context),
                       Rendered(f, patch, context))
          ELSE Failed
SecretOf(f, i, a) ==
  IF ~Decryptable(f.secret[i]) THEN Failed
  ELSE IF f.secretTemplate[a] = None THEN Empty
  ELSE LET patch == OrEmpty(f.secretPatch[i][a])
           context == Decrypted(f.secret[i])
       IN IF /\ Renders(f, f.secretTemplate[a], context)
             /\ Renders(f, patch, context)
             /\ Decryptable(Rendered(f, patch, context))
          THEN Patched(Rendered(f, f.secretTemplate[a], context),
                       Decrypted(Rendered(f, patch, context)))
          ELSE Failed

\* GenerateConfig
Generated(f, i, a) ==
  LET configmap == ConfigMapOf(f, i, a)
      secret == SecretOf(f, i, a)
  IN IF Failed \in {configmap, secret} THEN Failed
     ELSE [configmap |-> configmap, secret |-> secret]

-----------------------------------------------------------------------------
(* Commits *)

Init == files \in InitialFiles /\ commits = 0

With(doc, p, v) == Patched(doc, [q \in {p} |-> v])
Without(doc, p) == [q \in DOMAIN doc \ {p} |-> doc[q]]

Commit(f) ==
  /\ commits < MaxCommits
  /\ files' = f
  /\ commits' = commits + 1

SetConfig(p, v) == Commit([files EXCEPT !.config = With(@, p, v)])

UnsetConfig(p) == Commit([files EXCEPT !.config = Without(@, p)])

SetPatch(i, p, v) == Commit([files EXCEPT !.patch[i] = With(OrEmpty(@), p, v)])

UnsetPatch(i, p) ==
  files.patch[i] # None /\ Commit([files EXCEPT !.patch[i] = Without(@, p)])

RemovePatch(i) == Commit([files EXCEPT !.patch[i] = None])

SetSecret(i, p, v) == Commit([files EXCEPT !.secret[i] = With(@, p, v)])

UnsetSecret(i, p) == Commit([files EXCEPT !.secret[i] = Without(@, p)])

SetTemplate(a, p, l) == Commit([files EXCEPT !.template[a] = With(@, p, l)])

SetTemplatePatch(i, a, p, l) ==
  Commit([files EXCEPT !.templatePatch[i][a] = With(OrEmpty(@), p, l)])

SetSecretTemplate(a, p, l) ==
  Commit([files EXCEPT !.secretTemplate[a] = With(OrEmpty(@), p, l)])

RemoveSecretTemplate(a) == Commit([files EXCEPT !.secretTemplate[a] = None])

SetSecretPatch(i, a, p, l) ==
  Commit([files EXCEPT !.secretPatch[i][a] = With(OrEmpty(@), p, l)])

SetInclude(n, refs, includes) ==
  Commit([files EXCEPT !.include[n] = [refs |-> refs, includes |-> includes]])

RemoveInclude(n) == Commit([files EXCEPT !.include[n] = None])

Next ==
  \/ \E p \in Paths :
       \/ UnsetConfig(p)
       \/ \E i \in Installations : UnsetPatch(i, p)
       \/ \E i \in Installations : UnsetSecret(i, p)
  \/ \E i \in Installations : RemovePatch(i)
  \/ \E p \in Paths, v \in Value :
       \/ SetConfig(p, v)
       \/ \E i \in Installations : SetPatch(i, p, v)
       \/ \E i \in Installations : SetSecret(i, p, v)
  \/ \E a \in Apps, p \in Paths, l \in Lines :
       \/ SetTemplate(a, p, l)
       \/ SetSecretTemplate(a, p, l)
       \/ \E i \in Installations : SetTemplatePatch(i, a, p, l)
       \/ \E i \in Installations : SetSecretPatch(i, a, p, l)
  \/ \E a \in Apps : RemoveSecretTemplate(a)
  \/ \E n \in Includes :
       \/ RemoveInclude(n)
       \/ \E refs \in SUBSET Fields, includes \in SUBSET Includes :
            SetInclude(n, refs, includes)

Spec == Init /\ [][Next]_vars

-----------------------------------------------------------------------------
(* Properties *)

\* Every file keeps its type.
TypeOK == files \in Files /\ commits \in 0 .. MaxCommits

\* A Secret has an encrypted value only where the App's template itself says
\* so: what comes from secret.yaml or from a patch has been decrypted
\* (generateRawConfig, steps 5 to 8).
NoCiphertext ==
  \A i \in Installations, a \in Apps :
    LET output == Generated(files, i, a)
        context == Decrypted(files.secret[i])
        patch == OrEmpty(files.secretPatch[i][a])
        template == files.secretTemplate[a]
    IN output # Failed =>
         \A p \in DOMAIN output.secret :
           output.secret[p].sealed =>
             /\ p \in DOMAIN template /\ template[p].kind = "value"
             /\ p \in DOMAIN patch => ~Taken(patch[p], context)

\* What an installation generates for an App is a function of the defaults,
\* the App's templates, the include files and the installation's own files:
\* a commit to other files does not change it (generateRawConfig).
Concerns(i, a) ==
  <<files.config, files.patch[i], files.secret[i], files.template[a],
    files.templatePatch[i][a], files.secretTemplate[a], files.secretPatch[i][a],
    files.include>>
EditsAreLocal ==
  [][\A i \in Installations, a \in Apps :
       Concerns(i, a)' = Concerns(i, a) =>
         Generated(files', i, a) = Generated(files, i, a)]_vars

=============================================================================
