---------------------------- MODULE CorpusGates ----------------------------
(***************************************************************************)
(* The Literature corpus on disk and the gates over it: check_imports,      *)
(* check_conventions, check_no_sorry, check_axioms and check_status of ci/, *)
(* which run over the whole corpus, and the subset of them that the         *)
(* write-back runs on the entry it has just written.                        *)
(***************************************************************************)
EXTENDS Naturals, FiniteSets

CONSTANTS
    Entries,      \* entry names, the last directory of Literature/<Area>/<Entry>
    WordNames,    \* those made of [A-Za-z0-9_] only, as check_imports reads them
    Theorems,     \* the theorems a snippet may prove
    Self,         \* those whose proof needs nothing imported
    Axioms, Whitelist

ASSUME WordNamesType == WordNames \subseteq Entries
ASSUME TheoremsExist == Theorems # {}
ASSUME SelfType == Self \subseteq Theorems
ASSUME WhitelistType == Whitelist \subseteq Axioms /\ "sorryAx" \notin Whitelist

\* The files of an entry.
FileNames == {"Statements", "Proofs", "SanityChecks", "Notes", "status"}
LeanFiles == {"Statements", "Proofs", "SanityChecks"}

\* How the snippet names its theorem: bare (theorem foo), inside a namespace of the
\* entry, by its full name, or by its full name under _root_.
Forms == {"bare", "namespaced", "qualified", "rooted"}

\* The sanity snippet: an example, "example" only inside a longer word, no example,
\* an example that uses sorry.
Sanities == {"example", "examples", "none", "sorry"}

\* What the human brings to a promotion; a citation with a quote in it, and a snippet
\* that has the word sorry in its code, are told apart by the gates only.
Contents == [thm : Theorems, form : Forms, axioms : SUBSET Axioms,
             sanity : Sanities, quote : BOOLEAN, word : BOOLEAN]

NoDir == [dir |-> FALSE, files |-> {}]
Stored == [dir : BOOLEAN, files : SUBSET FileNames]
Complete(s) == s.files = FileNames

(***************************************************************************)
(* Gates of one entry, given its files and its content.                     *)
(***************************************************************************)
Conventions(s, c) == /\ {"SanityChecks", "Notes"} \subseteq s.files
                     /\ c.sanity = "example"
TomlParses(c) == ~c.quote
AxiomsClean(c) == c.axioms \subseteq Whitelist
NoSorryToken(s, c) == "Proofs" \in s.files /\ ~c.word /\ c.sanity # "sorry"

\* Mutant: the write-back leaves the conventions to CI.
EntryGates_NoConventions(s, c) == NoSorryToken(s, c) /\ TomlParses(c) /\ AxiomsClean(c)

\* The write-back's own gates. check_conventions comes first.
EntryGates(s, c) == Conventions(s, c) /\ NoSorryToken(s, c) /\ TomlParses(c) /\ AxiomsClean(c)

(***************************************************************************)
(* Gates of the corpus (make gates). An entry exists for them when its      *)
(* status.toml does, except for check_imports, which reads the Lean files   *)
(* and the barrel Literature.lean.                                          *)
(***************************************************************************)
Listed(corpus) == {e \in Entries : "status" \in corpus[e].files}

CheckConventions(corpus, content) == \A e \in Listed(corpus) : Conventions(corpus[e], content[e])
\* A promoted Proofs.lean holds no proof, so the token scan of CI finds nothing in it.
CheckNoSorry(corpus, content) ==
  \A e \in Listed(corpus) : TomlParses(content[e]) /\ "Proofs" \in corpus[e].files
CheckAxioms(corpus, content) ==
  \A e \in Listed(corpus) : TomlParses(content[e]) /\ AxiomsClean(content[e])
CheckStatus(corpus, content) ==
  \A e \in Listed(corpus) : TomlParses(content[e]) /\ "sorryAx" \notin content[e].axioms

\* Only the imports whose names the gate's pattern matches are followed; no Lean file
\* may be left out and no followed import may be missing.
CheckImports(corpus, barrel) ==
  LET followed == barrel \cap WordNames
  IN  /\ \A e \in Entries : corpus[e].files \cap LeanFiles # {} => e \in followed
      /\ \A e \in followed : LeanFiles \subseteq corpus[e].files

MakeGates(corpus, content, barrel) ==
  /\ CheckStatus(corpus, content) /\ CheckNoSorry(corpus, content)
  /\ CheckAxioms(corpus, content) /\ CheckImports(corpus, barrel)
  /\ CheckConventions(corpus, content)

(***************************************************************************)
(* What Lean makes of a promotion (external): which forms declare the full  *)
(* name when the snippet is sent to the REPL, and when the file is built.   *)
(* The file keeps a snippet that opens the entry's namespace as it is, and  *)
(* wraps any other in that namespace, under import Mathlib and import       *)
(* Konigsberg.                                                              *)
(***************************************************************************)
ReplDeclares(form) == form \in {"namespaced", "qualified", "rooted"}
Wrapped(form) == form # "namespaced"
FileDeclares(form) == form \in {"namespaced", "bare", "rooted"}
StatementImports(form) == IF Wrapped(form) THEN {"Mathlib", "Konigsberg"} ELSE {}

\* The root imports the barrel and the barrel the promoted entries: a Statements.lean
\* that imports the root closes a cycle.
Builds(e, c, barrel) ==
  /\ ~(e \in barrel /\ "Konigsberg" \in StatementImports(c.form))
  /\ "Mathlib" \in StatementImports(c.form) \/ c.thm \in Self
  /\ FileDeclares(c.form)
=============================================================================
