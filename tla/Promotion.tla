----------------------------- MODULE Promotion -----------------------------
(***************************************************************************)
(* The interactive REPL around its ledger (repl.py, session.py) and the     *)
(* promotion of a claim to the Literature corpus                            *)
(* (tools/library_writeback.py): /promote reviews a claim, asks a human for *)
(* the write-back fields, elaborates the snippet afresh and writes the      *)
(* entry file by file. Ctrl-C may fall anywhere in the write-back and       *)
(* returns to the prompt; a kill may fall anywhere at all; a write may fail. *)
(*                                                                          *)
(* One process at a time; sessions, corpus and barrel (Literature.lean) are *)
(* files and survive it.                                                    *)
(***************************************************************************)
EXTENDS CorpusGates, Referee, Sequences, SequencesExt

CONSTANTS
    Sessions,       \* session ids
    NoSession,
    Text,           \* Text[t]: the name, Lean type and notes of a theorem
    Answered,       \* the answers of the referee model
    Brought,        \* what a human may bring to a promotion
    MaxCommands,    \* bound on the commands typed
    MaxStops        \* bound on kills, Ctrl-C and claims of a turn that cannot be written

ASSUME NoSessionIsNone == NoSession \notin Sessions
ASSUME TextType ==
  Text \in [Theorems -> [stmt : SUBSET Phrases, type : SUBSET Phrases, notes : SUBSET Phrases]]
ASSUME AnsweredType == Answered \subseteq Answers
ASSUME BroughtType == Brought \subseteq Contents
ASSUME BoundsType == MaxCommands \in Nat /\ MaxStops \in Nat

\* A claim of the ledger: which theorem it speaks of and which tool minted it.
Claims == [thm : Theorems, tool : {"lean_prove", "enumeration", "lean_add_to_library"},
           durable : BOOLEAN]
Proved(c) == c.tool # "enumeration"
PromotionClaim(t) == [thm |-> t, tool |-> "lean_add_to_library", durable |-> TRUE]
Minted == {c \in Claims : c.tool # "lean_add_to_library" /\ (c.durable => Proved(c))}

\* The stages of a write-back: the fresh environment, the directory, the files in the
\* order they are written, the barrel, which is truncated and then written again, the
\* gates, and the claim, recorded in memory twice before its line is in the file.
NextStage == [elaborate |-> "mkdir", mkdir |-> "Statements", Statements |-> "Proofs",
              Proofs |-> "SanityChecks", SanityChecks |-> "Notes", Notes |-> "status",
              status |-> "import", import |-> "refill", refill |-> "gates",
              gates |-> "record", record |-> "again", again |-> "append"]
WriteBack == DOMAIN NextStage \cup {"append"}

NoJob == [entry |-> "none"]
Jobs == [entry : Entries, content : Contents, claim : Claims, answer : Answers,
         held : SUBSET Entries]    \* the imports read from the barrel, to be written again

VARIABLES
    at,        \* "down", "idle" or the stage of the write-back in progress
    cur,       \* the session the REPL is bound to
    ledger,    \* its ledger in memory
    log,       \* log[s]: the claims in the file of session s
    recent,    \* the session files, the one written last at the end
    worked,    \* the sessions whose file holds more than its first line
    unlogged,  \* claims in memory whose line was cut off before the file had it
    job,       \* the promotion in progress
    corpus,    \* corpus[e]: the directory of entry e
    content,   \* content[e]: what was last written there, with the claim reviewed
    barrel,    \* the entries Literature.lean imports
    commands, stops,
    failed,    \* entries whose write-back was cut short or failed after its import
    lost       \* entries whose import was gone when a write of the barrel was cut

sess == <<cur, ledger, log, recent, worked, unlogged>>
disk == <<corpus, content, barrel>>
cuts == <<failed, lost>>
vars == <<at, sess, job, disk, commands, stops, cuts>>

Content0 == [thm |-> CHOOSE t \in Theorems : TRUE, form |-> "bare", axioms |-> {},
             sanity |-> "none", quote |-> FALSE, word |-> FALSE]

TypeOK ==
  /\ at \in {"down", "idle"} \cup WriteBack
  /\ cur \in Sessions \cup {NoSession}
  /\ ledger \in Seq(Claims)
  /\ log \in [Sessions -> Seq(Claims)]
  /\ recent \in Seq(Sessions) /\ \A i, j \in DOMAIN recent : recent[i] = recent[j] => i = j
  /\ worked \subseteq ToSet(recent) /\ unlogged \subseteq Claims
  /\ job \in Jobs \cup {NoJob} /\ (job = NoJob <=> at \in {"down", "idle"})
  /\ corpus \in [Entries -> Stored]
  /\ content \in [Entries -> Contents]
  /\ barrel \subseteq Entries
  /\ failed \subseteq Entries /\ lost \subseteq Entries
  /\ commands \in 0..MaxCommands /\ stops \in 0..MaxStops

Init ==
  /\ at = "down" /\ cur = NoSession /\ ledger = <<>> /\ unlogged = {}
  /\ log = [s \in Sessions |-> <<>>] /\ recent = <<>> /\ worked = {}
  /\ job = NoJob
  /\ corpus = [e \in Entries |-> NoDir] /\ content = [e \in Entries |-> Content0]
  /\ barrel = {} /\ failed = {} /\ lost = {} /\ commands = 0 /\ stops = 0

(***************************************************************************)
(* The session files.                                                       *)
(***************************************************************************)
Fresh == Sessions \ ToSet(recent)
\* Mutant: a session that is written again keeps its earlier place.
Touched_Twice(s) == Append(recent, s)

Touched(s) ==
  IF s \in ToSet(recent)
  THEN Append(RemoveAt(recent, CHOOSE i \in DOMAIN recent : recent[i] = s), s)
  ELSE Append(recent, s)
LatestId == IF recent = <<>> THEN NoSession ELSE Last(recent)
IsLatestWithContent(i) ==
  recent[i] \in worked /\ \A j \in DOMAIN recent : j > i => recent[j] \notin worked

Create(s) == /\ cur' = s /\ ledger' = <<>> /\ unlogged' = {} /\ recent' = Touched(s)
             /\ UNCHANGED <<log, worked>>
Bind(s) == cur' = s /\ ledger' = log[s] /\ unlogged' = {}
Unbind == cur' = NoSession /\ ledger' = <<>> /\ unlogged' = {}

Type == at = "idle" /\ commands < MaxCommands /\ commands' = commands + 1

(***************************************************************************)
(* The process starts: Repl.__init__ creates a session, and --resume or     *)
(* --continue then binds another. An id that does not exist is an error     *)
(* before anything is bound.                                                *)
(***************************************************************************)
Start ==
  /\ at = "down" /\ at' = "idle"
  /\ \E s \in Fresh : Create(s)
  /\ UNCHANGED <<job, disk, commands, stops, cuts>>

StartBound(found) ==
  /\ at = "down" /\ at' = "idle"
  /\ \E s \in Fresh : recent' = Append(recent, s)
  /\ Bind(found)
  /\ UNCHANGED <<log, worked, job, disk, commands, stops, cuts>>
StartResume == \E s \in ToSet(recent) : StartBound(s)
StartContinue == \E i \in DOMAIN recent : IsLatestWithContent(i) /\ StartBound(recent[i])

Quit ==
  /\ Type /\ at' = "down" /\ Unbind
  /\ UNCHANGED <<log, recent, worked, job, disk, stops, cuts>>

(***************************************************************************)
(* A turn of the agent, the claim it may mint included, whose line the disk *)
(* may refuse when memory has it already; /clear and /resume.               *)
(***************************************************************************)
Turn(minted, ok) ==
  /\ Type
  /\ ledger' = ledger \o minted
  /\ IF ok THEN log' = [log EXCEPT ![cur] = @ \o minted] /\ UNCHANGED <<unlogged, stops>>
     ELSE /\ stops < MaxStops /\ stops' = stops + 1
          /\ unlogged' = unlogged \cup ToSet(minted) /\ UNCHANGED log
  /\ worked' = worked \cup {cur} /\ recent' = Touched(cur)
  /\ UNCHANGED <<at, cur, job, disk, cuts>>

Clear ==
  /\ Type /\ \E s \in Fresh : Create(s)
  /\ UNCHANGED <<at, job, disk, stops, cuts>>

Resume(arg) ==
  LET s == IF arg = NoSession THEN LatestId ELSE arg
  IN  /\ Type /\ s # NoSession
      /\ Bind(s)
      /\ UNCHANGED <<at, log, recent, worked, job, disk, stops, cuts>>

(***************************************************************************)
(* /promote: the claim, its review, the human, then the write-back.         *)
(***************************************************************************)
\* The claim at an index, or without one the last proved claim, or the last claim.
IsResolved(arg, i) ==
  IF arg # 0 THEN i = arg
  ELSE LET proved == {j \in DOMAIN ledger : Proved(ledger[j])}
       IN  IF proved = {} THEN i = Len(ledger) ELSE i \in proved /\ \A j \in proved : j <= i

\* The statement of a lean_prove claim is the name of its declaration, whose type and
\* notes are looked up; Lean may not answer. A claim of another tool is only its text.
ReviewChecks(c, typed) ==
  LET t == Text[c.thm] looked == c.tool = "lean_prove"
  IN  Checks(t.stmt, IF looked /\ typed THEN t.type ELSE {}, IF looked THEN t.notes ELSE {},
             \E i \in DOMAIN ledger : ~Proved(ledger[i]), TRUE)

\* The referee model cannot be built, is not there, or answers.
Review(c, typed, how, first, forced) ==
  IF how = "no model" THEN MergeHeuristic(ReviewChecks(c, typed))
  ELSE IF how = "no key" THEN Report("unavailable", TRUE, FALSE, FALSE)
  ELSE RunReferee(ReviewChecks(c, typed), TRUE, first, forced)

\* The report blocks, the claim is not durable, or the human cancels: nothing changes.
\* Otherwise the human names an entry and a snippet, confirms, and the write-back starts;
\* it refuses an entry that has files.
Promote(arg, typed, first, forced) ==
  /\ Type
  /\ \E i \in DOMAIN ledger :
       /\ IsResolved(arg, i) /\ ledger[i].durable
       /\ AllowsPromotion(Review(ledger[i], typed, "live", first, forced))
       /\ \E e \in Entries, b \in Brought :
            /\ corpus[e].files = {}
            /\ job' = [entry |-> e, content |-> b, claim |-> ledger[i],
                       answer |-> Deciding(first, forced), held |-> {}]
  /\ at' = "elaborate"
  /\ UNCHANGED <<sess, disk, stops, cuts>>

Done == at' = "idle" /\ job' = NoJob
Go == at' = NextStage[at] /\ UNCHANGED job

\* A fresh corpus environment takes the snippet and is asked for the axioms of the name;
\* axioms outside the whitelist and a sanity snippet without "example" are refused.
Elaborate(leanAnswers) ==
  LET b == job.content
  IN  /\ at = "elaborate"
      /\ IF leanAnswers /\ ReplDeclares(b.form) /\ b.axioms \subseteq Whitelist
            /\ b.sanity # "none"
         THEN Go ELSE Done
      /\ UNCHANGED <<sess, disk, commands, stops, cuts>>

\* Mutant: waits for the directory to go away.
MakeDir_Waits ==
  /\ at = "mkdir" /\ ~corpus[job.entry].dir
  /\ Go /\ corpus' = [corpus EXCEPT ![job.entry] = [dir |-> TRUE, files |-> {}]]
  /\ UNCHANGED <<sess, content, barrel, commands, stops, cuts>>

\* mkdir(exist_ok=False), outside of the try: an empty directory that was left behind
\* is an error.
MakeDir ==
  /\ at = "mkdir"
  /\ IF corpus[job.entry].dir THEN Done /\ UNCHANGED corpus
     ELSE Go /\ corpus' = [corpus EXCEPT ![job.entry] = [dir |-> TRUE, files |-> {}]]
  /\ UNCHANGED <<sess, content, barrel, commands, stops, cuts>>

\* Mutant: the error is raised again and the directory stays.
Rollback_Leaves(imports) ==
  Done /\ barrel' = imports /\ UNCHANGED <<sess, corpus, content, commands, stops, cuts>>

\* An error in the try removes the entry's directory and nothing else: the barrel keeps
\* the imports it has.
Rollback(imports) ==
  /\ Done /\ barrel' = imports
  /\ corpus' = [corpus EXCEPT ![job.entry] = NoDir]
  /\ failed' = IF job.entry \in imports THEN failed \cup {job.entry} ELSE failed
  /\ lost' = lost \cup ((barrel \cup job.held) \ imports)
  /\ UNCHANGED <<sess, content, commands, stops>>

WriteFile(ok) ==
  /\ at \in FileNames
  /\ IF ok THEN /\ Go
                /\ corpus' = [corpus EXCEPT ![job.entry].files = @ \cup {at}]
                /\ content' = [content EXCEPT ![job.entry] = job.content]
                /\ UNCHANGED <<sess, barrel, commands, stops, cuts>>
     ELSE Rollback(barrel)

\* The barrel is read. One that has the entry's imports is left alone; any other is
\* opened for writing, and from here on it is empty.
OpenBarrel(ok) ==
  /\ at = "import"
  /\ IF ~ok THEN Rollback(barrel)
     ELSE /\ IF job.entry \in barrel
             THEN at' = "gates" /\ UNCHANGED <<job, barrel>>
             ELSE at' = "refill" /\ barrel' = {} /\ job' = [job EXCEPT !.held = barrel]
          /\ UNCHANGED <<sess, corpus, content, commands, stops, cuts>>

\* Mutant: the new imports are written without those that were read.
AppendImports_Alone(ok) ==
  /\ at = "refill" /\ ok
  /\ Go /\ barrel' = {job.entry}
  /\ UNCHANGED <<sess, corpus, content, commands, stops, cuts>>

\* What was read is written again, with the new imports at the end; a write that fails
\* leaves some of the lines.
AppendImports(ok) ==
  /\ at = "refill"
  /\ IF ok THEN /\ Go /\ barrel' = job.held \cup {job.entry}
                /\ UNCHANGED <<sess, corpus, content, commands, stops, cuts>>
     ELSE \E some \in SUBSET (job.held \cup {job.entry}) : Rollback(some)

RunGates ==
  /\ at = "gates"
  /\ IF EntryGates(corpus[job.entry], job.content)
     THEN Go /\ UNCHANGED <<sess, disk, commands, stops, cuts>>
     ELSE Rollback(barrel)

\* The claim of the promotion, recorded by /promote and again by log_claim.
Record ==
  /\ at \in {"record", "again"} /\ Go
  /\ ledger' = Append(ledger, PromotionClaim(job.content.thm))
  /\ UNCHANGED <<cur, log, recent, worked, unlogged, disk, commands, stops, cuts>>

\* Mutant: recorded in memory only.
LogClaim_Unlogged(ok) ==
  /\ at = "append" /\ Done /\ UNCHANGED <<sess, disk, commands, stops, cuts>>

\* Its line is appended to the file of the session; an error is caught at the prompt.
LogClaim(ok) ==
  LET p == PromotionClaim(job.content.thm)
  IN  /\ at = "append" /\ Done
      /\ IF ok
         THEN /\ log' = [log EXCEPT ![cur] = Append(@, p)]
              /\ worked' = worked \cup {cur} /\ recent' = Touched(cur)
              /\ UNCHANGED <<unlogged, failed>>
         ELSE /\ unlogged' = unlogged \cup {p} /\ failed' = failed \cup {job.entry}
              /\ UNCHANGED <<log, worked, recent>>
      /\ UNCHANGED <<cur, ledger, disk, commands, stops, lost>>

(***************************************************************************)
(* Ctrl-C in the write-back is no Exception: no rollback, back to the       *)
(* prompt, with whatever memory and disk hold by then. A kill ends the      *)
(* process wherever it is.                                                  *)
(***************************************************************************)
Recorded == IF at \in {"again", "append"} THEN {PromotionClaim(job.content.thm)} ELSE {}
Cut == /\ failed' = IF job # NoJob /\ (corpus[job.entry].dir \/ job.entry \in barrel)
                    THEN failed \cup {job.entry} ELSE failed
       /\ lost' = IF at = "refill" THEN lost \cup job.held ELSE lost
Stop == stops < MaxStops /\ stops' = stops + 1 /\ Cut /\ job' = NoJob

Interrupt == /\ at \in WriteBack /\ Stop /\ at' = "idle"
             /\ unlogged' = unlogged \cup Recorded
             /\ UNCHANGED <<cur, ledger, log, recent, worked, disk, commands>>
Kill == /\ at # "down" /\ Stop /\ at' = "down" /\ Unbind
        /\ UNCHANGED <<log, recent, worked, disk, commands>>

WriteBackStep ==
  \/ \E ok \in BOOLEAN :
       Elaborate(ok) \/ WriteFile(ok) \/ OpenBarrel(ok) \/ AppendImports(ok) \/ LogClaim(ok)
  \/ MakeDir \/ RunGates \/ Record

Next ==
  \/ Start \/ StartResume \/ StartContinue \/ Quit \/ Clear
  \/ \E minted \in {<<>>} \cup {<<c>> : c \in Minted}, ok \in BOOLEAN : Turn(minted, ok)
  \/ \E arg \in ToSet(recent) \cup {NoSession} : Resume(arg)
  \/ \E arg \in 0..Len(ledger), typed \in BOOLEAN, first, forced \in Answered :
        Promote(arg, typed, first, forced)
  \/ WriteBackStep
  \/ Interrupt \/ Kill

Spec == Init /\ [][Next]_vars /\ WF_vars(WriteBackStep)
(***************************************************************************)
(* Properties.                                                              *)
(***************************************************************************)
Settled == at \in {"idle", "down"}
InLedgers(c) == c \in ToSet(ledger) \/ \E s \in Sessions : c \in ToSet(log[s])

\* Literature.lean imports the entry, or will again when the write in progress ends.
Imported(e) == e \in barrel \/ (at = "refill" /\ e \in job.held)

\* Every promotion a ledger speaks of, in memory or in any session file, is backed by an
\* entry of the corpus that is complete and green under the entry gates: no later
\* promotion, failed or interrupted, takes it away, and only a cut between the truncation
\* of Literature.lean and its write takes its import (library_writeback.py:264-351, 178).
PromotionsBacked ==
  \A t \in Theorems : InLedgers(PromotionClaim(t)) =>
    \E e \in Entries : /\ Imported(e) \/ e \in lost
                       /\ Complete(corpus[e]) /\ content[e].thm = t
                       /\ EntryGates(corpus[e], content[e])

\* Outside of a write-back a directory of the corpus that no write-back was cut short
\* in is a whole entry whose promotion is in a session file: a refusal, a write error or
\* a red gate leaves no directory (the rollback, library_writeback.py:345-351). It is
\* imported unless a cut write of the barrel, of whichever promotion, dropped it.
EntriesAccounted ==
  Settled => \A e \in Entries : corpus[e].dir /\ e \notin failed =>
    /\ Complete(corpus[e]) /\ e \in barrel \cup lost
    /\ \E s \in Sessions : PromotionClaim(content[e].thm) \in ToSet(log[s])

\* The entries that gates may be red for: those a write-back was cut short or failed in
\* after its import, those a cut write of the barrel dropped, and those whose name
\* check_imports does not read.
Spoiled == failed \cup lost \cup (Entries \ WordNames)

\* The gates of an entry are fewer than those of make gates, and still the corpus is
\* green under all of them, but for the spoiled entries: no cut reddens an entry that it
\* did not touch (library_writeback.py:181-226, ci/).
RedOnlyWhereCut ==
  Settled => MakeGates([e \in Entries |-> IF e \in Spoiled THEN NoDir ELSE corpus[e]],
                       content, barrel \ Spoiled)

\* The claims of a ledger that are not promotions, in their order.
Others(claims) ==
  LET kept[i \in 0..Len(claims)] ==
        IF i = 0 THEN <<>>
        ELSE IF claims[i].tool # "lean_add_to_library" THEN Append(kept[i - 1], claims[i])
        ELSE kept[i - 1]
  IN  kept[Len(claims)]

\* The file of a session is never ahead of its ledger in memory, and reloading it gives
\* that ledger, up to the promotions, of which memory may hold two copies, but for the
\* claims whose line an interrupt or a disk error cut off (repl.py:699-700,
\* session.py:3-6, 194-197).
LedgersAgree ==
  cur # NoSession =>
    /\ ToSet(log[cur]) \subseteq ToSet(ledger)
    /\ ToSet(ledger) \subseteq ToSet(log[cur]) \cup unlogged \cup Recorded
    /\ Others(ledger) = Others(log[cur]) \/ \E c \in unlogged : c.tool # "lean_add_to_library"

\* A statement that a planted flaw of the referee's self-test is in: hitting cliques of
\* bipartite graphs without triangle-free, a bespoke notion for a standard one, an empty
\* or trivial case, a false conclusion without a witness.
Planted(t) ==
  \/ {"bipartite", "hit"} \subseteq t.stmt /\ ~Has(t.stmt, {"triangle-free", "triangle_free"})
  \/ {"bespoke", "standard notion"} \subseteq t.stmt /\ "bridge" \notin t.stmt \cup t.type
  \/ Has(t.stmt, {"vacuous", "trivial"})
  \/ "=> False" \in t.stmt /\ "witness" \notin t.stmt \cup t.type \cup t.notes

\* What the heuristics see in a statement blocks its promotion whatever the model says,
\* and what the model holds against a claim blocks it whatever the heuristics say
\* (referee.py:831-882, 169-174).
FlawsBlock ==
  job # NoJob => /\ ~Planted(Text[job.claim.thm])
                 /\ job.claim.durable
                 /\ job.answer.rec \notin {"minor", "major", "reject", "other"}
                 /\ ~job.answer.major

\* A write-back ends, by returning to the prompt or with the process.
WriteBackEnds == (at \in WriteBack) ~> Settled

\* What the program says of a promoted entry: its status is "formalized", which means it
\* builds in the tree (docs/handoff/BROOKS_INGEST.md:27).
PromotedEntriesBuild ==
  \A e \in Entries : PromotionClaim(content[e].thm) \in ToSet(ledger) /\ Complete(corpus[e])
                       => Builds(e, content[e], barrel)
=============================================================================
