----------------------------- MODULE LeanSession -----------------------------
(***************************************************************************)
(* The formal tier: one persistent Lean REPL process (lean_repl.py), the   *)
(* tools that drive it (tools/lean_tools.py, tools/bridge.py), the         *)
(* notebook of locked lemmas (lemmas.py), and the sessions the notebook    *)
(* goes between (repl.py: /clear, /resume) while the process stays.        *)
(*                                                                         *)
(* The harness is single threaded, so one tool call (job) is in progress   *)
(* at a time; what interleaves with it is the REPL process, which may      *)
(* hang, exit between two requests or under a request, or fail to spawn.   *)
(* A step of a job is one request to the process with what the tool does   *)
(* with the answer.                                                        *)
(***************************************************************************)
EXTENDS Naturals, Sequences, FiniteSets

CONSTANTS
    Names,      \* declaration names a snippet may introduce
    Requires,   \* Requires[n]: the declarations the proof of n cites
    NoEnv,      \* Python's None for an environment id
    MaxGen,     \* bound on the processes spawned
    MaxJobs     \* bound on the tool calls issued

ASSUME NamesNonEmpty == Names # {}
ASSUME RequiresType == Requires \in [Names -> SUBSET Names]
ASSUME MaxGenType == MaxGen \in Nat \ {0}
ASSUME MaxJobsType == MaxJobs \in Nat

\* A snippet declares a name; its proof is complete, uses sorry (a warning
\* to Lean), or does not elaborate (an error).
Snippet == [name: Names, kind: {"good", "sorry", "bad"}]

\* What an environment of the process holds: which preamble it started from
\* and, for every name, whether it is declared and whether sorryAx is among
\* its axioms ("hole").
Context == [base: {"none", "corpus", "bridge"},
            decl: [Names -> {"absent", "proved", "hole"}]]

\* An environment id. The program keeps only the number k; by, the process
\* whose environment it stands for, is kept for the properties and no guard
\* of the program reads it: an answer hands down the by of the id it extends.
EnvRef == [k: Nat \ {0}, by: Nat]
EnvRefs == EnvRef \cup {NoEnv}

ASSUME NoEnvIsNotAnId == NoEnv \notin EnvRef

\* The commands sent: the preamble, a graph with its coloring (bridge), a
\* declaration, a snippet that only cites a declaration (the settlement
\* check), a statement without proof or a search, and #print axioms.
Cmd == [op: {"preamble", "bridge", "thm", "uses", "example", "axioms"},
        s: Snippet]
Command(op, s) == [op |-> op, s |-> s]

\* Those that run in the session environment: no imports.
SessionCmd == {c \in Cmd : c.op \notin {"preamble", "bridge"}}

VARIABLES
    lean,      \* the process and the LeanREPL object that wraps it
    job,       \* the tool call in progress
    jobs,      \* how many tool calls were issued
    claims,    \* the verdicts reported to the ledger and to the agent
    notebook,  \* the locked lemmas of the session, in replay order
    shelf      \* those of the session that was left, in its file

vars == <<lean, job, jobs, claims, notebook, shelf>>

Lean == [proc: {"up", "dead", "down"},  \* dead: exited, not yet noticed
         gen: Nat,                      \* processes spawned so far
         envs: Seq(Context),            \* environments the process has issued
         env: EnvRefs,                  \* _env
         loaded: BOOLEAN,               \* _preamble_loaded
         cmds: Seq(SessionCmd)]         \* _session_cmds

Snapshot == [env: EnvRefs, loaded: BOOLEAN, cmds: Seq(SessionCmd)]

Tools == {"check", "typecheck", "search", "prove", "durable", "bridge",
          "reset", "retract", "resume"}
Stages == {"idle", "preamble", "body", "axioms",
           "installPreamble", "install", "replay"}

\* drop: the names retract leaves out while it replays todo.
Job == [tool: Tools, stage: Stages, s: Snippet, snap: Snapshot,
        todo: Seq(SessionCmd), drop: SUBSET Names]

\* real: whether the live process did hold what the verdict says.
Claim == [kind: {"proof", "stated", "check"}, name: Names, real: BOOLEAN]

TypeOK ==
    /\ lean \in Lean
    /\ job \in Job
    /\ jobs \in Nat
    /\ claims \in SUBSET Claim
    /\ notebook \in Seq(Snippet)
    /\ shelf \in Seq(Snippet)

-----------------------------------------------------------------------------
(***************************************************************************)
(* The REPL process (external): what it answers to a command.              *)
(***************************************************************************)
Fresh == [base |-> "none", decl |-> [n \in Names |-> "absent"]]

\* The context a request runs in: a new one when it carries no id.
Within(L, e) == IF e = NoEnv THEN Fresh ELSE L.envs[e.k]
Knows(L, e) == e = NoEnv \/ e.k \in 1..Len(L.envs)

Missing(c, s) == \E r \in Requires[s.name] : c.decl[r] = "absent"
Tainted(c, s) ==
    s.kind = "sorry" \/ \E r \in Requires[s.name] : c.decl[r] = "hole"

Elaborates(c, cmd) ==
    CASE cmd.op = "thm"      -> /\ c.base = "corpus"
                                /\ c.decl[cmd.s.name] = "absent"
                                /\ ~Missing(c, cmd.s)
                                /\ cmd.s.kind # "bad"
      [] cmd.op = "example"  -> c.base = "corpus" /\ cmd.s.kind # "bad"
      [] cmd.op = "uses"     -> c.decl[cmd.s.name] # "absent"
      [] cmd.op = "axioms"   -> \/ c.decl[cmd.s.name] # "absent"
                                \/ c.base = "bridge"
      [] OTHER               -> cmd.s.kind # "bad"

\* Lean recovers from an error in a proof by declaring the name with sorryAx.
After(c, cmd) ==
    CASE cmd.op = "preamble" -> [Fresh EXCEPT !.base =
                                    IF cmd.s.kind = "bad" THEN "none" ELSE "corpus"]
      [] cmd.op = "bridge"   -> [Fresh EXCEPT !.base = "bridge"]
      [] cmd.op = "thm" /\ c.base = "corpus" /\ c.decl[cmd.s.name] = "absent"
                             -> [c EXCEPT !.decl[cmd.s.name] =
                                    IF Elaborates(c, cmd) /\ ~Tainted(c, cmd.s)
                                    THEN "proved" ELSE "hole"]
      [] OTHER               -> c

\* A reply with no messages is a reply with no errors: so _to_goal_state
\* reads the answer to an id the process never issued.
Answer(L, e, cmd) ==
    IF Knows(L, e)
    THEN LET c == Within(L, e) IN
         [lean |-> [L EXCEPT !.envs = Append(@, After(c, cmd))],
          replied |-> TRUE,
          ok |-> Elaborates(c, cmd),
          env |-> [k |-> Len(L.envs) + 1, by |-> IF e = NoEnv THEN L.gen ELSE e.by],
          hole |-> cmd.op = "axioms" /\ c.decl[cmd.s.name] = "hole",
          real |-> IF cmd.op = "axioms"
                   THEN c.base = "bridge" \/ c.decl[cmd.s.name] = "proved"
                   ELSE Elaborates(c, cmd)]
    ELSE [lean |-> L, replied |-> TRUE, ok |-> TRUE, env |-> NoEnv,
          hole |-> FALSE, real |-> FALSE]

-----------------------------------------------------------------------------
(***************************************************************************)
(* LeanREPL: lifecycle and requests.                                       *)
(***************************************************************************)
\* (mutant of Killed) The id is reset to a number instead of None.
Killed_ToZero(L) == [L EXCEPT !.proc = "down", !.env = [k |-> 0, by |-> 0],
                              !.loaded = FALSE, !.cmds = <<>>]

\* _kill: no process, and the session fields forget everything.
Killed(L) == [L EXCEPT !.proc = "down", !.env = NoEnv,
                       !.loaded = FALSE, !.cmds = <<>>]

\* start: a new process, which has issued no environment yet.
Started(L) == [proc |-> "up", gen |-> L.gen + 1, envs |-> <<>>,
               env |-> NoEnv, loaded |-> FALSE, cmds |-> <<>>]

\* Popen raises OSError and nothing changed, or the process comes up.
Starts(L) == {L} \cup (IF L.gen < MaxGen THEN {Started(L)} ELSE {})

\* (mutant of Running) Waits for an exited process instead of replacing it.
Running_Waits(L) == IF L.proc = "up" THEN {L} ELSE {}

\* _ensure_running: an exited process is noticed here, and replaced.
Running(L) == CASE L.proc = "up"   -> {L}
                [] L.proc = "dead" -> Starts(Killed(L))
                [] OTHER           -> Starts(L)

Raised(L) == [lean |-> L, replied |-> FALSE, ok |-> FALSE, env |-> NoEnv,
              hole |-> FALSE, real |-> FALSE]

\* (mutant of TimesOut) The restart keeps the session of the hung process.
TimesOut_KeepsSession(L) ==
    {Raised([M EXCEPT !.env = L.env, !.loaded = L.loaded]) :
        M \in IF L.gen < MaxGen THEN Starts(Killed(L)) ELSE {}}

\* _read_response at its deadline: kill, restart, raise. A process that
\* cannot be replaced any more (MaxGen) does not fail any more.
TimesOut(L) ==
    IF L.gen < MaxGen THEN {Raised(M) : M \in Starts(Killed(L))} ELSE {}

\* The process dies under the request a second time.
DiesAgain(L) == IF L.gen < MaxGen THEN {Raised(Killed(L))} ELSE {}

\* The process died under the request: revive it once and send the same
\* payload, the environment id included.
Revived(L, e, cmd) ==
    UNION {IF M.proc = "up"
           THEN {Answer(M, e, cmd)} \cup TimesOut(M) \cup DiesAgain(M)
           ELSE {Raised(M)} : M \in Starts(Killed(L))}

Dies(L, e, cmd) == IF L.gen < MaxGen THEN Revived(L, e, cmd) ELSE {}

\* _request: make sure a process runs, send, read.
Request(L, e, cmd) ==
    UNION {IF M.proc = "up"
           THEN {Answer(M, e, cmd)} \cup TimesOut(M) \cup Dies(M, e, cmd)
           ELSE {Raised(M)} : M \in Running(L)}

\* What send and send_transactional keep of the answer.
Commit(o, cmd, mode) ==
    CASE mode = "commit" /\ o.env # NoEnv
            -> [o EXCEPT !.lean.env = o.env]
      [] mode = "transact" /\ o.ok /\ o.env # NoEnv
            -> [o EXCEPT !.lean.env = o.env,
                         !.lean.cmds = Append(o.lean.cmds, cmd)]
      [] OTHER -> o

\* send, against the live environment. The payload is built from _env before
\* _request looks at the process.
Send(L, cmd, mode) == {Commit(o, cmd, mode) : o \in Request(L, L.env, cmd)}

\* (mutant of SendFresh) Prior imports are still taken as loaded.
SendFresh_KeepsFlag(L, cmd) ==
    {Commit(o, cmd, "commit") : o \in Request([L EXCEPT !.cmds = <<>>], NoEnv, cmd)}

\* send with new_env: prior imports are dropped whatever the outcome.
SendFresh(L, cmd) ==
    {Commit(o, cmd, "commit") :
        o \in Request([L EXCEPT !.loaded = FALSE, !.cmds = <<>>], NoEnv, cmd)}

\* load_preamble once its request was answered without errors.
PreambleLoaded(L) == [L EXCEPT !.loaded = TRUE, !.cmds = <<>>]

\* ensure_preamble returns at once in this state.
Ready(L) == L.loaded /\ L.env # NoEnv

TakeSnapshot(L) == [env |-> L.env, loaded |-> L.loaded, cmds |-> L.cmds]

\* (mutant of Restore) The session commands are not put back.
Restore_WithoutCmds(L, snap) == [L EXCEPT !.env = snap.env, !.loaded = snap.loaded]

\* restore: puts the fields back, whichever process runs by now.
Restore(L, snap) == [L EXCEPT !.env = snap.env, !.loaded = snap.loaded,
                              !.cmds = snap.cmds]

-----------------------------------------------------------------------------
(***************************************************************************)
(* The tools, one stage per request.                                       *)
(***************************************************************************)
AnySnippet == CHOOSE s \in Snippet : TRUE
NoSnapshot == [env |-> NoEnv, loaded |-> FALSE, cmds |-> <<>>]
Idle == [tool |-> "check", stage |-> "idle", s |-> AnySnippet,
         snap |-> NoSnapshot, todo |-> <<>>, drop |-> {}]

Thm(s) == Command("thm", s)

\* (mutant of NotebookCmds) The newest lemma is replayed first.
NotebookCmds_NewestFirst(lemmas) ==
    [i \in 1..Len(lemmas) |-> Thm(lemmas[Len(lemmas) + 1 - i])]

NotebookCmds(lemmas) == [i \in 1..Len(lemmas) |-> Thm(lemmas[i])]

\* The commands retract matches: they introduce one of the names.
Introduces(cmd, names) == cmd.op = "thm" /\ cmd.s.name \in names

\* A tool that works in the session environment starts with ensure_preamble.
FirstStage == IF Ready(lean) THEN "body" ELSE "preamble"

Begin(new) ==
    /\ job.stage = "idle"
    /\ jobs < MaxJobs
    /\ jobs' = jobs + 1
    /\ job' = new
    /\ UNCHANGED <<lean, claims>>

Call(tool, stage, s) == [Idle EXCEPT !.tool = tool, !.stage = stage, !.s = s]
Rebuild(tool, stage, todo, drop) ==
    [Idle EXCEPT !.tool = tool, !.stage = stage, !.todo = todo, !.drop = drop]

StartSessionTool(tool, s) ==
    /\ tool \in {"check", "typecheck", "search", "prove"}
    /\ Begin(Call(tool, FirstStage, s))

StartDurable(s) ==
    Begin([Call("durable", "preamble", s) EXCEPT !.snap = TakeSnapshot(lean)])

StartBridge(s) == Begin(Call("bridge", "body", s))

StartReset == Begin(Rebuild("reset", "preamble", NotebookCmds(notebook), {}))

\* bind_session: the notebook becomes the loaded session's, which is the
\* current one or the one that was left, and is replayed into whatever
\* environment is live.
BindSession(loaded, left) ==
    /\ loaded # <<>>
    /\ notebook' = loaded
    /\ shelf' = left
    /\ Begin(Rebuild("resume", IF Ready(lean) THEN "replay" ELSE "preamble",
                     NotebookCmds(loaded), {}))

StartResume == BindSession(notebook, shelf) \/ BindSession(shelf, notebook)

\* /clear: a new session begins without lemmas, and Lean is not told. With
\* the bound of two sessions with lemmas this is also the /resume of a session
\* that has none: nothing is replayed.
Clear ==
    /\ job.stage = "idle"
    /\ shelf = <<>>
    /\ shelf' = notebook
    /\ notebook' = <<>>
    /\ UNCHANGED <<lean, job, jobs, claims>>

\* retract raises, and changes nothing, when no command introduces the name.
StartRetract(n) ==
    /\ \E i \in 1..Len(lean.cmds) : Introduces(lean.cmds[i], {n})
    /\ Begin(Rebuild("retract", "preamble", lean.cmds, {n}))

\* The tool returns or raises; a durable proof restores its snapshot first.
Finish(L) ==
    /\ lean' = IF job.tool = "durable" /\ job.stage \in {"preamble", "body", "axioms"}
               THEN Restore(L, job.snap) ELSE L
    /\ job' = Idle

Continue(L, stage) == lean' = L /\ job' = [job EXCEPT !.stage = stage]

AfterPreamble(L) ==
    CASE job.stage = "installPreamble" -> Continue(L, "install")
      [] job.tool \in {"reset", "retract", "resume"} ->
            IF job.todo = <<>> THEN Finish(L) ELSE Continue(L, "replay")
      [] OTHER -> Continue(L, "body")

\* load_preamble: rebuild the oleans if stale (which may fail), then send.
LoadPreamble ==
    /\ job.stage \in {"preamble", "installPreamble"}
    /\ UNCHANGED <<jobs, claims, notebook, shelf>>
    /\ \/ Finish(lean)
       \/ \E k \in {"good", "bad"} :
             \E o \in SendFresh(lean, Command("preamble", [job.s EXCEPT !.kind = k])) :
                IF o.replied /\ o.ok THEN AfterPreamble(PreambleLoaded(o.lean))
                                     ELSE Finish(o.lean)

Report(kind, o) ==
    claims' = claims \cup {[kind |-> kind, name |-> job.s.name, real |-> o.real]}

\* lean_check: what comes back ok counts, at the settlement boundary, as
\* elaborated; the environment is kept even when it does not.
Check ==
    /\ job.tool = "check" /\ job.stage = "body"
    /\ \E op \in {"thm", "uses"} :
         \E o \in Send(lean, Command(op, job.s), "commit") :
            /\ Finish(o.lean)
            /\ IF o.ok THEN Report("check", o) ELSE UNCHANGED claims
    /\ UNCHANGED <<jobs, notebook, shelf>>

\* lean_typecheck_statement: "example : S := sorry".
Typecheck ==
    /\ job.tool = "typecheck" /\ job.stage = "body"
    /\ \E o \in Send(lean, Command("example", job.s), "transact") :
         /\ Finish(o.lean)
         /\ IF o.ok THEN Report("stated", o) ELSE UNCHANGED claims
    /\ UNCHANGED <<jobs, notebook, shelf>>

\* lean_search: suggestions only, nothing is kept.
Search ==
    /\ job.tool = "search" /\ job.stage = "body"
    /\ \E o \in Send(lean, Command("example", job.s), "scratch") : Finish(o.lean)
    /\ UNCHANGED <<jobs, claims, notebook, shelf>>

\* lean_prove, first request: the snippet itself.
Prove ==
    /\ job.tool \in {"prove", "durable"} /\ job.stage = "body"
    /\ \E o \in Send(lean, Thm(job.s), "transact") :
         IF o.ok THEN Continue(o.lean, "axioms") ELSE Finish(o.lean)
    /\ UNCHANGED <<jobs, claims, notebook, shelf>>

\* verify_coloring, first request: imports, graph and coloring in a fresh
\* environment.
Bridge ==
    /\ job.tool = "bridge" /\ job.stage = "body"
    /\ \E o \in SendFresh(lean, Command("bridge", job.s)) :
         IF o.ok THEN Continue(o.lean, "axioms") ELSE Finish(o.lean)
    /\ UNCHANGED <<jobs, claims, notebook, shelf>>

\* LemmaNotebook.lock: the entry of that name, of which there is at most
\* one, goes; the lemma is appended.
Locked(n) == {i \in 1..Len(notebook) : notebook[i].name = n}
Without(n) ==
    IF Locked(n) = {} THEN notebook
    ELSE LET i == CHOOSE i \in Locked(n) : TRUE IN
         SubSeq(notebook, 1, i - 1) \o SubSeq(notebook, i + 1, Len(notebook))
Lock(s) == notebook' = Append(Without(s.name), s)

\* (mutant of Accepted) sorryAx among the axioms is not looked for.
Accepted_WithHoles(o) == o.ok

\* _axioms_or_miss: an error or a hole is a miss.
Accepted(o) == o.ok /\ ~o.hole

\* #print axioms: on a miss the tool raises; otherwise the Claim is minted, and the
\* agent locks the lemma when the tool was lean_prove. A durable proof
\* restores the session and goes on to install the lemma there.
Axioms ==
    /\ job.stage = "axioms"
    /\ UNCHANGED <<jobs, shelf>>
    /\ \E o \in Send(lean, Command("axioms", job.s), "commit") :
         IF ~Accepted(o)
         THEN Finish(o.lean) /\ UNCHANGED <<claims, notebook>>
         ELSE /\ Report("proof", o)
              /\ IF job.tool = "bridge" THEN UNCHANGED notebook ELSE Lock(job.s)
              /\ IF job.tool = "durable"
                 THEN LET L == Restore(o.lean, job.snap) IN
                      Continue(L, IF Ready(L) THEN "install" ELSE "installPreamble")
                 ELSE Finish(o.lean)

\* The best-effort install after a durable proof: every outcome is swallowed.
Install ==
    /\ job.stage = "install"
    /\ \E o \in Send(lean, Thm(job.s), "transact") : Finish(o.lean)
    /\ UNCHANGED <<jobs, claims, notebook, shelf>>

\* (mutant of Advance) The last command to replay is forgotten.
Advance_DropsLast(L) ==
    IF Len(job.todo) <= 2 THEN Finish(L)
    ELSE lean' = L /\ job' = [job EXCEPT !.todo = Tail(@)]

\* The next command to replay, or the end of the tool.
Advance(L) ==
    IF Len(job.todo) = 1 THEN Finish(L)
    ELSE lean' = L /\ job' = [job EXCEPT !.todo = Tail(@)]

\* retract passes over what it drops and stops at the first command that
\* fails to replay; reset_env and bind_session count the failures and go on.
Replay ==
    /\ job.stage = "replay"
    /\ IF Introduces(Head(job.todo), job.drop) THEN Advance(lean)
       ELSE \E o \in Send(lean, Head(job.todo), "transact") :
              IF ~o.replied \/ (job.tool = "retract" /\ ~o.ok)
              THEN Finish(o.lean) ELSE Advance(o.lean)
    /\ UNCHANGED <<jobs, claims, notebook, shelf>>

\* The process exits between two requests (MaxGen bounds how often).
ProcessExit ==
    /\ lean.proc = "up" /\ lean.gen < MaxGen
    /\ lean' = [lean EXCEPT !.proc = "dead"]
    /\ UNCHANGED <<job, jobs, claims, notebook, shelf>>

StartTool ==
    /\ \/ \E s \in Snippet :
             \/ \E tool \in {"check", "typecheck", "search", "prove"} :
                   StartSessionTool(tool, s)
             \/ StartDurable(s)
             \/ StartBridge(s)
       \/ \E n \in Names : StartRetract(n)
       \/ StartReset
    /\ UNCHANGED <<notebook, shelf>>

Start == StartTool \/ StartResume

\* The next request of the tool call in progress.
Step == \/ LoadPreamble \/ Check \/ Typecheck \/ Search \/ Prove \/ Bridge
        \/ Axioms \/ Install \/ Replay

Init ==
    /\ lean = [proc |-> "up", gen |-> 1, envs |-> <<>>, env |-> NoEnv,
               loaded |-> FALSE, cmds |-> <<>>]
    /\ job = Idle
    /\ jobs = 0
    /\ claims = {}
    /\ notebook = <<>>
    /\ shelf = <<>>

Next == Start \/ Clear \/ Step \/ ProcessExit

\* Every request has a deadline, so a call in progress takes its next step.
Spec == Init /\ [][Next]_vars /\ WF_vars(Step)

-----------------------------------------------------------------------------
(***************************************************************************)
(* Properties                                                              *)
(***************************************************************************)
\* The environment id held, or one it extends, is an earlier process's.
Stale(ref) == ref # NoEnv /\ ref.by # lean.gen

\* Environment c is what the session fields take theirs for: a preamble
\* flagged as loaded is the corpus preamble, and the declarations of the
\* session commands are there.
Holds(c, fields) ==
    /\ fields.loaded => c.base = "corpus"
    /\ \A i \in 1..Len(fields.cmds) :
          fields.cmds[i].op = "thm" => c.decl[fields.cmds[i].s.name] # "absent"

\* Process L holds the session that fields (the live ones, or a snapshot)
\* describe: without an id, no preamble and no commands; with one, unless it
\* is an earlier process's, an environment L issued and that they fit.
Sound(L, fields) ==
    IF fields.env = NoEnv
    THEN ~fields.loaded /\ fields.cmds = <<>>
    ELSE /\ fields.env.by <= L.gen
         /\ fields.env.by = L.gen =>
              fields.env.k <= Len(L.envs) /\ Holds(L.envs[fields.env.k], fields)

\* lean_repl.py 259-401: whatever mixture of commits, failed elaborations,
\* reloads, restores and restarts came before, _env, _preamble_loaded and
\* _session_cmds (and a snapshot of them) agree with the process, unless the
\* id is a dead process's.
SessionFaithful == Sound(lean, lean) /\ Sound(lean, job.snap)

\* lean_repl.py 305-314: the only step that can put a dead process's id into
\* _env is the restore at the end of a durable proof that began under that
\* process. Every other path forfeits the environment with its process.
OnlyRestoreGoesStale ==
    [][ Stale(lean.env)' /\ ~Stale(lean.env) =>
            job.tool = "durable" /\ lean'.env = job.snap.env ]_vars

\* lean_tools.py 155-237, ledger.py: a proof verdict that the kernel did not
\* give is minted only from a stale session, or when the process that lists
\* the axioms is not the one that elaborated the snippet.
FalseProofOnlyAcrossProcesses ==
    [][ \A c \in claims' \ claims :
            c.kind = "proof" /\ ~c.real =>
                Stale(lean.env) \/ lean.proc # "up" \/ lean'.gen # lean.gen ]_vars

\* lean_tools.py 261-276, lemmas.py 119-138: when a reset ran to its end, a
\* locked lemma is back in the session environment if it and those before
\* it are complete proofs that cite only lemmas locked before them.
ReplaysInOrder(i) ==
    \A j \in 1..i :
        /\ notebook[j].kind = "good"
        /\ Requires[notebook[j].name] \subseteq {notebook[h].name : h \in 1..(j - 1)}
ResetReplays ==
    [][ /\ job.tool = "reset" /\ job.stage = "replay" /\ job'.stage = "idle"
        /\ lean'.loaded /\ lean'.env # NoEnv
        => \A i \in 1..Len(notebook) :
              ReplaysInOrder(i) =>
                 lean'.envs[lean'.env.k].decl[notebook[i].name] = "proved" ]_vars

\* repl.py 248-258, 419-424, lemmas.py 119-138: once a session is resumed, its
\* locked lemmas are declared in the session environment, each that cites only
\* those before it, whatever the session that was left had put there. A replay
\* that found no process and could start none has raised, and promises nothing.
RebindReplays ==
    [][ /\ job.tool = "resume" /\ job.stage # "idle" /\ job'.stage = "idle"
        /\ lean'.loaded /\ lean'.env # NoEnv /\ ~Stale(lean.env)' /\ lean'.proc # "down"
        => \A i \in 1..Len(notebook) :
              ReplaysInOrder(i) =>
                 lean'.envs[lean'.env.k].decl[notebook[i].name] # "absent" ]_vars

\* lean_tools.py 165-168, 212-221: a durable proof leaves the session it found
\* in place: if the process survived, the session commands are still there
\* and, but for the lemma it installs, every declaration is what it was.
DurableKeepsSession ==
    [][ LET snap == job.snap IN
        /\ job.tool = "durable" /\ job.stage # "idle" /\ job'.stage = "idle"
        /\ snap.loaded /\ snap.env # NoEnv
        /\ snap.env.by = lean'.gen /\ lean'.proc # "down"
        => /\ lean'.loaded /\ lean'.env # NoEnv
           /\ Len(snap.cmds) <= Len(lean'.cmds)
           /\ SubSeq(lean'.cmds, 1, Len(snap.cmds)) = snap.cmds
           /\ \A n \in Names \ {job.s.name} :
                 lean'.envs[lean'.env.k].decl[n] = lean'.envs[snap.env.k].decl[n] ]_vars

\* lean_repl.py 8-19: every call is timed, so a tool call comes back whatever
\* the process does.
ToolsReturn == job.stage # "idle" ~> job.stage = "idle"

-----------------------------------------------------------------------------
(***************************************************************************)
(* What the documentation says and the code does not do.                   *)
(***************************************************************************)
\* lean_repl.py 8-16: after a kill the session environment is forfeit and
\* ensure_preamble reloads. Holds only if, between calls, a session that
\* ensure_preamble takes as loaded belongs to the process that runs.
ForfeitedSessionReloads ==
    job.stage = "idle" /\ Ready(lean) => lean.env.by = lean.gen

\* agent.py 388-390, lean_repl.py 14-16: an ok verdict of lean_check, on
\* which a campaign halts, or a proof Claim, is one the kernel gave.
VerdictsAreReal == \A c \in claims : c.kind = "check" => c.real

\* lean_tools.py 170-172: a proof that is a miss leaves no declaration behind.
MissLeavesNothing ==
    [][ /\ job.tool = "prove" /\ job.stage = "axioms" /\ job'.stage = "idle"
        /\ UNCHANGED claims /\ lean'.env # NoEnv /\ ~Stale(lean.env)'
        => lean'.envs[lean'.env.k].decl[job.s.name] = "absent" ]_vars

=============================================================================
