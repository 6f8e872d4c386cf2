-------------------------- MODULE LeanSessionProofs --------------------------
(***************************************************************************)
(* Proofs about LeanSession: its types, and that the session fields agree  *)
(* with the process (SessionFaithful), for every set of names, dependency  *)
(* relation, number of restarts and number of tool calls.                  *)
(***************************************************************************)
EXTENDS LeanSession, SequenceTheorems, TLAPS

(***************************************************************************)
(* The outcomes of a request                                               *)
(***************************************************************************)
\* The session fields say that nothing is held.
Forfeited(M) == M.env = NoEnv /\ ~M.loaded /\ M.cmds = <<>>

\* M is L, or what is left of L once its process was lost: a process that
\* runs then is a later one and has issued nothing.
Later(M, L) ==
    /\ M \in Lean
    /\ \/ M = L
       \/ /\ Forfeited(M) /\ M.proc # "dead"
          /\ M.gen >= L.gen
          /\ M.gen = L.gen => M.envs = L.envs
          /\ M.proc = "up" => M.gen > L.gen /\ M.envs = <<>>

\* Two losses in a row are a loss.
LEMMA LaterTransitive ==
    ASSUME NEW L \in Lean, NEW M, NEW N, Later(M, L), Later(N, M)
    PROVE  Later(N, L)
BY DEF Later, Lean

\* A killed process leaves the state of a lost one.
LEMMA KilledLater ==
    ASSUME NEW L \in Lean
    PROVE  Later(Killed(L), L) /\ Killed(L).proc = "down"
<1>1. NoEnv \in EnvRefs /\ <<>> \in Seq(SessionCmd)
  BY DEF EnvRefs
<1>2. Killed(L) \in Lean
  BY <1>1 DEF Killed, Lean
<1>3. /\ Killed(L).proc = "down" /\ Killed(L).gen = L.gen
      /\ Killed(L).envs = L.envs
  BY DEF Killed, Lean
<1>4. Forfeited(Killed(L))
  BY DEF Killed, Lean, Forfeited
<1> QED BY <1>2, <1>3, <1>4 DEF Later, Lean

\* A new process leaves the state of a lost one, if the fields were empty or
\* there is no difference.
LEMMA StartsLater ==
    ASSUME NEW L \in Lean, L.proc # "up", NEW M \in Starts(L)
    PROVE  Later(M, L)
<1>1. CASE M = L
  BY <1>1 DEF Later
<1>2. CASE M = Started(L)
  BY <1>2, MaxGenType DEF Later, Forfeited, Started, Lean, EnvRefs
<1> QED BY <1>1, <1>2 DEF Starts

\* What _ensure_running leaves.
LEMMA RunningLater ==
    ASSUME NEW L \in Lean, NEW M \in Running(L)
    PROVE  Later(M, L)
<1>1. CASE L.proc = "up"
  BY <1>1 DEF Running, Later
<1>2. CASE L.proc = "dead"
  <2>1. M \in Starts(Killed(L)) BY <1>2 DEF Running
  <2>2. Later(Killed(L), L) /\ Killed(L).proc = "down" /\ Killed(L) \in Lean
    BY KilledLater DEF Later
  <2>3. Later(M, Killed(L)) BY <2>1, <2>2, StartsLater
  <2> QED BY <2>2, <2>3, LaterTransitive
<1>3. CASE L.proc = "down"
  BY <1>3, StartsLater DEF Running
<1> QED BY <1>1, <1>2, <1>3 DEF Lean

\* Every outcome of a request is a raise from, or an answer of, the process
\* of L or one that came after its loss. A raise loses a process that is up.
Outcome(L, e, cmd, o) ==
    \E M : /\ Later(M, L)
           /\ \/ o = Raised(M) /\ (M = L => L.proc = "down")
              \/ M.proc = "up" /\ o = Answer(M, e, cmd)

\* What a killed process is replaced by is not what it was, unless it was down.
LEMMA ReplacedIsOther ==
    ASSUME NEW L \in Lean, NEW M \in Starts(Killed(L)), M = L
    PROVE  L.proc = "down"
<1>1. Killed(L).proc = "down" /\ Killed(L).gen = L.gen BY DEF Killed, Lean
<1>2. CASE M = Killed(L) BY <1>1, <1>2
<1>3. CASE M = Started(Killed(L))
  <2>1. M.gen = L.gen + 1 BY <1>1, <1>3 DEF Started
  <2> QED BY <2>1 DEF Lean
<1> QED BY <1>2, <1>3 DEF Starts

\* A loss of a process that replaced another loses that one too.
LEMMA LossOfReplaced ==
    ASSUME NEW L \in Lean, NEW M \in Lean, NEW N, Later(M, L), Later(N, M), M.proc = "up",
           N = M => M.proc = "down"
    PROVE  N = L => L.proc = "down"
BY DEF Later, Lean

\* A request that times out, or dies twice, raises from what is left of its
\* process.
LEMMA TimesOutOutcome ==
    ASSUME NEW L \in Lean, NEW e, NEW cmd, NEW o \in TimesOut(L) \cup DiesAgain(L)
    PROVE  Outcome(L, e, cmd, o)
<1>1. Later(Killed(L), L) /\ Killed(L).proc = "down" /\ Killed(L) \in Lean
  BY KilledLater DEF Later
<1>2. ASSUME NEW M \in Starts(Killed(L)) PROVE Later(M, L)
  <2>1. Later(M, Killed(L)) BY <1>1, <1>2, StartsLater
  <2> QED BY <1>1, <2>1, LaterTransitive
<1>3. CASE o \in TimesOut(L)
  <2>1. PICK M \in Starts(Killed(L)) : o = Raised(M) BY <1>3 DEF TimesOut
  <2> QED BY <1>2, <2>1, ReplacedIsOther DEF Outcome
<1>4. CASE o \in DiesAgain(L)
  <2>1. o = Raised(Killed(L)) BY <1>4 DEF DiesAgain
  <2> QED BY <1>1, <2>1 DEF Outcome
<1> QED BY <1>3, <1>4

\* A request under which the process dies raises, or is answered by the process
\* that replaces it.
LEMMA DiesOutcome ==
    ASSUME NEW L \in Lean, NEW e, NEW cmd, NEW o \in Dies(L, e, cmd)
    PROVE  Outcome(L, e, cmd, o)
<1>1. Later(Killed(L), L) /\ Killed(L).proc = "down" /\ Killed(L) \in Lean
  BY KilledLater DEF Later
<1>2. o \in Revived(L, e, cmd) BY DEF Dies
<1>3. PICK M \in Starts(Killed(L)) :
        o \in IF M.proc = "up"
              THEN {Answer(M, e, cmd)} \cup TimesOut(M) \cup DiesAgain(M)
              ELSE {Raised(M)}
  BY <1>2 DEF Revived
<1>4. Later(M, L) /\ M \in Lean
  <2>1. Later(M, Killed(L)) BY <1>1, <1>3, StartsLater
  <2> QED BY <1>1, <2>1, LaterTransitive DEF Later
<1>5. CASE o \in TimesOut(M) \cup DiesAgain(M)
  <2>1. Outcome(M, e, cmd, o) BY <1>4, <1>5, TimesOutOutcome
  <2>2. PICK N : /\ Later(N, M)
                 /\ \/ o = Raised(N) /\ (N = M => M.proc = "down")
                    \/ N.proc = "up" /\ o = Answer(N, e, cmd)
    BY <2>1 DEF Outcome
  <2>3. Later(N, L) BY <1>4, <2>2, LaterTransitive
  <2>4. CASE M.proc = "up" BY <1>4, <2>2, <2>3, <2>4, LossOfReplaced DEF Outcome
  <2>5. CASE M.proc # "up"
    BY <1>3, <1>4, <2>5, ReplacedIsOther DEF Outcome
  <2> QED BY <2>4, <2>5
<1>6. CASE ~(o \in TimesOut(M) \cup DiesAgain(M))
  BY <1>3, <1>4, <1>6, ReplacedIsOther DEF Outcome
<1> QED BY <1>5, <1>6

\* A process that is found not to run, and could not be started, was down before.
LEMMA RaiseFromDown ==
    ASSUME NEW L \in Lean, NEW M \in Running(L), M = L, M.proc # "up"
    PROVE  L.proc = "down"
<1>1. CASE L.proc = "dead"
  <2>1. M \in Starts(Killed(L)) BY <1>1 DEF Running
  <2> QED BY <1>1, <2>1, ReplacedIsOther
<1> QED BY <1>1 DEF Lean

\* So does every request, whatever happens to the process.
LEMMA RequestOutcome ==
    ASSUME NEW L \in Lean, NEW e, NEW cmd, NEW o \in Request(L, e, cmd)
    PROVE  Outcome(L, e, cmd, o)
<1>1. PICK M \in Running(L) :
        o \in IF M.proc = "up"
              THEN {Answer(M, e, cmd)} \cup TimesOut(M) \cup Dies(M, e, cmd)
              ELSE {Raised(M)}
  BY DEF Request
<1>2. Later(M, L) /\ M \in Lean BY RunningLater DEF Later
<1>3. CASE o \in TimesOut(M) \cup Dies(M, e, cmd)
  <2>1. Outcome(M, e, cmd, o) BY <1>2, <1>3, TimesOutOutcome, DiesOutcome
  <2>2. PICK N : /\ Later(N, M)
                 /\ \/ o = Raised(N) /\ (N = M => M.proc = "down")
                    \/ N.proc = "up" /\ o = Answer(N, e, cmd)
    BY <2>1 DEF Outcome
  <2>3. Later(N, L) BY <1>2, <2>2, LaterTransitive
  <2>4. CASE M.proc = "up" BY <1>2, <2>2, <2>3, <2>4, LossOfReplaced DEF Outcome
  <2>5. CASE M.proc # "up" BY <1>1, <1>2, <2>5, RaiseFromDown DEF Outcome
  <2> QED BY <2>4, <2>5
<1>4. CASE ~(o \in TimesOut(M) \cup Dies(M, e, cmd))
  BY <1>1, <1>2, <1>4, RaiseFromDown DEF Outcome
<1> QED BY <1>3, <1>4

(***************************************************************************)
(* What a command does to a context                                        *)
(***************************************************************************)
\* A request without an id runs in a context.
LEMMA FreshType == Fresh \in Context
BY DEF Fresh, Context

\* The context after a command is a context; a command that is no import
\* keeps the base and every declaration.
LEMMA AfterContext ==
    ASSUME NEW c \in Context, NEW cmd \in Cmd
    PROVE  /\ After(c, cmd) \in Context
           /\ cmd.op \notin {"preamble", "bridge"} =>
                 /\ After(c, cmd).base = c.base
                 /\ \A n \in Names :
                       c.decl[n] # "absent" => After(c, cmd).decl[n] # "absent"
<1>1. CASE cmd.op = "preamble"
  BY <1>1, FreshType DEF After, Context, Fresh
<1>2. CASE cmd.op = "bridge"
  BY <1>2, FreshType DEF After, Context, Fresh
<1>3. CASE cmd.op = "thm" /\ c.base = "corpus" /\ c.decl[cmd.s.name] = "absent"
  <2> DEFINE v == IF Elaborates(c, cmd) /\ ~Tainted(c, cmd.s) THEN "proved" ELSE "hole"
  <2>1. After(c, cmd) = [c EXCEPT !.decl[cmd.s.name] = v]
    BY <1>3 DEF After
  <2>2. v \in {"proved", "hole"}
    OBVIOUS
  <2>3. cmd.s.name \in Names
    BY DEF Cmd, Snippet
  <2> HIDE DEF v
  <2> QED BY <2>1, <2>2, <2>3 DEF Context
<1>4. CASE /\ cmd.op \notin {"preamble", "bridge"}
           /\ ~(cmd.op = "thm" /\ c.base = "corpus" /\ c.decl[cmd.s.name] = "absent")
  <2>1. After(c, cmd) = c
    BY <1>4 DEF After
  <2> QED BY <2>1
<1> QED BY <1>1, <1>2, <1>3, <1>4

\* A declaration that elaborates is in the context after it.
LEMMA ElaboratedIsDeclared ==
    ASSUME NEW c \in Context, NEW cmd \in Cmd, cmd.op = "thm", Elaborates(c, cmd)
    PROVE  After(c, cmd).decl[cmd.s.name] # "absent"
<1>1. c.base = "corpus" /\ c.decl[cmd.s.name] = "absent"
  BY DEF Elaborates
<1>2. cmd.s.name \in Names
  BY DEF Cmd, Snippet
<1>3. After(c, cmd).decl[cmd.s.name] \in {"proved", "hole"}
  BY <1>1, <1>2 DEF After, Context
<1> QED BY <1>3

\* A preamble that elaborates leaves the corpus context.
LEMMA LoadedIsCorpus ==
    ASSUME NEW cmd \in Cmd, cmd.op = "preamble", Elaborates(Fresh, cmd)
    PROVE  After(Fresh, cmd).base = "corpus"
<1>1. cmd.s.kind # "bad" BY DEF Elaborates
<1> QED BY <1>1 DEF After, Fresh

\* An answer appends at most one context and leaves the session fields.
Extended(M, e, cmd, o) ==
    /\ o.lean.envs = Append(M.envs, After(Within(M, e), cmd))
    /\ Within(M, e) \in Context
    /\ e # NoEnv => e.k \in 1..Len(M.envs) /\ Within(M, e) = M.envs[e.k]
    /\ e = NoEnv => Within(M, e) = Fresh
    /\ o.env \in EnvRef
    /\ o.env.k = Len(M.envs) + 1
    /\ o.env.by = (IF e = NoEnv THEN M.gen ELSE e.by)
    /\ o.ok => Elaborates(Within(M, e), cmd)

\* An answer issues one environment that extends the one it ran in, or, for an
\* id the process never issued, changes nothing; no session field changes.
LEMMA AnswerFacts ==
    ASSUME NEW M \in Lean, NEW e \in EnvRefs, NEW cmd \in Cmd, NEW o,
           o = Answer(M, e, cmd)
    PROVE  /\ o.lean \in Lean
           /\ o.lean.gen = M.gen /\ o.lean.proc = M.proc
           /\ o.lean.env = M.env /\ o.lean.loaded = M.loaded /\ o.lean.cmds = M.cmds
           /\ \/ o.lean = M /\ o.env = NoEnv /\ e # NoEnv
              \/ Extended(M, e, cmd, o)
<1>1. CASE Knows(M, e)
  <2>1. Within(M, e) \in Context
    BY <1>1, FreshType, ElementOfSeq DEF Knows, Within, Lean, EnvRefs, EnvRef
  <2>2. After(Within(M, e), cmd) \in Context
    BY <2>1, AfterContext
  <2>3. Append(M.envs, After(Within(M, e), cmd)) \in Seq(Context)
    BY <2>2, AppendProperties DEF Lean
  <2>4. o.lean = [M EXCEPT !.envs = Append(@, After(Within(M, e), cmd))]
    BY <1>1 DEF Answer
  <2>5. o.env = [k |-> Len(M.envs) + 1, by |-> IF e = NoEnv THEN M.gen ELSE e.by]
    BY <1>1 DEF Answer
  <2>6. o.ok = Elaborates(Within(M, e), cmd)
    BY <1>1 DEF Answer
  <2>7. o.env \in EnvRef
    <3>1. Len(M.envs) \in Nat BY LenProperties DEF Lean
    <3> QED BY <2>5, <3>1 DEF EnvRefs, EnvRef, Lean
  <2>8. e # NoEnv => e.k \in 1..Len(M.envs) /\ Within(M, e) = M.envs[e.k]
    BY <1>1 DEF Knows, Within
  <2>9. e = NoEnv => Within(M, e) = Fresh
    BY DEF Within
  <2>10. o.lean.envs = Append(M.envs, After(Within(M, e), cmd))
    BY <2>4 DEF Lean
  <2>11. Extended(M, e, cmd, o)
    BY <2>1, <2>5, <2>6, <2>7, <2>8, <2>9, <2>10 DEF Extended
  <2> QED BY <2>3, <2>4, <2>11 DEF Lean
<1>2. CASE ~Knows(M, e)
  <2>1. o.lean = M /\ o.env = NoEnv /\ e # NoEnv
    BY <1>2 DEF Answer, Knows
  <2> QED BY <2>1
<1> QED BY <1>1, <1>2

(***************************************************************************)
(* What a request leaves of a sound session                                *)
(***************************************************************************)
\* The outcomes of a request.
Outcomes == [lean: Lean, replied: BOOLEAN, ok: BOOLEAN, env: EnvRefs,
             hole: BOOLEAN, real: BOOLEAN]

\* A raise and an answer have the fields of an outcome.
LEMMA OutcomeType ==
    ASSUME NEW M \in Lean, NEW e \in EnvRefs, NEW cmd \in Cmd
    PROVE  Raised(M) \in Outcomes /\ Answer(M, e, cmd) \in Outcomes
<1>1. Raised(M) \in Outcomes
  BY DEF Raised, Outcomes, EnvRefs
<1>2. Answer(M, e, cmd) \in Outcomes
  <2> DEFINE o == Answer(M, e, cmd)
  <2>1. o.lean \in Lean /\ (o.env = NoEnv \/ o.env \in EnvRef)
    BY AnswerFacts DEF Extended
  <2>2. Elaborates(Within(M, e), cmd) \in BOOLEAN
    BY DEF Elaborates
  <2>3. /\ o = [lean |-> o.lean, replied |-> o.replied, ok |-> o.ok,
                env |-> o.env, hole |-> o.hole, real |-> o.real]
        /\ o.replied \in BOOLEAN /\ o.ok \in BOOLEAN
        /\ o.hole \in BOOLEAN /\ o.real \in BOOLEAN
    BY <2>2 DEF Answer
  <2> QED BY <2>1, <2>3 DEF Outcomes, EnvRefs
<1> QED BY <1>1, <1>2

\* What the session keeps of an outcome.
LEMMA CommitFacts ==
    ASSUME NEW o \in Outcomes, NEW cmd, NEW mode,
           mode = "transact" => cmd \in SessionCmd
    PROVE  LET c == Commit(o, cmd, mode) IN
           /\ c \in Outcomes
           /\ c.ok = o.ok /\ c.replied = o.replied /\ c.hole = o.hole
           /\ c.real = o.real /\ c.env = o.env
           /\ c.lean.gen = o.lean.gen /\ c.lean.envs = o.lean.envs
           /\ c.lean.proc = o.lean.proc /\ c.lean.loaded = o.lean.loaded
           /\ \/ c.lean = o.lean
              \/ /\ o.env # NoEnv /\ c.lean.env = o.env
                 /\ \/ c.lean.cmds = o.lean.cmds
                    \/ o.ok /\ c.lean.cmds = Append(o.lean.cmds, cmd)
           /\ mode = "commit" => c.lean.cmds = o.lean.cmds
           /\ mode = "commit" /\ o.env # NoEnv => c.lean.env = o.env
<1>1. CASE mode = "commit" /\ o.env # NoEnv
  <2>1. Commit(o, cmd, mode) = [o EXCEPT !.lean = [@ EXCEPT !.env = o.env]]
    BY <1>1 DEF Commit
  <2> QED BY <1>1, <2>1 DEF Outcomes, Lean
<1>2. CASE mode = "transact" /\ o.ok /\ o.env # NoEnv
  <2> DEFINE cs == Append(o.lean.cmds, cmd)
             N == [o.lean EXCEPT !.env = o.env, !.cmds = cs]
  <2>1. Commit(o, cmd, mode) = [o EXCEPT !.lean = N]
    BY <1>2 DEF Commit, Outcomes, Lean
  <2>2. cs \in Seq(SessionCmd)
    BY <1>2, AppendProperties DEF Outcomes, Lean
  <2> HIDE DEF cs
  <2>3. /\ N \in Lean /\ N.env = o.env /\ N.cmds = cs /\ N.gen = o.lean.gen
        /\ N.envs = o.lean.envs /\ N.proc = o.lean.proc /\ N.loaded = o.lean.loaded
    BY <2>2 DEF Outcomes, Lean
  <2> HIDE DEF N
  <2>4. cs = Append(o.lean.cmds, cmd)
    BY DEF cs
  <2>5. [o EXCEPT !.lean = N] \in Outcomes
    BY <2>3 DEF Outcomes
  <2>6. /\ [o EXCEPT !.lean = N].lean = N
        /\ [o EXCEPT !.lean = N].ok = o.ok
        /\ [o EXCEPT !.lean = N].replied = o.replied
        /\ [o EXCEPT !.lean = N].hole = o.hole
        /\ [o EXCEPT !.lean = N].real = o.real
        /\ [o EXCEPT !.lean = N].env = o.env
    BY DEF Outcomes
  <2> QED BY <1>2, <2>1, <2>3, <2>4, <2>5, <2>6
<1>3. CASE ~(mode = "commit" /\ o.env # NoEnv) /\ ~(mode = "transact" /\ o.ok /\ o.env # NoEnv)
  <2>1. Commit(o, cmd, mode) = o
    BY <1>3 DEF Commit
  <2> QED BY <1>3, <2>1
<1> QED BY <1>1, <1>2, <1>3

\* Losing the process makes no session unsound.
LEMMA LaterSound ==
    ASSUME NEW L \in Lean, NEW M, Later(M, L), Sound(L, L),
           NEW f \in Snapshot, Sound(L, f)
    PROVE  Sound(M, M) /\ Sound(M, f)
<1>1. CASE M = L
  BY <1>1
<1>2. CASE M # L
  <2>1. Sound(M, M)
    BY <1>2 DEF Later, Forfeited, Sound
  <2>2. Sound(M, f)
    <3>1. CASE f.env = NoEnv
      BY <3>1 DEF Sound
    <3>2. CASE f.env # NoEnv
      <4>1. f.env \in EnvRef BY <3>2 DEF Snapshot, EnvRefs
      <4>2. M.gen >= L.gen /\ (M.gen = L.gen => M.envs = L.envs) /\ M.gen \in Nat /\ L.gen \in Nat
        BY <1>2 DEF Later, Lean
      <4> QED BY <3>2, <4>1, <4>2 DEF Sound, EnvRef
    <3> QED BY <3>1, <3>2
  <2> QED BY <2>1, <2>2
<1> QED BY <1>1, <1>2

\* Nor does an environment appended to those the process has issued.
LEMMA AppendSound ==
    ASSUME NEW L \in Lean, NEW M \in Lean, NEW c \in Context,
           M.gen = L.gen, M.envs = Append(L.envs, c),
           NEW f, f.env \in EnvRefs, Sound(L, f)
    PROVE  Sound(M, f)
<1>1. CASE f.env = NoEnv
  BY <1>1 DEF Sound
<1>2. CASE f.env # NoEnv
  <2>1. f.env \in EnvRef BY <1>2 DEF EnvRefs
  <2>2. f.env.by <= M.gen BY <1>2 DEF Sound
  <2>3. ASSUME f.env.by = M.gen
        PROVE  f.env.k <= Len(M.envs) /\ Holds(M.envs[f.env.k], f)
    <3>1. f.env.k <= Len(L.envs) /\ Holds(L.envs[f.env.k], f)
      BY <1>2, <2>3 DEF Sound
    <3>2. /\ Len(M.envs) = Len(L.envs) + 1 /\ Len(L.envs) \in Nat
          /\ \A i \in 1..Len(L.envs) : M.envs[i] = L.envs[i]
      BY AppendProperties, LenProperties DEF Lean
    <3>3. f.env.k \in 1..Len(L.envs)
      BY <2>1, <3>1, <3>2 DEF EnvRef
    <3> QED BY <3>1, <3>2, <3>3
  <2> QED BY <1>2, <2>2, <2>3 DEF Sound
<1> QED BY <1>1, <1>2

\* A context stays what the fields take it for after a command that is no
\* import, also when the command was added to the session commands.
LEMMA HoldsAfter ==
    ASSUME NEW c \in Context, NEW cmd \in SessionCmd,
           NEW F \in Lean, Holds(c, F),
           NEW G, G.loaded = F.loaded,
           G.cmds = F.cmds \/ (Elaborates(c, cmd) /\ G.cmds = Append(F.cmds, cmd))
    PROVE  Holds(After(c, cmd), G)
<1>0. cmd \in Cmd /\ cmd.op \notin {"preamble", "bridge"}
  BY DEF SessionCmd
<1>1. After(c, cmd).base = c.base
  BY <1>0, AfterContext
<1>2. ASSUME NEW i \in 1..Len(F.cmds), F.cmds[i].op = "thm"
      PROVE  After(c, cmd).decl[F.cmds[i].s.name] # "absent"
  <2>1. F.cmds[i] \in Cmd BY ElementOfSeq DEF Lean, SessionCmd
  <2>2. c.decl[F.cmds[i].s.name] # "absent" BY <1>2 DEF Holds
  <2> QED BY <1>0, <2>1, <2>2, AfterContext DEF Cmd, Snippet
<1>3. CASE G.cmds = F.cmds
  BY <1>1, <1>2, <1>3 DEF Holds
<1>4. CASE Elaborates(c, cmd) /\ G.cmds = Append(F.cmds, cmd)
  <2>1. ASSUME NEW i \in 1..Len(G.cmds), G.cmds[i].op = "thm"
        PROVE  After(c, cmd).decl[G.cmds[i].s.name] # "absent"
    <3>1. /\ Len(F.cmds) \in Nat /\ Len(G.cmds) = Len(F.cmds) + 1
          /\ \A j \in 1..Len(F.cmds) : G.cmds[j] = F.cmds[j]
          /\ G.cmds[Len(F.cmds) + 1] = cmd
      BY <1>4, AppendProperties, LenProperties DEF Lean
    <3>2. CASE i = Len(F.cmds) + 1
      <4>1. cmd.op = "thm" /\ G.cmds[i] = cmd BY <2>1, <3>1, <3>2
      <4> QED BY <1>0, <1>4, <4>1, ElaboratedIsDeclared
    <3>3. CASE i # Len(F.cmds) + 1
      <4>1. i \in 1..Len(F.cmds) /\ G.cmds[i] = F.cmds[i] BY <3>1, <3>3
      <4> QED BY <1>2, <2>1, <4>1
    <3> QED BY <3>2, <3>3
  <2>2. G.loaded => After(c, cmd).base = "corpus"
    BY <1>1 DEF Holds
  <2> QED BY <2>1, <2>2 DEF Holds
<1> QED BY <1>3, <1>4

\* The id held by M is a dead process's only if the one held by L was.
StaleKept(M, L) ==
    M.env # NoEnv /\ M.env.by # M.gen => L.env # NoEnv /\ L.env.by # L.gen

\* A send leaves a sound session, keeps the snapshots sound and makes no id
\* stale.
LEMMA SendSound ==
    ASSUME NEW L \in Lean, Sound(L, L),
           NEW cmd \in SessionCmd, NEW mode,
           NEW o \in Send(L, cmd, mode),
           NEW f \in Snapshot, Sound(L, f)
    PROVE  /\ o \in Outcomes
           /\ Sound(o.lean, o.lean) /\ Sound(o.lean, f)
           /\ StaleKept(o.lean, L)
<1> DEFINE e == L.env
<1>1. e \in EnvRefs /\ cmd \in Cmd BY DEF Lean, SessionCmd
<1>2. PICK r \in Request(L, e, cmd) : o = Commit(r, cmd, mode)
  BY DEF Send
<1>3. PICK M : Later(M, L) /\ (r = Raised(M) \/ (M.proc = "up" /\ r = Answer(M, e, cmd)))
  BY <1>2, RequestOutcome DEF Outcome
<1>4. M \in Lean /\ Sound(M, M) /\ Sound(M, f)
  BY <1>3, LaterSound DEF Later
<1>5. r \in Outcomes
  BY <1>1, <1>3, <1>4, OutcomeType
<1>6. StaleKept(M, L)
  BY <1>3 DEF Later, Forfeited, StaleKept
<1>7. CASE r.lean = M /\ r.env = NoEnv
  <2>1. o \in Outcomes /\ o.lean = M BY <1>2, <1>5, <1>7, CommitFacts
  <2> QED BY <1>4, <1>6, <2>1
<1>8. CASE M.proc = "up" /\ r = Answer(M, e, cmd) /\ Extended(M, e, cmd, r)
  <2> DEFINE W == Within(M, e)
             c == o.lean
  <2>1. /\ r.lean \in Lean /\ r.lean.gen = M.gen /\ r.lean.env = M.env
        /\ r.lean.loaded = M.loaded /\ r.lean.cmds = M.cmds
        /\ r.lean.envs = Append(M.envs, After(W, cmd))
        /\ W \in Context /\ After(W, cmd) \in Context
    BY <1>1, <1>4, <1>8, AnswerFacts, AfterContext DEF Extended
  <2>2. Sound(r.lean, f)
    BY <1>4, <2>1, AppendSound DEF Snapshot
  <2>3. Sound(r.lean, M)
    BY <1>4, <2>1, AppendSound DEF Lean
  <2>4. Sound(r.lean, r.lean)
    BY <2>1, <2>3 DEF Sound, Holds
  <2>5. /\ o \in Outcomes /\ c \in Lean
        /\ c.gen = r.lean.gen /\ c.envs = r.lean.envs /\ c.loaded = r.lean.loaded
        /\ \/ c = r.lean
           \/ /\ r.env # NoEnv /\ c.env = r.env
              /\ c.cmds = r.lean.cmds \/ (r.ok /\ c.cmds = Append(r.lean.cmds, cmd))
    BY <1>2, <1>5, CommitFacts DEF Outcomes
  <2>6. Sound(c, f)
    BY <2>2, <2>5 DEF Sound
  <2>7. CASE c = r.lean
    <3>1. StaleKept(c, L) BY <1>6, <2>1, <2>7 DEF StaleKept
    <3> QED BY <2>4, <2>5, <2>6, <2>7, <3>1
  <2>8. CASE c # r.lean
    <3>1. /\ r.env \in EnvRef /\ c.env = r.env /\ r.env.k = Len(M.envs) + 1
          /\ r.env.by = (IF e = NoEnv THEN M.gen ELSE e.by)
          /\ r.ok => Elaborates(W, cmd)
          /\ e # NoEnv => e.k \in 1..Len(M.envs) /\ W = M.envs[e.k]
          /\ e = NoEnv => W = Fresh
      BY <1>8, <2>5, <2>8 DEF Extended
    <3>2. /\ Len(c.envs) = Len(M.envs) + 1 /\ Len(M.envs) \in Nat
          /\ c.envs[Len(M.envs) + 1] = After(W, cmd)
      <4>1. M.envs \in Seq(Context) BY <1>4 DEF Lean
      <4> QED BY <2>1, <2>5, <4>1, AppendProperties, LenProperties
    <3>3. e # NoEnv => e \in EnvRef /\ e.by <= L.gen
      BY <1>1 DEF Sound, EnvRefs
    <3>4. L.gen \in Nat /\ M.gen \in Nat /\ L.gen <= M.gen
      BY <1>3, <1>4 DEF Later, Lean
    <3>5. r.env.by <= c.gen
      BY <2>1, <2>5, <3>1, <3>3, <3>4 DEF EnvRef
    <3>6. M.gen = L.gen => M = L
      BY <1>3, <1>8, <3>4 DEF Later
    <3>7. M # L => M.envs = <<>>
      BY <1>3, <1>8 DEF Later
    <3>8. ASSUME r.env.by = c.gen PROVE Holds(W, M)
      <4>1. CASE e = NoEnv
        <5>1. ~M.loaded /\ M.cmds = <<>>
          BY <1>3, <4>1 DEF Later, Forfeited, Sound
        <5> QED BY <5>1 DEF Holds
      <4>2. CASE e # NoEnv
        <5>1. e.by = M.gen BY <2>1, <2>5, <3>1, <3>8, <4>2
        <5>2. M = L BY <3>3, <3>4, <3>6, <4>2, <5>1 DEF EnvRef
        <5> QED BY <3>1, <4>2, <5>1, <5>2 DEF Sound
      <4> QED BY <4>1, <4>2
    <3>9. ASSUME r.env.by = c.gen PROVE Holds(c.envs[c.env.k], c)
      <4>1. Holds(W, M) BY <3>8, <3>9
      <4>2. Holds(After(W, cmd), c)
        BY <1>4, <2>1, <2>5, <2>8, <3>1, <4>1, HoldsAfter
      <4> QED BY <3>1, <3>2, <4>2
    <3>10. Sound(c, c)
      <4>1. c.env # NoEnv BY <2>5, <2>8
      <4>2. c.env.k <= Len(c.envs) BY <3>1, <3>2
      <4> QED BY <3>1, <3>5, <3>9, <4>1, <4>2 DEF Sound
    <3>11. StaleKept(c, L)
      <4> SUFFICES ASSUME c.env.by # c.gen PROVE e # NoEnv /\ e.by # L.gen
        BY DEF StaleKept
      <4>1. e # NoEnv /\ e.by # M.gen BY <2>1, <2>5, <3>1
      <4>2. M = L BY <3>1, <3>7, <4>1, EmptySeq
      <4> QED BY <4>1, <4>2
    <3> QED BY <2>5, <2>6, <3>10, <3>11
  <2> QED BY <2>7, <2>8
<1>9. \/ r.lean = M /\ r.env = NoEnv
      \/ M.proc = "up" /\ r = Answer(M, e, cmd) /\ Extended(M, e, cmd, r)
  BY <1>1, <1>3, <1>4, AnswerFacts DEF Raised
<1> QED BY <1>7, <1>8, <1>9

\* Fields without commands, and without a preamble unless it is the corpus
\* one, fit any context.
LEMMA EmptyHolds ==
    ASSUME NEW c, NEW F, F.cmds = <<>>, F.loaded => c.base = "corpus"
    PROVE  Holds(c, F)
BY DEF Holds

\* An import leaves a sound session; a preamble that elaborated may be
\* flagged as loaded.
LEMMA SendFreshSound ==
    ASSUME NEW L \in Lean, Sound(L, L), NEW cmd \in Cmd,
           NEW o \in SendFresh(L, cmd),
           NEW f \in Snapshot, Sound(L, f)
    PROVE  LET P == PreambleLoaded(o.lean) IN
           /\ o \in Outcomes
           /\ Sound(o.lean, o.lean) /\ Sound(o.lean, f)
           /\ StaleKept(o.lean, L)
           /\ o.replied /\ o.ok /\ cmd.op = "preamble" =>
                 /\ P \in Lean /\ Sound(P, P) /\ Sound(P, f) /\ StaleKept(P, L)
<1> DEFINE L0 == [L EXCEPT !.loaded = FALSE, !.cmds = <<>>]
           c == o.lean
<1>1. /\ L0 \in Lean /\ ~L0.loaded /\ L0.cmds = <<>>
      /\ L0.env = L.env /\ L0.gen = L.gen /\ L0.envs = L.envs
  <2>1. <<>> \in Seq(SessionCmd) OBVIOUS
  <2>2. L0 \in Lean BY <2>1 DEF Lean
  <2> QED BY <2>2 DEF Lean
<1>3. PICK r \in Request(L0, NoEnv, cmd) : o = Commit(r, cmd, "commit")
  BY DEF SendFresh
<1> HIDE DEF L0
<1>2. Sound(L0, L0) /\ Sound(L0, f)
  <2>1. Sound(L0, f) BY <1>1 DEF Sound
  <2>2. \A x : Holds(x, L0) BY <1>1, EmptyHolds
  <2>3. Sound(L0, L0) BY <1>1, <2>2 DEF Sound
  <2> QED BY <2>1, <2>3
<1>4. PICK M : Later(M, L0) /\ (r = Raised(M) \/ (M.proc = "up" /\ r = Answer(M, NoEnv, cmd)))
  BY <1>1, <1>3, RequestOutcome DEF Outcome
<1>5. /\ M \in Lean /\ Sound(M, M) /\ Sound(M, f)
      /\ ~M.loaded /\ M.cmds = <<>>
  BY <1>1, <1>2, <1>4, LaterSound DEF Later, Forfeited
<1>6. StaleKept(M, L)
  BY <1>1, <1>4 DEF Later, Forfeited, StaleKept
<1>7. NoEnv \in EnvRefs
  BY DEF EnvRefs
<1>8. r \in Outcomes
  BY <1>4, <1>5, <1>7, OutcomeType
<1>9. CASE r = Raised(M)
  <2>1. r.lean = M /\ r.env = NoEnv /\ r.replied = FALSE
    BY <1>9 DEF Raised
  <2>2. o \in Outcomes /\ c = M /\ o.replied = FALSE
    BY <1>3, <1>8, <2>1, CommitFacts
  <2> QED BY <1>5, <1>6, <2>2
<1>10. CASE M.proc = "up" /\ r = Answer(M, NoEnv, cmd)
  <2> DEFINE D == After(Fresh, cmd)
  <2>1. /\ r.lean \in Lean /\ r.lean.gen = M.gen
        /\ r.lean.loaded = M.loaded /\ r.lean.cmds = M.cmds
        /\ Extended(M, NoEnv, cmd, r)
    BY <1>5, <1>7, <1>10, AnswerFacts
  <2>2. /\ r.lean.envs = Append(M.envs, D) /\ r.env \in EnvRef
        /\ r.env.k = Len(M.envs) + 1 /\ r.env.by = M.gen
        /\ r.ok => Elaborates(Fresh, cmd)
        /\ D \in Context
    BY <2>1, FreshType, AfterContext DEF Extended
  <2>3. /\ o \in Outcomes /\ c \in Lean /\ c.gen = M.gen /\ c.envs = r.lean.envs
        /\ c.env = r.env /\ c.env # NoEnv /\ o.ok = r.ok
        /\ ~c.loaded /\ c.cmds = <<>>
    BY <1>3, <1>5, <1>8, <2>1, <2>2, CommitFacts, NoEnvIsNotAnId DEF Outcomes
  <2>4. Len(c.envs) = Len(M.envs) + 1 /\ Len(M.envs) \in Nat /\ c.envs[c.env.k] = D
    <3>1. M.envs \in Seq(Context) BY <1>5 DEF Lean
    <3> QED BY <2>2, <2>3, <3>1, AppendProperties, LenProperties
  <2>5. c.env.by = c.gen /\ c.gen \in Nat
    BY <2>2, <2>3 DEF Lean
  <2>6. Sound(c, c)
    <3>1. Holds(c.envs[c.env.k], c) BY <2>3, EmptyHolds
    <3> QED BY <2>2, <2>3, <2>4, <2>5, <3>1 DEF Sound
  <2>7. Sound(c, f)
    <3>1. Sound(r.lean, f)
      BY <1>5, <2>1, <2>2, AppendSound DEF Snapshot
    <3> QED BY <2>1, <2>3, <3>1 DEF Sound
  <2>8. StaleKept(c, L)
    BY <2>5 DEF StaleKept
  <2>9. ASSUME o.ok, cmd.op = "preamble"
        PROVE  LET P == PreambleLoaded(c) IN
               P \in Lean /\ Sound(P, P) /\ Sound(P, f) /\ StaleKept(P, L)
    <3> DEFINE P == PreambleLoaded(c)
    <3>1. /\ P \in Lean /\ P.loaded /\ P.cmds = <<>>
          /\ P.env = c.env /\ P.gen = c.gen /\ P.envs = c.envs
      <4>1. <<>> \in Seq(SessionCmd) OBVIOUS
      <4>2. P \in Lean BY <2>3, <4>1 DEF PreambleLoaded, Lean
      <4> QED BY <2>3, <4>2 DEF PreambleLoaded, Lean
    <3>2. D.base = "corpus"
      BY <2>2, <2>3, <2>9, LoadedIsCorpus
    <3> HIDE DEF P
    <3>3. Sound(P, P)
      <4>1. Holds(P.envs[P.env.k], P) BY <2>4, <3>1, <3>2, EmptyHolds
      <4> QED BY <2>2, <2>3, <2>4, <2>5, <3>1, <4>1 DEF Sound
    <3>4. Sound(P, f)
      BY <2>7, <3>1 DEF Sound
    <3>5. StaleKept(P, L)
      BY <2>5, <3>1 DEF StaleKept
    <3> QED BY <3>1, <3>3, <3>4, <3>5 DEF P
  <2> QED BY <2>3, <2>6, <2>7, <2>8, <2>9
<1> QED BY <1>4, <1>9, <1>10

(***************************************************************************)
(* The inductive invariant                                                 *)
(***************************************************************************)
\* The replay of a rebuild always has a command to send.
ReplayHasWork == job.stage = "replay" => job.todo # <<>>

IInv == TypeOK /\ SessionFaithful /\ ReplayHasWork

\* L can be what a request of the tool call in progress leaves.
Good(L) ==
    /\ L \in Lean /\ Sound(L, L) /\ Sound(L, job.snap) /\ StaleKept(L, lean)

\* The step of OnlyRestoreGoesStale.
NoNewStale ==
    Stale(lean.env)' /\ ~Stale(lean.env) =>
        job.tool = "durable" /\ lean'.env = job.snap.env

\* What every step establishes of the process and the tool call.
Kept ==
    /\ lean' \in Lean /\ job' \in Job
    /\ SessionFaithful' /\ ReplayHasWork'
    /\ NoNewStale

\* The job between two tool calls holds no snapshot.
LEMMA IdleType == Idle \in Job /\ Idle.stage = "idle" /\ Idle.snap = NoSnapshot
<1>1. AnySnippet \in Snippet
  <2>1. PICK n \in Names : TRUE BY NamesNonEmpty
  <2>2. [name |-> n, kind |-> "good"] \in Snippet BY <2>1 DEF Snippet
  <2> QED BY <2>2 DEF AnySnippet
<1>2. <<>> \in Seq(SessionCmd) OBVIOUS
<1>3. NoSnapshot \in Snapshot
  BY <1>2 DEF NoSnapshot, Snapshot, EnvRefs
<1> QED BY <1>1, <1>2, <1>3 DEF Idle, Job, Tools, Stages

\* The empty snapshot claims nothing of any process.
LEMMA NoSnapshotSound == ASSUME NEW L PROVE Sound(L, NoSnapshot)
BY DEF Sound, NoSnapshot

\* A snapshot taken of a sound session is sound.
LEMMA TakenSound ==
    ASSUME NEW L \in Lean, Sound(L, L)
    PROVE  TakeSnapshot(L) \in Snapshot /\ Sound(L, TakeSnapshot(L))
BY DEF TakeSnapshot, Snapshot, Lean, Sound, Holds

\* Putting a sound snapshot back leaves a sound session.
LEMMA RestoreSound ==
    ASSUME NEW L \in Lean, NEW snap \in Snapshot, Sound(L, snap)
    PROVE  LET R == Restore(L, snap) IN
           /\ R \in Lean /\ Sound(R, R) /\ Sound(R, snap)
           /\ R.env = snap.env /\ R.gen = L.gen
<1> DEFINE R == Restore(L, snap)
<1>1. /\ R \in Lean /\ R.env = snap.env /\ R.loaded = snap.loaded
      /\ R.cmds = snap.cmds /\ R.gen = L.gen /\ R.envs = L.envs
  BY DEF Restore, Lean, Snapshot
<1> HIDE DEF R
<1>2. Sound(R, snap) BY <1>1 DEF Sound
<1>3. Sound(R, R) BY <1>1, <1>2 DEF Sound, Holds
<1> QED BY <1>1, <1>2, <1>3 DEF R

\* A tool that returns, with or without a restore, keeps the invariant.
LEMMA FinishKept ==
    ASSUME IInv, NEW L, Good(L), Finish(L)
    PROVE  Kept
<1>1. /\ job' \in Job /\ ReplayHasWork' /\ job'.snap = NoSnapshot
  BY IdleType DEF Finish, ReplayHasWork
<1>2. Sound(lean', job'.snap)
  BY <1>1, NoSnapshotSound
<1>3. CASE lean' = L
  BY <1>1, <1>2, <1>3 DEF Kept, Good, SessionFaithful, NoNewStale, Stale, StaleKept
<1>4. CASE job.tool = "durable" /\ lean' = Restore(L, job.snap)
  <2>1. job.snap \in Snapshot BY DEF IInv, TypeOK, Job
  <2>2. /\ lean' \in Lean /\ Sound(lean', lean') /\ lean'.env = job.snap.env
    BY <1>4, <2>1, RestoreSound DEF Good
  <2> QED BY <1>1, <1>2, <1>4, <2>2 DEF Kept, SessionFaithful, NoNewStale
<1> QED BY <1>3, <1>4 DEF Finish

\* So does a tool that goes on to its next request.
LEMMA ContinueKept ==
    ASSUME IInv, NEW L, Good(L), NEW stage \in Stages,
           stage = "replay" => job.todo # <<>>, Continue(L, stage)
    PROVE  Kept
<1>1. /\ job' \in Job /\ job'.snap = job.snap /\ job'.todo = job.todo
      /\ job'.stage = stage /\ lean' = L
  BY DEF Continue, IInv, TypeOK, Job
<1> QED BY <1>1 DEF Kept, Good, SessionFaithful, ReplayHasWork, NoNewStale, Stale, StaleKept

\* So does a replay that goes on to its next command.
LEMMA AdvanceKept ==
    ASSUME IInv, job.stage = "replay", NEW L, Good(L), Advance(L)
    PROVE  Kept
<1>1. CASE Len(job.todo) = 1
  BY <1>1, FinishKept DEF Advance
<1>2. CASE Len(job.todo) # 1
  <2>1. job.todo \in Seq(SessionCmd) /\ job.todo # <<>>
    BY DEF IInv, TypeOK, Job, ReplayHasWork
  <2>2. Tail(job.todo) \in Seq(SessionCmd) /\ Tail(job.todo) # <<>>
    <3>1. /\ Tail(job.todo) \in Seq(SessionCmd)
          /\ Len(Tail(job.todo)) = Len(job.todo) - 1
      BY <2>1, HeadTailProperties
    <3>2. Len(job.todo) \in Nat /\ Len(job.todo) # 0
      BY <2>1, LenProperties, EmptySeq
    <3>3. Len(Tail(job.todo)) # 0
      BY <1>2, <3>1, <3>2
    <3> QED BY <3>1, <3>3, EmptySeq
  <2>3. lean' = L /\ job' = [job EXCEPT !.todo = Tail(job.todo)]
    BY <1>2 DEF Advance
  <2>4. /\ job' \in Job /\ job'.snap = job.snap /\ job'.todo = Tail(job.todo)
    BY <2>2, <2>3 DEF IInv, TypeOK, Job
  <2> QED BY <2>2, <2>3, <2>4
          DEF Kept, Good, SessionFaithful, ReplayHasWork, NoNewStale, Stale, StaleKept
<1> QED BY <1>1, <1>2

(***************************************************************************)
(* The actions                                                             *)
(***************************************************************************)
\* The live state is one the tool call may leave as it is.
LEMMA LeanGood == ASSUME IInv PROVE Good(lean)
BY DEF IInv, TypeOK, SessionFaithful, Good, StaleKept

\* Whatever a send leaves is good.
LEMMA SendGood ==
    ASSUME IInv, NEW cmd \in SessionCmd, NEW mode, NEW o \in Send(lean, cmd, mode)
    PROVE  o \in Outcomes /\ Good(o.lean)
<1>1. lean \in Lean /\ Sound(lean, lean) /\ job.snap \in Snapshot /\ Sound(lean, job.snap)
  BY DEF IInv, TypeOK, SessionFaithful, Job
<1>2. /\ o \in Outcomes /\ Sound(o.lean, o.lean) /\ Sound(o.lean, job.snap)
      /\ StaleKept(o.lean, lean)
  BY <1>1, SendSound
<1> QED BY <1>2 DEF Good, Outcomes

\* A request in a fresh environment leaves a session that fits, also once the
\* preamble is flagged as loaded.
LEMMA SendFreshGood ==
    ASSUME IInv, NEW cmd \in Cmd, NEW o \in SendFresh(lean, cmd)
    PROVE  /\ o \in Outcomes /\ Good(o.lean)
           /\ o.replied /\ o.ok /\ cmd.op = "preamble" => Good(PreambleLoaded(o.lean))
<1>1. lean \in Lean /\ Sound(lean, lean) /\ job.snap \in Snapshot /\ Sound(lean, job.snap)
  BY DEF IInv, TypeOK, SessionFaithful, Job
<1> DEFINE P == PreambleLoaded(o.lean)
<1>2. /\ o \in Outcomes /\ Sound(o.lean, o.lean) /\ Sound(o.lean, job.snap)
      /\ StaleKept(o.lean, lean)
      /\ o.replied /\ o.ok /\ cmd.op = "preamble" =>
            P \in Lean /\ Sound(P, P) /\ Sound(P, job.snap) /\ StaleKept(P, lean)
  BY <1>1, SendFreshSound
<1> HIDE DEF P
<1>3. Good(o.lean) BY <1>2 DEF Good, Outcomes
<1>4. o.replied /\ o.ok /\ cmd.op = "preamble" => Good(P) BY <1>2 DEF Good
<1> QED BY <1>2, <1>3, <1>4 DEF P

\* The commands the tools send are commands.
LEMMA CommandType ==
    ASSUME NEW s \in Snippet
    PROVE  /\ \A op \in {"thm", "uses", "example", "axioms"} : Command(op, s) \in SessionCmd
           /\ \A op \in {"preamble", "bridge"} : Command(op, s) \in Cmd /\ Command(op, s).op = op
           /\ Thm(s) \in SessionCmd
BY DEF Command, Cmd, SessionCmd, Thm

\* A tool call that starts, with a snapshot if it is durable.
LEMMA BeginKept ==
    ASSUME IInv, NEW new \in Job, Sound(lean, new.snap),
           new.stage = "replay" => new.todo # <<>>, Begin(new),
           notebook' \in Seq(Snippet), shelf' \in Seq(Snippet)
    PROVE  Kept /\ TypeOK'
<1>1. lean' = lean /\ job' = new /\ jobs' = jobs + 1 /\ UNCHANGED claims
  BY DEF Begin
<1>2. Kept
  BY <1>1 DEF IInv, TypeOK, SessionFaithful, Kept, ReplayHasWork, NoNewStale, Stale
<1>3. TypeOK'
  BY <1>1 DEF IInv, TypeOK
<1> QED BY <1>2, <1>3

\* A notebook becomes a list of commands, empty only when it is.
LEMMA NotebookCmdsType ==
    ASSUME NEW lemmas \in Seq(Snippet)
    PROVE  /\ NotebookCmds(lemmas) \in Seq(SessionCmd)
           /\ lemmas # <<>> => NotebookCmds(lemmas) # <<>>
<1>1. Len(lemmas) \in Nat
  BY LenProperties
<1>2. \A i \in 1..Len(lemmas) : Thm(lemmas[i]) \in SessionCmd
  BY <1>1, ElementOfSeq, CommandType
<1>3. NotebookCmds(lemmas) \in Seq(SessionCmd)
  BY <1>1, <1>2, IsASeq DEF NotebookCmds
<1>4. ASSUME lemmas # <<>> PROVE NotebookCmds(lemmas) # <<>>
  <2>1. 1 \in 1..Len(lemmas) BY <1>1, <1>4, EmptySeq
  <2>2. 1 \in DOMAIN NotebookCmds(lemmas) BY <2>1 DEF NotebookCmds
  <2> QED BY <2>2
<1> QED BY <1>3, <1>4

\* A replay that begins is a job without a snapshot.
LEMMA RebuildType ==
    ASSUME NEW tool \in Tools, NEW stage \in {"preamble", "replay"},
           NEW todo \in Seq(SessionCmd), NEW drop \in SUBSET Names
    PROVE  LET new == Rebuild(tool, stage, todo, drop) IN
           new \in Job /\ new.snap = NoSnapshot /\ new.stage = stage /\ new.todo = todo
<1>1. stage \in Stages BY DEF Stages
<1>2. Idle \in Job /\ Idle.snap = NoSnapshot BY IdleType
<1>3. Rebuild(tool, stage, todo, drop) =
        [Idle EXCEPT !.tool = tool, !.stage = stage, !.todo = todo, !.drop = drop]
  BY DEF Rebuild
<1> QED BY <1>1, <1>2, <1>3 DEF Job

\* Every way a tool call starts.
LEMMA StartKept ==
    ASSUME IInv, Start
    PROVE  Kept /\ TypeOK'
<1>1. /\ notebook \in Seq(Snippet) /\ notebook' \in Seq(Snippet)
      /\ shelf \in Seq(Snippet) /\ shelf' \in Seq(Snippet)
  BY DEF IInv, TypeOK, Start, StartTool, StartResume, BindSession
<1>2. lean \in Lean /\ Sound(lean, lean) /\ TypeOK
  BY DEF IInv, TypeOK, SessionFaithful
<1>3. \A tool \in Tools : \A stage \in {"preamble", "body"} : \A s \in Snippet :
        Call(tool, stage, s) \in Job /\ Call(tool, stage, s).snap = NoSnapshot
        /\ Call(tool, stage, s).stage = stage
  BY IdleType DEF Call, Job, Tools, Stages
<1>4. FirstStage \in {"preamble", "body"}
  BY DEF FirstStage
<1>5. ASSUME NEW s \in Snippet, NEW tool \in {"check", "typecheck", "search", "prove"},
             StartSessionTool(tool, s)
      PROVE  Kept /\ TypeOK'
  <2>1. tool \in Tools BY DEF Tools
  <2>2. Begin(Call(tool, FirstStage, s)) BY <1>5 DEF StartSessionTool
  <2>3. /\ Call(tool, FirstStage, s) \in Job
        /\ Call(tool, FirstStage, s).snap = NoSnapshot
        /\ Call(tool, FirstStage, s).stage = FirstStage
    BY <1>3, <1>4, <2>1
  <2> QED BY <1>1, <1>4, <2>2, <2>3, BeginKept, NoSnapshotSound
<1>6. ASSUME NEW s \in Snippet, StartDurable(s)
      PROVE  Kept /\ TypeOK'
  <2> DEFINE new == [Call("durable", "preamble", s) EXCEPT !.snap = TakeSnapshot(lean)]
  <2>1. TakeSnapshot(lean) \in Snapshot /\ Sound(lean, TakeSnapshot(lean))
    BY <1>2, TakenSound
  <2>2. Call("durable", "preamble", s) \in Job /\ Call("durable", "preamble", s).stage = "preamble"
    BY <1>3 DEF Tools
  <2>3. new \in Job /\ new.snap = TakeSnapshot(lean) /\ new.stage = "preamble"
    BY <2>1, <2>2 DEF Job
  <2>4. Begin(new) BY <1>6 DEF StartDurable
  <2> HIDE DEF new
  <2> QED BY <1>1, <2>1, <2>3, <2>4, BeginKept
<1>7. ASSUME NEW s \in Snippet, StartBridge(s)
      PROVE  Kept /\ TypeOK'
  <2>1. /\ Call("bridge", "body", s) \in Job /\ Call("bridge", "body", s).snap = NoSnapshot
        /\ Call("bridge", "body", s).stage = "body"
    BY <1>3 DEF Tools
  <2> QED BY <1>1, <1>7, <2>1, BeginKept, NoSnapshotSound DEF StartBridge
<1>9. ASSUME NEW n \in Names, StartRetract(n)
      PROVE  Kept /\ TypeOK'
  <2> DEFINE new == Rebuild("retract", "preamble", lean.cmds, {n})
  <2>1. new \in Job /\ new.snap = NoSnapshot /\ new.stage = "preamble"
    BY <1>2, RebuildType DEF Lean, Tools
  <2>2. Begin(new) BY <1>9 DEF StartRetract
  <2> HIDE DEF new
  <2> QED BY <1>1, <2>1, <2>2, BeginKept, NoSnapshotSound
<1>10. ASSUME StartReset PROVE Kept /\ TypeOK'
  <2> DEFINE new == Rebuild("reset", "preamble", NotebookCmds(notebook), {})
  <2>1. new \in Job /\ new.snap = NoSnapshot /\ new.stage = "preamble"
    BY <1>1, RebuildType, NotebookCmdsType DEF Tools
  <2>2. Begin(new) BY <1>10 DEF StartReset
  <2> HIDE DEF new
  <2> QED BY <1>1, <2>1, <2>2, BeginKept, NoSnapshotSound
<1>11. ASSUME NEW loaded \in Seq(Snippet), NEW left, BindSession(loaded, left)
       PROVE  Kept /\ TypeOK'
  <2> DEFINE stage == IF Ready(lean) THEN "replay" ELSE "preamble"
             new == Rebuild("resume", stage, NotebookCmds(loaded), {})
  <2>1. new \in Job /\ new.snap = NoSnapshot /\ new.todo = NotebookCmds(loaded)
    BY RebuildType, NotebookCmdsType DEF Tools
  <2>2. Begin(new) /\ loaded # <<>> BY <1>11 DEF BindSession
  <2>3. NotebookCmds(loaded) # <<>> BY <2>2, NotebookCmdsType
  <2> HIDE DEF new
  <2> QED BY <1>1, <2>1, <2>2, <2>3, BeginKept, NoSnapshotSound
<1>12. CASE StartTool BY <1>5, <1>6, <1>7, <1>9, <1>10, <1>12 DEF StartTool
<1>13. CASE StartResume BY <1>1, <1>11, <1>13 DEF StartResume
<1> QED BY <1>12, <1>13 DEF Start

\* /clear: only the notebook moves, to the shelf.
LEMMA ClearKept ==
    ASSUME IInv, Clear
    PROVE  Kept /\ TypeOK'
<1>1. UNCHANGED <<lean, job, jobs, claims>> /\ shelf' = notebook /\ notebook' = <<>>
  BY DEF Clear
<1>2. SessionFaithful'
  BY <1>1 DEF IInv, SessionFaithful, Sound, Holds
<1> QED BY <1>1, <1>2 DEF IInv, TypeOK, Kept, ReplayHasWork, NoNewStale, Stale

\* load_preamble: the cases of the rebuild, the import and what follows it.
LEMMA LoadPreambleKept ==
    ASSUME IInv, LoadPreamble
    PROVE  Kept
<1>1. job \in Job /\ job.s \in Snippet BY DEF IInv, TypeOK, Job
<1>2. CASE Finish(lean)
  BY <1>2, LeanGood, FinishKept
<1>3. ASSUME NEW k \in {"good", "bad"},
             NEW o \in SendFresh(lean, Command("preamble", [job.s EXCEPT !.kind = k])),
             IF o.replied /\ o.ok THEN AfterPreamble(PreambleLoaded(o.lean))
                                   ELSE Finish(o.lean)
      PROVE  Kept
  <2> DEFINE cmd == Command("preamble", [job.s EXCEPT !.kind = k])
             P == PreambleLoaded(o.lean)
  <2>1. [job.s EXCEPT !.kind = k] \in Snippet BY <1>1 DEF Snippet
  <2>2. cmd \in Cmd /\ cmd.op = "preamble" BY <2>1, CommandType
  <2>3. Good(o.lean) /\ (o.replied /\ o.ok => Good(P))
    BY <2>2, SendFreshGood
  <2>4. CASE ~(o.replied /\ o.ok)
    BY <1>3, <2>3, <2>4, FinishKept
  <2>5. CASE o.replied /\ o.ok
    <3> HIDE DEF P
    <3>1. Good(P) /\ AfterPreamble(P) BY <1>3, <2>3, <2>5 DEF P
    <3>2. CASE Finish(P) BY <3>1, <3>2, FinishKept
    <3>3. CASE \E stage \in {"install", "body"} : Continue(P, stage)
      <4>1. PICK stage \in {"install", "body"} : Continue(P, stage) BY <3>3
      <4>2. stage \in Stages BY DEF Stages
      <4> QED BY <3>1, <4>1, <4>2, ContinueKept
    <3>4. CASE job.todo # <<>> /\ Continue(P, "replay")
      <4>1. "replay" \in Stages BY DEF Stages
      <4> QED BY <3>1, <3>4, <4>1, ContinueKept
    <3> QED BY <3>1, <3>2, <3>3, <3>4 DEF AfterPreamble
  <2> QED BY <2>4, <2>5
<1> QED BY <1>2, <1>3 DEF LoadPreamble

\* The requests that end their tool call.
LEMMA LastRequestKept ==
    ASSUME IInv, Check \/ Typecheck \/ Search \/ Install
    PROVE  Kept /\ claims' \in SUBSET Claim
<1>1. job.s \in Snippet /\ claims \in SUBSET Claim BY DEF IInv, TypeOK, Job
<1>2. ASSUME NEW op \in {"thm", "uses", "example"}, NEW mode,
             NEW o \in Send(lean, Command(op, job.s), mode), Finish(o.lean)
      PROVE  Kept /\ o \in Outcomes
  <2>1. Command(op, job.s) \in SessionCmd BY <1>1, CommandType
  <2>2. o \in Outcomes /\ Good(o.lean) BY <2>1, SendGood
  <2> QED BY <1>2, <2>2, FinishKept
<1>3. ASSUME NEW kind \in {"proof", "stated", "check"}, NEW o \in Outcomes, Report(kind, o)
      PROVE  claims' \in SUBSET Claim
  BY <1>1, <1>3 DEF Report, Claim, Snippet, Outcomes
<1>4. CASE Check
  <2>0. PICK op \in {"thm", "uses"} : \E o \in Send(lean, Command(op, job.s), "commit") :
          Finish(o.lean) /\ IF o.ok THEN Report("check", o) ELSE UNCHANGED claims
    BY <1>4 DEF Check
  <2>1. PICK o \in Send(lean, Command(op, job.s), "commit") :
          Finish(o.lean) /\ IF o.ok THEN Report("check", o) ELSE UNCHANGED claims
    BY <2>0
  <2>2. Kept /\ o \in Outcomes BY <1>2, <2>1
  <2> QED BY <1>1, <1>3, <2>1, <2>2
<1>5. CASE Typecheck
  <2>1. PICK o \in Send(lean, Command("example", job.s), "transact") :
          Finish(o.lean) /\ IF o.ok THEN Report("stated", o) ELSE UNCHANGED claims
    BY <1>5 DEF Typecheck
  <2>2. Kept /\ o \in Outcomes BY <1>2, <2>1
  <2> QED BY <1>1, <1>3, <2>1, <2>2
<1>6. CASE Search
  BY <1>1, <1>2, <1>6 DEF Search
<1>7. CASE Install
  BY <1>1, <1>2, <1>7 DEF Install, Thm
<1> QED BY <1>4, <1>5, <1>6, <1>7

\* The requests that #print axioms follows.
LEMMA FirstRequestKept ==
    ASSUME IInv, Prove \/ Bridge
    PROVE  Kept
<1>1. job.s \in Snippet /\ "axioms" \in Stages BY DEF IInv, TypeOK, Job, Stages
<1>2. ASSUME NEW L, Good(L), Continue(L, "axioms") \/ Finish(L)
      PROVE  Kept
  <2>1. CASE Finish(L) BY <1>2, <2>1, FinishKept
  <2>2. CASE Continue(L, "axioms") BY <1>1, <1>2, <2>2, ContinueKept
  <2> QED BY <1>2, <2>1, <2>2
<1>3. CASE Prove
  <2>1. PICK o \in Send(lean, Thm(job.s), "transact") :
          IF o.ok THEN Continue(o.lean, "axioms") ELSE Finish(o.lean)
    BY <1>3 DEF Prove
  <2>2. Good(o.lean) BY <1>1, <2>1, CommandType, SendGood
  <2> QED BY <1>2, <2>1, <2>2
<1>4. CASE Bridge
  <2>1. PICK o \in SendFresh(lean, Command("bridge", job.s)) :
          IF o.ok THEN Continue(o.lean, "axioms") ELSE Finish(o.lean)
    BY <1>4 DEF Bridge
  <2>2. Good(o.lean) BY <1>1, <2>1, CommandType, SendFreshGood
  <2> QED BY <1>2, <2>1, <2>2
<1> QED BY <1>3, <1>4

\* Locking a lemma keeps the notebook a sequence of snippets.
LEMMA LockType ==
    ASSUME TypeOK, NEW s \in Snippet, Lock(s)
    PROVE  notebook' \in Seq(Snippet)
<1>1. notebook \in Seq(Snippet) BY DEF TypeOK
<1>2. Without(s.name) \in Seq(Snippet)
  <2>1. CASE Locked(s.name) = {} BY <1>1, <2>1 DEF Without
  <2>2. CASE Locked(s.name) # {}
    <3> DEFINE i == CHOOSE j \in Locked(s.name) : TRUE
    <3>1. i \in 1..Len(notebook) BY <2>2 DEF Locked
    <3> HIDE DEF i
    <3>2. Len(notebook) \in Nat /\ \A j \in 1..Len(notebook) : notebook[j] \in Snippet
      BY <1>1, LenProperties, ElementOfSeq
    <3>3. /\ SubSeq(notebook, 1, i - 1) \in Seq(Snippet)
          /\ SubSeq(notebook, i + 1, Len(notebook)) \in Seq(Snippet)
      BY <3>1, <3>2, SubSeqProperties
    <3>4. SubSeq(notebook, 1, i - 1) \o SubSeq(notebook, i + 1, Len(notebook)) \in Seq(Snippet)
      BY <3>3, ConcatProperties
    <3> QED BY <2>2, <3>4 DEF Without, i
  <2> QED BY <2>1, <2>2
<1> QED BY <1>2, AppendProperties DEF Lock

\* The axiom check keeps the invariant, whether it mints a claim or not.
LEMMA AxiomsKept ==
    ASSUME IInv, Axioms
    PROVE  Kept /\ claims' \in SUBSET Claim /\ notebook' \in Seq(Snippet)
<1>1. /\ job.s \in Snippet /\ claims \in SUBSET Claim /\ notebook \in Seq(Snippet)
      /\ job.snap \in Snapshot /\ TypeOK
  BY DEF IInv, TypeOK, Job
<1>2. PICK o \in Send(lean, Command("axioms", job.s), "commit") :
        IF ~Accepted(o)
        THEN Finish(o.lean) /\ UNCHANGED <<claims, notebook>>
        ELSE /\ Report("proof", o)
             /\ IF job.tool = "bridge" THEN UNCHANGED notebook ELSE Lock(job.s)
             /\ IF job.tool = "durable"
                THEN LET L == Restore(o.lean, job.snap) IN
                     Continue(L, IF Ready(L) THEN "install" ELSE "installPreamble")
                ELSE Finish(o.lean)
  BY DEF Axioms
<1>3. o \in Outcomes /\ Good(o.lean)
  BY <1>1, CommandType, SendGood
<1>4. CASE Finish(o.lean) /\ UNCHANGED <<claims, notebook>>
  BY <1>1, <1>3, <1>4, FinishKept
<1>5. CASE Report("proof", o) /\ (UNCHANGED notebook \/ Lock(job.s))
  <2>1. claims' \in SUBSET Claim
    BY <1>1, <1>3, <1>5 DEF Report, Claim, Snippet, Outcomes
  <2>2. notebook' \in Seq(Snippet)
    BY <1>1, <1>5, LockType
  <2>3. CASE Finish(o.lean)
    BY <1>3, <2>1, <2>2, <2>3, FinishKept
  <2>4. ASSUME job.tool = "durable",
               NEW stage \in {"install", "installPreamble"},
               Continue(Restore(o.lean, job.snap), stage)
        PROVE  Kept
    <3> DEFINE R == Restore(o.lean, job.snap)
    <3>1. R \in Lean /\ Sound(R, R) /\ Sound(R, job.snap) /\ R.env = job.snap.env
      BY <1>1, <1>3, RestoreSound DEF Good
    <3> HIDE DEF R
    <3>2. /\ job' \in Job /\ job'.snap = job.snap /\ job'.stage = stage /\ lean' = R
      BY <2>4 DEF Continue, IInv, TypeOK, Job, Stages, R
    <3> QED BY <2>4, <3>1, <3>2 DEF Kept, SessionFaithful, ReplayHasWork, NoNewStale
  <2> QED BY <1>2, <1>4, <2>1, <2>2, <2>3, <2>4
<1> QED BY <1>2, <1>4, <1>5

\* A replay step keeps the invariant.
LEMMA ReplayKept ==
    ASSUME IInv, Replay
    PROVE  Kept
<1>1. job.stage = "replay" /\ job.todo \in Seq(SessionCmd) /\ job.todo # <<>>
  BY DEF IInv, TypeOK, Job, ReplayHasWork, Replay
<1>2. Head(job.todo) \in SessionCmd
  BY <1>1, HeadTailProperties
<1>3. CASE Advance(lean)
  BY <1>1, <1>3, LeanGood, AdvanceKept
<1>4. ASSUME NEW o \in Send(lean, Head(job.todo), "transact"),
             Finish(o.lean) \/ Advance(o.lean)
      PROVE  Kept
  <2>1. Good(o.lean) BY <1>2, SendGood
  <2> QED BY <1>1, <1>4, <2>1, FinishKept, AdvanceKept
<1> QED BY <1>3, <1>4 DEF Replay

\* The process exits between two requests: nothing the session holds moves.
LEMMA ProcessExitKept ==
    ASSUME IInv, ProcessExit
    PROVE  Kept
<1>1. /\ lean' \in Lean /\ lean'.env = lean.env /\ lean'.gen = lean.gen
      /\ lean'.envs = lean.envs /\ lean'.loaded = lean.loaded /\ lean'.cmds = lean.cmds
      /\ job' = job
  BY DEF IInv, TypeOK, ProcessExit, Lean
<1>2. Sound(lean', lean') /\ Sound(lean', job'.snap)
  BY <1>1 DEF IInv, SessionFaithful, Sound, Holds
<1> QED BY <1>1, <1>2 DEF IInv, TypeOK, Kept, SessionFaithful, ReplayHasWork, NoNewStale, Stale

\* Every step keeps the invariant and makes no session stale but by the
\* restore of a durable proof.
LEMMA NextKept ==
    ASSUME IInv, [Next]_vars
    PROVE  IInv' /\ [NoNewStale]_vars
<1>1. CASE UNCHANGED vars
  BY <1>1 DEF vars, IInv, TypeOK, SessionFaithful, ReplayHasWork, Sound, Holds
<1>2. CASE Start \/ Clear
  BY <1>2, StartKept, ClearKept DEF Kept, IInv
<1>3. /\ jobs \in Nat /\ claims \in SUBSET Claim
      /\ notebook \in Seq(Snippet) /\ shelf \in Seq(Snippet)
  BY DEF IInv, TypeOK
<1>4. CASE LoadPreamble
  BY <1>3, <1>4, LoadPreambleKept DEF LoadPreamble, Kept, IInv, TypeOK
<1>5. CASE Check \/ Typecheck \/ Search \/ Install
  BY <1>3, <1>5, LastRequestKept DEF Check, Typecheck, Search, Install, Kept, IInv, TypeOK
<1>6. CASE Prove \/ Bridge
  BY <1>3, <1>6, FirstRequestKept DEF Prove, Bridge, Kept, IInv, TypeOK
<1>7. CASE Axioms
  BY <1>3, <1>7, AxiomsKept DEF Axioms, Kept, IInv, TypeOK
<1>8. CASE Replay
  BY <1>3, <1>8, ReplayKept DEF Replay, Kept, IInv, TypeOK
<1>9. CASE ProcessExit
  BY <1>3, <1>9, ProcessExitKept DEF ProcessExit, Kept, IInv, TypeOK
<1> QED BY <1>1, <1>2, <1>4, <1>5, <1>6, <1>7, <1>8, <1>9 DEF Next, Step

\* The program begins with a session that nothing was sent in.
LEMMA InitKept == ASSUME Init PROVE IInv
<1>1. <<>> \in Seq(SessionCmd) /\ <<>> \in Seq(Context) /\ <<>> \in Seq(Snippet)
  OBVIOUS
<1>2. lean \in Lean /\ Sound(lean, lean)
  BY <1>1 DEF Init, Lean, EnvRefs, Sound
<1>3. Sound(lean, job.snap) /\ job \in Job /\ job.stage = "idle"
  BY IdleType, NoSnapshotSound DEF Init
<1> QED BY <1>1, <1>2, <1>3 DEF Init, IInv, TypeOK, SessionFaithful, ReplayHasWork

(***************************************************************************)
(* The theorems                                                            *)
(***************************************************************************)
\* The inductive invariant holds in every reachable state.
THEOREM Invariance == Spec => []IInv
<1>1. Init => IInv BY InitKept
<1>2. IInv /\ [Next]_vars => IInv' BY NextKept
<1> QED BY <1>1, <1>2, PTL DEF Spec

\* Every variable keeps its type: the lean_repl.py fields, the tool call, the
\* ledger's claims and the lemma notebooks of the two sessions.
THEOREM TypeCorrect == Spec => []TypeOK
<1>1. IInv => TypeOK BY DEF IInv
<1> QED BY <1>1, Invariance, PTL

\* lean_repl.py 259-401: _env, _preamble_loaded and _session_cmds, and every
\* snapshot of them, agree with the process unless their id is a dead one's.
THEOREM SessionIsFaithful == Spec => []SessionFaithful
<1>1. IInv => SessionFaithful BY DEF IInv
<1> QED BY <1>1, Invariance, PTL

\* lean_repl.py 305-314: only the restore of a durable proof can make the
\* session stale.
THEOREM StaleOnlyByRestore == Spec => OnlyRestoreGoesStale
<1>1. IInv /\ [Next]_vars => [NoNewStale]_vars BY NextKept
<1>2. [NoNewStale]_vars => [Stale(lean.env)' /\ ~Stale(lean.env) =>
            job.tool = "durable" /\ lean'.env = job.snap.env]_vars
  BY DEF NoNewStale
<1> QED BY <1>1, <1>2, Invariance, PTL DEF Spec, OnlyRestoreGoesStale

=============================================================================
