------------------------- MODULE LeanSessionActions -------------------------
(***************************************************************************)
(* More proofs about LeanSession, for every value of its constants: what    *)
(* one tool call does to the session from its first request to its last. A  *)
(* proof that the kernel did not give takes two processes; a durable proof  *)
(* leaves the session as it found it; a reset and a resume put the locked   *)
(* lemmas back.                                                            *)
(*                                                                         *)
(* They rest on the invariant IInv of LeanSessionProofs, and on one         *)
(* invariant per kind of tool call that says how far the call has come.     *)
(***************************************************************************)
EXTENDS LeanSessionProofs

-----------------------------------------------------------------------------
(***************************************************************************)
(* What may become of a request                                            *)
(***************************************************************************)
\* There was no process and none could be started: the request raises.
NoProcess(L, o) == o.lean = L /\ ~o.ok /\ ~o.replied /\ L.proc = "down"

\* The process was lost: what runs now, if anything, is a later one.
Lost(L, o) ==
    /\ o.lean.gen >= L.gen /\ ~o.lean.loaded
    /\ o.lean.gen = L.gen => o.lean.proc = "down" /\ ~o.ok

\* The process answers, no process does, or the process is lost.
LEMMA SendCases ==
    ASSUME NEW L \in Lean, NEW cmd \in SessionCmd, NEW mode, NEW o \in Send(L, cmd, mode)
    PROVE  \/ L.proc = "up" /\ o = Commit(Answer(L, L.env, cmd), cmd, mode)
           \/ NoProcess(L, o)
           \/ Lost(L, o)
<1>1. PICK r \in Request(L, L.env, cmd) : o = Commit(r, cmd, mode) BY DEF Send
<1>2. PICK M : /\ Later(M, L)
               /\ \/ r = Raised(M) /\ (M = L => L.proc = "down")
                  \/ M.proc = "up" /\ r = Answer(M, L.env, cmd)
  BY <1>1, RequestOutcome DEF Outcome
<1>3. M \in Lean /\ L.env \in EnvRefs /\ cmd \in Cmd BY <1>2 DEF Later, Lean, SessionCmd
<1>4. r \in Outcomes BY <1>2, <1>3, OutcomeType
<1>5. CASE r = Raised(M) /\ (M = L => L.proc = "down")
  <2>1. r.env = NoEnv /\ r.lean = M /\ ~r.ok /\ ~r.replied BY <1>5 DEF Raised
  <2>2. o = r BY <1>1, <2>1 DEF Commit
  <2>3. CASE M = L BY <1>5, <2>1, <2>2, <2>3 DEF NoProcess
  <2>4. CASE M # L
    BY <1>2, <1>3, <2>1, <2>2, <2>4 DEF Later, Forfeited, Lost, Lean
  <2> QED BY <2>3, <2>4
<1>6. CASE M.proc = "up" /\ r = Answer(M, L.env, cmd)
  <2>1. r.lean.gen = M.gen /\ r.lean.loaded = M.loaded BY <1>3, <1>6, AnswerFacts
  <2>2. o.lean.gen = M.gen /\ o.lean.loaded = M.loaded
    BY <1>1, <1>4, <2>1, CommitFacts
  <2>3. CASE M = L BY <1>1, <1>6, <2>3
  <2>4. CASE M # L
    BY <1>2, <1>3, <1>6, <2>2, <2>4 DEF Later, Forfeited, Lost, Lean
  <2> QED BY <2>3, <2>4
<1> QED BY <1>2, <1>5, <1>6

-----------------------------------------------------------------------------
(***************************************************************************)
(* Proofs that the kernel did not give                                     *)
(***************************************************************************)
\* The axioms a process lists of a name in an environment it issued are those of the
\* declaration: what passes is proved, or of a bridge.
LEMMA AcceptedIsReal ==
    ASSUME NEW L \in Lean, Sound(L, L), L.env = NoEnv \/ L.env.by = L.gen, NEW s \in Snippet,
           NEW o, o = Commit(Answer(L, L.env, Command("axioms", s)), Command("axioms", s), "commit"),
           Accepted(o)
    PROVE  o.real
<1> DEFINE cmd == Command("axioms", s)
           r == Answer(L, L.env, cmd)
           c == Within(L, L.env)
<1>1. cmd \in SessionCmd /\ cmd \in Cmd /\ cmd.op = "axioms" /\ cmd.s = s
  BY CommandType DEF SessionCmd, Command
<1>2. L.env \in EnvRefs BY DEF Lean
<1>3. Knows(L, L.env)
  BY <1>2, LenProperties DEF Knows, Sound, EnvRefs, EnvRef, Lean
<1>4. /\ r.ok = Elaborates(c, cmd)
      /\ r.hole = (cmd.op = "axioms" /\ c.decl[cmd.s.name] = "hole")
      /\ r.real = IF cmd.op = "axioms" THEN c.base = "bridge" \/ c.decl[cmd.s.name] = "proved"
                  ELSE Elaborates(c, cmd)
  BY <1>3 DEF Answer
<1>5. r \in Outcomes BY <1>1, <1>2, OutcomeType
<1> HIDE DEF cmd
<1>6. o.ok = r.ok /\ o.hole = r.hole /\ o.real = r.real
  <2> HIDE DEF r
  <2>1. o = Commit(r, cmd, "commit") BY DEF r, cmd
  <2> QED BY <1>1, <1>5, <2>1, CommitFacts
<1>7. c \in Context
  BY <1>2, <1>3, FreshType, ElementOfSeq DEF Knows, Within, Lean, EnvRefs, EnvRef
<1>8. c.decl[s.name] \in {"absent", "proved", "hole"} BY <1>7 DEF Context, Snippet
<1> HIDE DEF c, r
<1>9. Elaborates(c, cmd) /\ c.decl[s.name] # "hole" BY <1>1, <1>4, <1>6 DEF Accepted
<1>10. c.decl[s.name] # "absent" \/ c.base = "bridge"
  BY <1>1, <1>9 DEF Elaborates
<1> QED BY <1>1, <1>4, <1>6, <1>8, <1>9, <1>10

\* A claim that a step mints without what it says of the process.
FalseProof(c) == c \in claims' \ claims /\ c.kind = "proof" /\ ~c.real

\* Only the axiom check mints proofs, and a false one only across processes.
LEMMA FalseProofStep ==
    ASSUME IInv, Next, NEW c, FalseProof(c)
    PROVE  Stale(lean.env) \/ lean.proc # "up" \/ lean'.gen # lean.gen
<1>1. lean \in Lean /\ Sound(lean, lean) /\ job \in Job /\ job.s \in Snippet
  BY DEF IInv, TypeOK, SessionFaithful, Job
<1>2. Axioms
  <2>1. ASSUME Check \/ Typecheck PROVE FALSE
    <3>1. claims' = claims \/ \E kind \in {"check", "stated"} : \E o : Report(kind, o)
      BY <2>1 DEF Check, Typecheck
    <3>2. PICK kind \in {"check", "stated"} : \E o : Report(kind, o)
      BY <3>1 DEF FalseProof
    <3>4. PICK o : Report(kind, o) BY <3>2
    <3>3. c = [kind |-> kind, name |-> job.s.name, real |-> o.real]
      BY <3>4 DEF Report, FalseProof
    <3> QED BY <3>2, <3>3 DEF FalseProof
  <2>2. ASSUME UNCHANGED claims PROVE FALSE BY <2>2 DEF FalseProof
  <2>3. Start => UNCHANGED claims
    BY DEF Start, StartTool, StartResume, StartSessionTool, StartDurable, StartBridge,
       StartRetract, StartReset, BindSession, Begin
  <2>4. Clear \/ LoadPreamble \/ Search \/ Prove \/ Bridge \/ Install \/ Replay \/ ProcessExit
          => UNCHANGED claims
    BY DEF Clear, LoadPreamble, Search, Prove, Bridge, Install, Replay, ProcessExit
  <2> QED BY <2>1, <2>2, <2>3, <2>4 DEF Next, Step
<1> DEFINE cmd == Command("axioms", job.s)
<1>3. PICK o \in Send(lean, cmd, "commit") :
        IF ~Accepted(o)
        THEN Finish(o.lean) /\ UNCHANGED <<claims, notebook>>
        ELSE /\ Report("proof", o)
             /\ IF job.tool = "bridge" THEN UNCHANGED notebook ELSE Lock(job.s)
             /\ IF job.tool = "durable"
                THEN LET L == Restore(o.lean, job.snap) IN
                     Continue(L, IF Ready(L) THEN "install" ELSE "installPreamble")
                ELSE Finish(o.lean)
  BY <1>2 DEF Axioms
<1>4. cmd \in SessionCmd BY <1>1, CommandType
<1>5. Accepted(o) /\ Report("proof", o) BY <1>3 DEF FalseProof
<1>6. ~o.real BY <1>5 DEF Report, FalseProof
<1>7. lean'.gen = o.lean.gen
  <2>1. o.lean \in Lean BY <1>4, <1>3, SendGood DEF Outcomes
  <2>2. Restore(o.lean, job.snap).gen = o.lean.gen BY <2>1 DEF Restore, Lean
  <2>3. lean' = o.lean \/ lean' = Restore(o.lean, job.snap)
    BY <1>3 DEF Finish, Continue
  <2> QED BY <2>2, <2>3
<1>8. CASE lean.proc = "up" /\ o = Commit(Answer(lean, lean.env, cmd), cmd, "commit")
  <2>1. ~(lean.env = NoEnv \/ lean.env.by = lean.gen)
    BY <1>1, <1>5, <1>6, <1>8, AcceptedIsReal
  <2> QED BY <2>1 DEF Stale
<1>9. CASE NoProcess(lean, o) BY <1>5, <1>9 DEF NoProcess, Accepted
<1>10. CASE Lost(lean, o) BY <1>5, <1>7, <1>10 DEF Lost, Accepted
<1> HIDE DEF cmd
<1> QED BY <1>1, <1>3, <1>4, <1>8, <1>9, <1>10, SendCases

\* lean_tools.py 155-237, ledger.py: a proof that the kernel did not give is minted only
\* from a stale session, or when the process that lists the axioms is not the one that
\* elaborated the snippet.
THEOREM FalseProofTakesTwoProcesses == Spec => FalseProofOnlyAcrossProcesses
<1> DEFINE A == \A c \in claims' \ claims :
                  c.kind = "proof" /\ ~c.real =>
                      Stale(lean.env) \/ lean.proc # "up" \/ lean'.gen # lean.gen
<1>1. IInv /\ [Next]_vars => [A]_vars BY FalseProofStep DEF FalseProof
<1>2. [][A]_vars <=> FalseProofOnlyAcrossProcesses BY DEF FalseProofOnlyAcrossProcesses
<1> HIDE DEF A
<1> QED BY <1>1, <1>2, Invariance, PTL DEF Spec

-----------------------------------------------------------------------------
(***************************************************************************)
(* A request against an environment of the live process                    *)
(***************************************************************************)
\* The session's environment is one the process L issued.
Live(L) == L.env # NoEnv /\ L.env.by = L.gen

\* The context the session is in.
Here(L) == L.envs[L.env.k]

\* What a transactional send leaves when the process answers: the environments
\* issued stay, and the session moves to the context after the command or, when
\* that does not elaborate, stays where it is.
Transacted(L, cmd, o) ==
    /\ o.lean \in Lean /\ o.replied /\ Live(o.lean)
    /\ o.lean.gen = L.gen /\ o.lean.proc = L.proc /\ o.lean.loaded = L.loaded
    /\ \A i \in 1..Len(L.envs) : o.lean.envs[i] = L.envs[i]
    /\ L.env.k \in 1..Len(L.envs) /\ Here(L) \in Context
    /\ \/ /\ Elaborates(Here(L), cmd)
          /\ Here(o.lean) = After(Here(L), cmd)
          /\ o.lean.cmds = Append(L.cmds, cmd)
       \/ /\ ~Elaborates(Here(L), cmd)
          /\ o.lean.env = L.env /\ Here(o.lean) = Here(L) /\ o.lean.cmds = L.cmds

\* That is what the answer to a send leaves.
LEMMA AnswerTransacts ==
    ASSUME NEW L \in Lean, Sound(L, L), Live(L), NEW cmd \in SessionCmd,
           NEW o, o = Commit(Answer(L, L.env, cmd), cmd, "transact")
    PROVE  Transacted(L, cmd, o)
<1> DEFINE e == L.env
           r == Answer(L, e, cmd)
           c == Here(L)
<1>1. e \in EnvRef /\ e \in EnvRefs /\ cmd \in Cmd BY DEF Lean, EnvRefs, Live, SessionCmd
<1>2. Len(L.envs) \in Nat /\ L.envs \in Seq(Context) BY LenProperties DEF Lean
<1>3. e.k \in 1..Len(L.envs)
  <2>1. e.k <= Len(L.envs) BY DEF Sound, Live
  <2> QED BY <1>1, <1>2, <2>1 DEF EnvRef
<1>4. Knows(L, e) /\ Within(L, e) = c BY <1>3 DEF Knows, Within, Live, Here
<1>5. c \in Context BY <1>2, <1>3, ElementOfSeq DEF Here
<1>6. r.replied /\ r.ok = Elaborates(c, cmd) BY <1>4 DEF Answer
<1>7. r \in Outcomes BY <1>1, OutcomeType
<1>8. /\ r.lean \in Lean /\ r.lean.gen = L.gen /\ r.lean.proc = L.proc
      /\ r.lean.env = e /\ r.lean.loaded = L.loaded /\ r.lean.cmds = L.cmds
      /\ r.lean.envs = Append(L.envs, After(c, cmd))
      /\ r.env \in EnvRef /\ r.env.k = Len(L.envs) + 1 /\ r.env.by = e.by
  <2>1. r.env \in EnvRef BY <1>1, <1>2, <1>4 DEF Answer, EnvRef, Live
  <2>2. r.env # NoEnv BY <2>1, NoEnvIsNotAnId
  <2> QED BY <1>1, <1>4, <2>2, AnswerFacts DEF Extended, Live
<1>9. After(c, cmd) \in Context BY <1>1, <1>5, AfterContext
<1>10. /\ Len(r.lean.envs) = Len(L.envs) + 1
       /\ \A i \in 1..Len(L.envs) : r.lean.envs[i] = L.envs[i]
       /\ r.lean.envs[Len(L.envs) + 1] = After(c, cmd)
  BY <1>2, <1>8, <1>9, AppendProperties
<1>11. r.env # NoEnv BY <1>8, NoEnvIsNotAnId
<1> HIDE DEF r, c
<1>12. CASE r.ok
  <2>1. o = [r EXCEPT !.lean.env = r.env, !.lean.cmds = Append(r.lean.cmds, cmd)]
    BY <1>11, <1>12 DEF Commit, r
  <2>2. /\ o.replied = r.replied
        /\ o.lean = [[r.lean EXCEPT !.env = r.env] EXCEPT !.cmds = Append(L.cmds, cmd)]
    BY <1>7, <1>8, <2>1 DEF Outcomes, Lean
  <2>3. Append(L.cmds, cmd) \in Seq(SessionCmd) BY AppendProperties DEF Lean
  <2>4. /\ o.lean \in Lean /\ o.lean.gen = L.gen /\ o.lean.proc = L.proc
        /\ o.lean.loaded = L.loaded /\ o.lean.envs = r.lean.envs
        /\ o.lean.env = r.env /\ o.lean.cmds = Append(L.cmds, cmd)
    BY <1>8, <2>2, <2>3 DEF Lean, EnvRefs
  <2>5. Here(o.lean) = After(c, cmd) BY <1>8, <1>10, <2>4 DEF Here
  <2> QED BY <1>3, <1>5, <1>6, <1>8, <1>10, <1>11, <1>12, <2>2, <2>4, <2>5
          DEF Transacted, Live, c
<1>13. CASE ~r.ok
  <2>1. o = r BY <1>13 DEF Commit, r
  <2>2. Here(o.lean) = c BY <1>3, <1>8, <1>10, <2>1 DEF Here, c
  <2> QED BY <1>3, <1>5, <1>6, <1>8, <1>10, <1>13, <2>1, <2>2 DEF Transacted, Live, c
<1> QED BY <1>12, <1>13

\* A command other than an import changes the declaration of its own name only.
LEMMA AfterOthers ==
    ASSUME NEW c \in Context, NEW cmd \in SessionCmd, NEW n \in Names, n # cmd.s.name
    PROVE  After(c, cmd).decl[n] = c.decl[n]
<1>1. cmd \in Cmd /\ cmd.op \notin {"preamble", "bridge"} /\ cmd.s.name \in Names
  BY DEF SessionCmd, Cmd, Snippet
<1>2. CASE cmd.op = "thm" /\ c.base = "corpus" /\ c.decl[cmd.s.name] = "absent"
  <2> DEFINE v == IF Elaborates(c, cmd) /\ ~Tainted(c, cmd.s) THEN "proved" ELSE "hole"
  <2>1. After(c, cmd) = [c EXCEPT !.decl[cmd.s.name] = v] BY <1>2 DEF After
  <2> HIDE DEF v
  <2> QED BY <1>1, <2>1 DEF Context
<1>3. CASE ~(cmd.op = "thm" /\ c.base = "corpus" /\ c.decl[cmd.s.name] = "absent")
  <2>1. After(c, cmd) = c BY <1>1, <1>3 DEF After
  <2> QED BY <2>1
<1> QED BY <1>2, <1>3
-----------------------------------------------------------------------------
(***************************************************************************)
(* Durable proofs                                                          *)
(***************************************************************************)
\* A durable proof has its stages, and the session it found is back, if it can
\* be worked in, by the time its lemma is installed.
DurableInv ==
    job.tool = "durable" =>
        /\ job.stage \in {"preamble", "body", "axioms", "installPreamble", "install"}
        /\ Ready(job.snap) =>
             /\ job.stage # "installPreamble"
             /\ job.stage = "install" =>
                  /\ lean.env = job.snap.env /\ lean.loaded = job.snap.loaded
                  /\ lean.cmds = job.snap.cmds

\* The call that follows no other is not a durable proof.
LEMMA IdleIsNot == Idle.tool = "check" /\ Idle.stage = "idle"
BY DEF Idle

\* A call begins with its first request, a durable proof with the preamble.
LEMMA DurableStart ==
    ASSUME IInv, Start
    PROVE  job'.tool = "durable" => job'.stage = "preamble"
<1>1. Idle \in Job BY IdleType
<1>2. ASSUME NEW tool, NEW stage, NEW s, Begin(Call(tool, stage, s))
      PROVE  job'.tool = tool
  BY <1>1, <1>2 DEF Begin, Call, Job
<1>3. ASSUME NEW tool, NEW stage, NEW todo, NEW drop, Begin(Rebuild(tool, stage, todo, drop))
      PROVE  job'.tool = tool
  BY <1>1, <1>3 DEF Begin, Rebuild, Job
<1>4. ASSUME NEW s, StartDurable(s) PROVE job'.stage = "preamble"
  <2> DEFINE new == Call("durable", "preamble", s)
  <2>1. new.stage = "preamble" /\ DOMAIN new = DOMAIN Idle BY <1>1 DEF Call, Job
  <2>2. job' = [new EXCEPT !.snap = TakeSnapshot(lean)] BY <1>4 DEF StartDurable, Begin
  <2> HIDE DEF new
  <2> QED BY <2>1, <2>2
<1>5. CASE StartTool
  BY <1>2, <1>3, <1>4, <1>5
     DEF StartTool, StartSessionTool, StartBridge, StartRetract, StartReset
<1>6. CASE StartResume
  BY <1>3, <1>6 DEF StartResume, BindSession
<1> QED BY <1>5, <1>6 DEF Start

\* A call that goes on to another request is still the same call.
LEMMA ContinueIs ==
    ASSUME job \in Job, NEW L, NEW stage, Continue(L, stage)
    PROVE  /\ lean' = L /\ job'.stage = stage /\ job'.tool = job.tool /\ job'.s = job.s
           /\ job'.snap = job.snap /\ job'.todo = job.todo /\ job'.drop = job.drop
BY DEF Continue, Job

\* Every step keeps DurableInv.
LEMMA DurableStep ==
    ASSUME IInv, DurableInv, [Next]_vars
    PROVE  DurableInv'
<1>0. job \in Job /\ lean \in Lean BY DEF IInv, TypeOK
<1>1. CASE UNCHANGED vars \/ Clear
  BY <1>1 DEF vars, Clear, DurableInv, Ready
<1>2. CASE Start
  BY <1>2, DurableStart DEF DurableInv
<1>3. ASSUME NEW L, Finish(L) PROVE DurableInv'
  <2>1. job' = Idle BY <1>3 DEF Finish
  <2> QED BY <2>1, IdleIsNot DEF DurableInv
<1>4. ASSUME NEW L, Continue(L, "axioms") \/ Continue(L, "body") PROVE DurableInv'
  BY <1>0, <1>4, ContinueIs DEF DurableInv
<1>5. CASE LoadPreamble
  <2>1. job.stage \in {"preamble", "installPreamble"} BY <1>5 DEF LoadPreamble
  <2>2. \/ \E L : Finish(L)
        \/ \E L : AfterPreamble(L)
    BY <1>5 DEF LoadPreamble
  <2>3. ASSUME NEW L, AfterPreamble(L) PROVE DurableInv'
    <3>1. CASE job.stage = "installPreamble" /\ Continue(L, "install")
      <4>1. /\ job'.tool = job.tool /\ job'.snap = job.snap /\ job'.stage = "install"
        BY <1>0, <3>1, ContinueIs
      <4>2. job.tool = "durable" => ~Ready(job.snap) BY <3>1 DEF DurableInv
      <4> QED BY <4>1, <4>2 DEF DurableInv, Ready
    <3>2. CASE job.tool # "durable" /\ Continue(L, "replay")
      <4>1. job'.tool = job.tool BY <1>0, <3>2, ContinueIs
      <4> QED BY <3>2, <4>1 DEF DurableInv
    <3> QED BY <1>3, <1>4, <2>3, <3>1, <3>2 DEF AfterPreamble
  <2> QED BY <1>3, <2>2, <2>3
<1>6. CASE Check \/ Typecheck \/ Search \/ Install
  BY <1>3, <1>6 DEF Check, Typecheck, Search, Install
<1>7. CASE Prove \/ Bridge
  BY <1>3, <1>4, <1>7 DEF Prove, Bridge
<1>8. CASE Axioms
  <2>1. \/ \E L : Finish(L)
        \/ \E L : /\ job.tool = "durable"
                  /\ Continue(Restore(L, job.snap),
                              IF Ready(Restore(L, job.snap)) THEN "install" ELSE "installPreamble")
                  /\ L \in Lean
    <3>1. PICK o \in Send(lean, Command("axioms", job.s), "commit") :
            IF ~Accepted(o)
            THEN Finish(o.lean) /\ UNCHANGED <<claims, notebook>>
            ELSE /\ Report("proof", o)
                 /\ IF job.tool = "bridge" THEN UNCHANGED notebook ELSE Lock(job.s)
                 /\ IF job.tool = "durable"
                    THEN LET L == Restore(o.lean, job.snap) IN
                         Continue(L, IF Ready(L) THEN "install" ELSE "installPreamble")
                    ELSE Finish(o.lean)
      BY <1>8 DEF Axioms
    <3>2. job.s \in Snippet BY <1>0 DEF Job
    <3>3. o.lean \in Lean BY <3>1, <3>2, CommandType, SendGood DEF Outcomes
    <3> QED BY <3>1, <3>3
  <2>2. ASSUME NEW L \in Lean, job.tool = "durable",
               Continue(Restore(L, job.snap),
                        IF Ready(Restore(L, job.snap)) THEN "install" ELSE "installPreamble")
        PROVE  DurableInv'
    <3> DEFINE R == Restore(L, job.snap)
               stage == IF Ready(R) THEN "install" ELSE "installPreamble"
    <3>1. /\ R.env = job.snap.env /\ R.loaded = job.snap.loaded /\ R.cmds = job.snap.cmds
      BY DEF Restore, Lean
    <3>2. Ready(R) = Ready(job.snap) BY <3>1 DEF Ready
    <3> HIDE DEF R
    <3>3. lean' = R /\ job'.stage = stage /\ job'.snap = job.snap
      BY <1>0, <2>2, ContinueIs DEF R
    <3> QED BY <3>1, <3>2, <3>3 DEF DurableInv, Ready
  <2> QED BY <1>3, <2>1, <2>2
<1>9. CASE Replay
  <2>1. job.tool # "durable" BY <1>9 DEF Replay, DurableInv
  <2>2. ASSUME NEW L, Advance(L) PROVE DurableInv'
    <3>1. CASE Finish(L) BY <1>3, <3>1
    <3>2. CASE job' = [job EXCEPT !.todo = Tail(@)]
      <4>1. job'.tool = job.tool BY <1>0, <3>2 DEF Job
      <4> QED BY <2>1, <4>1 DEF DurableInv
    <3> QED BY <2>2, <3>1, <3>2 DEF Advance
  <2> QED BY <1>3, <1>9, <2>2 DEF Replay
<1>10. CASE ProcessExit
  <2>1. /\ lean'.env = lean.env /\ lean'.loaded = lean.loaded /\ lean'.cmds = lean.cmds
        /\ job' = job
    BY <1>0, <1>10 DEF ProcessExit, Lean
  <2> QED BY <2>1 DEF DurableInv, Ready
<1> QED BY <1>1, <1>2, <1>5, <1>6, <1>7, <1>8, <1>9, <1>10 DEF Next, Step

\* What a step that ends a call is: the Finish of one of its requests.
LEMMA EndsByFinish ==
    ASSUME IInv, Next, job.stage # "idle", job'.stage = "idle"
    PROVE  Step /\ ~Start /\ ~Clear /\ ~ProcessExit
BY DEF Next, Start, StartTool, StartSessionTool, StartDurable, StartBridge, StartRetract,
       StartReset, StartResume, BindSession, Begin, Clear, ProcessExit
\* A durable proof that ended with the process it began with.
Survived ==
    /\ job.tool = "durable" /\ job.stage # "idle" /\ job'.stage = "idle"
    /\ job.snap.loaded /\ job.snap.env # NoEnv
    /\ job.snap.env.by = lean'.gen /\ lean'.proc # "down"

\* The session is what it was, up to the lemma installed.
SessionKept ==
    /\ lean'.loaded /\ lean'.env # NoEnv
    /\ Len(job.snap.cmds) <= Len(lean'.cmds)
    /\ SubSeq(lean'.cmds, 1, Len(job.snap.cmds)) = job.snap.cmds
    /\ \A n \in Names \ {job.s.name} :
          lean'.envs[lean'.env.k].decl[n] = lean'.envs[job.snap.env.k].decl[n]

\* A list of commands is what it begins with, also when one was appended.
LEMMA BeginsWith ==
    ASSUME NEW cmds \in Seq(SessionCmd), NEW cmd \in SessionCmd, NEW more,
           more = cmds \/ more = Append(cmds, cmd)
    PROVE  Len(cmds) <= Len(more) /\ SubSeq(more, 1, Len(cmds)) = cmds
<1>1. Len(cmds) \in Nat /\ (\A i \in 1..Len(cmds) : cmds[i] \in SessionCmd)
  BY LenProperties, ElementOfSeq
<1>2. /\ more \in Seq(SessionCmd) /\ Len(cmds) <= Len(more)
      /\ \A i \in 1..Len(cmds) : more[i] = cmds[i]
  BY <1>1, AppendProperties
<1>3. Len(more) \in Nat /\ \A i \in 1..Len(more) : more[i] \in SessionCmd
  BY <1>2, LenProperties, ElementOfSeq
<1>4. CASE cmds = <<>>
  <2>1. Len(cmds) = 0 BY <1>4, EmptySeq
  <2>2. SubSeq(more, 1, 0) = <<>> BY <1>2, <1>3, SubSeqProperties
  <2> QED BY <1>2, <1>4, <2>1, <2>2
<1>5. CASE cmds # <<>>
  <2>1. Len(cmds) > 0 BY <1>1, <1>5, EmptySeq
  <2> DEFINE sub == SubSeq(more, 1, Len(cmds))
  <2>2. /\ sub \in Seq(SessionCmd) /\ Len(sub) = Len(cmds)
        /\ \A i \in 1..Len(cmds) : sub[i] = more[i]
    BY <1>1, <1>2, <1>3, <2>1, SubSeqProperties
  <2> HIDE DEF sub
  <2>3. sub = cmds BY <1>2, <2>2, SeqEqual
  <2> QED BY <1>2, <2>3 DEF sub
<1> QED BY <1>4, <1>5

\* The install of a surviving durable proof.
LEMMA InstallKeeps ==
    ASSUME IInv, DurableInv, Install, Survived
    PROVE  SessionKept
<1> DEFINE cmd == Thm(job.s)
           snap == job.snap
<1>1. /\ lean \in Lean /\ Sound(lean, lean) /\ Sound(lean, snap) /\ job.s \in Snippet
      /\ snap \in Snapshot
  BY DEF IInv, TypeOK, SessionFaithful, Job
<1>2. cmd \in SessionCmd /\ cmd.s = job.s BY <1>1, CommandType DEF Thm, Command
<1>3. PICK o \in Send(lean, cmd, "transact") : lean' = o.lean
  BY DEF Install, Finish
<1>4. /\ lean.env = snap.env /\ lean.loaded = snap.loaded /\ lean.cmds = snap.cmds
      /\ snap.loaded /\ snap.env # NoEnv
      /\ snap.env.by = lean'.gen /\ lean'.proc # "down"
  BY DEF DurableInv, Survived, Ready, Install
<1>5. snap.env.by <= lean.gen BY <1>1, <1>4 DEF Sound
<1> HIDE DEF cmd
<1>6. CASE lean.proc = "up" /\ o = Commit(Answer(lean, lean.env, cmd), cmd, "transact")
  <2>1. o.lean.gen = lean.gen
    <3>1. Answer(lean, lean.env, cmd) \in Outcomes /\ Answer(lean, lean.env, cmd).lean.gen = lean.gen
      BY <1>1, <1>2, OutcomeType, AnswerFacts DEF SessionCmd, Lean
    <3> QED BY <1>2, <1>6, <3>1, CommitFacts
  <2>2. Live(lean) BY <1>3, <1>4, <2>1 DEF Live
  <2>3. Transacted(lean, cmd, o) BY <1>1, <1>2, <1>6, <2>2, AnswerTransacts
  <2>4. lean'.loaded /\ lean'.env # NoEnv
    BY <1>3, <1>4, <2>3 DEF Transacted, Live
  <2>5. /\ lean'.cmds = lean.cmds \/ lean'.cmds = Append(lean.cmds, cmd)
        /\ lean.cmds \in Seq(SessionCmd)
    BY <1>1, <1>3, <2>3 DEF Transacted, Lean
  <2>6. Len(snap.cmds) <= Len(lean'.cmds) /\ SubSeq(lean'.cmds, 1, Len(snap.cmds)) = snap.cmds
    BY <1>2, <1>4, <2>5, BeginsWith
  <2>7. ASSUME NEW n \in Names \ {job.s.name}
        PROVE  Here(lean').decl[n] = lean'.envs[snap.env.k].decl[n]
    <3>1. Here(lean).decl[n] = After(Here(lean), cmd).decl[n]
      BY <1>2, <2>3, AfterOthers DEF Transacted
    <3>2. lean'.envs[snap.env.k] = Here(lean)
      BY <1>3, <1>4, <2>3 DEF Transacted, Here
    <3> QED BY <1>3, <2>3, <3>1, <3>2 DEF Transacted
  <2> QED BY <2>4, <2>6, <2>7 DEF SessionKept, Here
<1>7. CASE NoProcess(lean, o) BY <1>3, <1>4, <1>7 DEF NoProcess
<1>8. CASE Lost(lean, o)
  <2>1. o.lean \in Lean BY <1>2, <1>3, SendGood DEF Outcomes
  <2>2. o.lean.gen = lean.gen BY <1>1, <1>3, <1>4, <1>5, <1>8, <2>1 DEF Lost, Lean
  <2> QED BY <1>3, <1>4, <1>8, <2>2 DEF Lost
<1> QED BY <1>1, <1>2, <1>3, <1>6, <1>7, <1>8, SendCases

\* A durable proof that ends before it installs its lemma.
LEMMA RestoreKeeps ==
    ASSUME IInv, job.stage \in {"preamble", "body", "axioms"}, NEW L \in Lean, Finish(L), Survived
    PROVE  SessionKept
<1>1. job.snap \in Snapshot /\ lean' = Restore(L, job.snap)
  BY DEF IInv, TypeOK, Job, Finish, Survived
<1>2. lean'.env = job.snap.env /\ lean'.loaded = job.snap.loaded /\ lean'.cmds = job.snap.cmds
  BY <1>1 DEF Restore, Lean
<1>3. job.snap.cmds \in Seq(SessionCmd) BY <1>1 DEF Snapshot
<1>4. \E cmd : cmd \in SessionCmd
  BY IdleType, CommandType DEF Job
<1>5. /\ Len(job.snap.cmds) <= Len(lean'.cmds)
      /\ SubSeq(lean'.cmds, 1, Len(job.snap.cmds)) = job.snap.cmds
  BY <1>2, <1>3, <1>4, BeginsWith
<1> QED BY <1>2, <1>5 DEF SessionKept, Survived

\* Every step that ends a surviving durable proof.
LEMMA DurableEnd ==
    ASSUME IInv, DurableInv, Next, Survived
    PROVE  SessionKept
<1>1. job \in Job /\ job.s \in Snippet /\ lean \in Lean BY DEF IInv, TypeOK, Job
<1>2. Step BY EndsByFinish DEF Survived
<1>3. job.tool = "durable" /\ Ready(job.snap) /\ job.stage # "idle" BY DEF Survived, Ready
<1>4. ASSUME NEW L, NEW stage, stage # "idle", Continue(L, stage) PROVE FALSE
  BY <1>1, <1>4, ContinueIs DEF Survived
<1>5. CASE LoadPreamble
  <2>1. job.stage = "preamble" BY <1>3, <1>5 DEF LoadPreamble, DurableInv
  <2>2. CASE Finish(lean) BY <1>1, <2>1, <2>2, RestoreKeeps
  <2>3. ASSUME NEW k \in {"good", "bad"},
               NEW o \in SendFresh(lean, Command("preamble", [job.s EXCEPT !.kind = k])),
               IF o.replied /\ o.ok THEN AfterPreamble(PreambleLoaded(o.lean))
                                     ELSE Finish(o.lean)
        PROVE  SessionKept
    <3>1. CASE o.replied /\ o.ok
      BY <1>3, <1>4, <2>1, <2>3, <3>1 DEF AfterPreamble
    <3>2. CASE ~(o.replied /\ o.ok)
      <4>1. [job.s EXCEPT !.kind = k] \in Snippet BY <1>1 DEF Snippet
      <4>2. o.lean \in Lean BY <4>1, CommandType, SendFreshGood DEF Outcomes
      <4> QED BY <2>1, <2>3, <3>2, <4>2, RestoreKeeps
    <3> QED BY <3>1, <3>2
  <2> QED BY <1>5, <2>2, <2>3 DEF LoadPreamble
<1>6. CASE Prove
  <2>1. PICK o \in Send(lean, Thm(job.s), "transact") :
          IF o.ok THEN Continue(o.lean, "axioms") ELSE Finish(o.lean)
    BY <1>6 DEF Prove
  <2>2. o.lean \in Lean BY <1>1, <2>1, CommandType, SendGood DEF Outcomes
  <2> QED BY <1>4, <1>6, <2>1, <2>2, RestoreKeeps DEF Prove
<1>7. CASE Axioms
  <2>1. PICK o \in Send(lean, Command("axioms", job.s), "commit") :
          IF ~Accepted(o)
          THEN Finish(o.lean) /\ UNCHANGED <<claims, notebook>>
          ELSE /\ Report("proof", o)
               /\ IF job.tool = "bridge" THEN UNCHANGED notebook ELSE Lock(job.s)
               /\ IF job.tool = "durable"
                  THEN LET L == Restore(o.lean, job.snap) IN
                       Continue(L, IF Ready(L) THEN "install" ELSE "installPreamble")
                  ELSE Finish(o.lean)
    BY <1>7 DEF Axioms
  <2>2. o.lean \in Lean BY <1>1, <2>1, CommandType, SendGood DEF Outcomes
  <2> QED BY <1>3, <1>4, <1>7, <2>1, <2>2, RestoreKeeps DEF Axioms
<1>8. CASE Install BY <1>8, InstallKeeps
<1>9. ~(Check \/ Typecheck \/ Search \/ Bridge \/ Replay)
  BY <1>3 DEF Check, Typecheck, Search, Bridge, Replay, DurableInv
<1> QED BY <1>2, <1>5, <1>6, <1>7, <1>8, <1>9 DEF Step

\* lean_tools.py 165-168, 212-221: a durable proof whose process survived leaves the
\* session commands it found and, but for its lemma, every declaration as it was.
THEOREM DurableLeavesTheSession == Spec => DurableKeepsSession
<1> DEFINE A == Survived => SessionKept
<1>1. Init => DurableInv
  BY IdleIsNot DEF Init, DurableInv
<1>2. IInv /\ DurableInv /\ [Next]_vars => DurableInv' BY DurableStep
<1>3. IInv /\ DurableInv /\ [Next]_vars => [A]_vars BY DurableEnd
<1>4. [][A]_vars <=> DurableKeepsSession
  BY DEF DurableKeepsSession, Survived, SessionKept
<1> HIDE DEF A
<1> QED BY <1>1, <1>2, <1>3, <1>4, Invariance, PTL DEF Spec
-----------------------------------------------------------------------------
(***************************************************************************)
(* The notebooks                                                           *)
(***************************************************************************)
\* No two lemmas have one name.
Distinct(lemmas) ==
    \A i, j \in 1..Len(lemmas) : lemmas[i].name = lemmas[j].name => i = j

OnceEach == Distinct(notebook) /\ Distinct(shelf)

\* What is left of the notebook without one name has distinct other names.
LEMMA WithoutDistinct ==
    ASSUME notebook \in Seq(Snippet), Distinct(notebook), NEW n \in Names
    PROVE  /\ Without(n) \in Seq(Snippet) /\ Distinct(Without(n))
           /\ \A j \in 1..Len(Without(n)) : Without(n)[j].name # n
<1>1. CASE Locked(n) = {}
  <2>1. Without(n) = notebook BY <1>1 DEF Without
  <2> QED BY <1>1, <2>1 DEF Locked
<1>2. CASE Locked(n) # {}
  <2> DEFINE i == CHOOSE j \in Locked(n) : TRUE
             pre == SubSeq(notebook, 1, i - 1)
             post == SubSeq(notebook, i + 1, Len(notebook))
             rest == pre \o post
  <2>1. i \in 1..Len(notebook) /\ notebook[i].name = n BY <1>2 DEF Locked
  <2>2. Without(n) = rest BY <1>2 DEF Without
  <2> HIDE DEF i
  <2>3. Len(notebook) \in Nat /\ \A j \in 1..Len(notebook) : notebook[j] \in Snippet
    BY LenProperties, ElementOfSeq
  <2>4. /\ pre \in Seq(Snippet) /\ Len(pre) = i - 1
        /\ \A j \in 1..(i - 1) : pre[j] = notebook[j]
    <3>1. \A j \in 1..(i - 1) : notebook[j] \in Snippet BY <2>1, <2>3
    <3>2. /\ pre \in Seq(Snippet) /\ Len(pre) = (IF 1 <= i - 1 THEN i - 1 - 1 + 1 ELSE 0)
          /\ \A j \in 1..(i - 1 - 1 + 1) : pre[j] = notebook[1 + j - 1]
      BY <2>1, <2>3, <3>1, SubSeqProperties
    <3> HIDE DEF pre
    <3>3. \A j \in 1..(i - 1) : j \in 1..(i - 1 - 1 + 1) /\ 1 + j - 1 = j BY <2>1, <2>3
    <3> QED BY <2>1, <2>3, <3>2, <3>3
  <2>5. /\ post \in Seq(Snippet) /\ Len(post) = Len(notebook) - i
        /\ \A j \in 1..(Len(notebook) - i) : post[j] = notebook[i + j]
    <3>1. \A j \in (i + 1)..Len(notebook) : notebook[j] \in Snippet BY <2>1, <2>3
    <3>2. /\ post \in Seq(Snippet)
          /\ Len(post) = (IF i + 1 <= Len(notebook) THEN Len(notebook) - (i + 1) + 1 ELSE 0)
          /\ \A j \in 1..(Len(notebook) - (i + 1) + 1) : post[j] = notebook[i + 1 + j - 1]
      BY <2>1, <2>3, <3>1, SubSeqProperties
    <3> HIDE DEF post
    <3>3. \A j \in 1..(Len(notebook) - i) :
            j \in 1..(Len(notebook) - (i + 1) + 1) /\ i + 1 + j - 1 = i + j
      BY <2>1, <2>3
    <3> QED BY <2>1, <2>3, <3>2, <3>3
  <2> HIDE DEF pre, post
  <2>6. /\ rest \in Seq(Snippet) /\ Len(rest) = Len(notebook) - 1
        /\ \A j \in 1..(i - 1) : rest[j] = notebook[j]
        /\ \A j \in 1..(Len(notebook) - i) : rest[i - 1 + j] = notebook[i + j]
    <3>1. /\ rest \in Seq(Snippet) /\ Len(rest) = Len(pre) + Len(post)
          /\ \A j \in 1..(Len(pre) + Len(post)) :
                rest[j] = IF j <= Len(pre) THEN pre[j] ELSE post[j - Len(pre)]
      BY <2>4, <2>5, ConcatProperties
    <3> HIDE DEF rest
    <3>2. ASSUME NEW j \in 1..(i - 1) PROVE rest[j] = notebook[j]
      <4>1. j \in 1..(Len(pre) + Len(post)) /\ j <= Len(pre)
        BY <2>1, <2>3, <2>4, <2>5
      <4>2. rest[j] = pre[j] BY <3>1, <4>1
      <4> QED BY <2>4, <4>2
    <3>3. ASSUME NEW j \in 1..(Len(notebook) - i) PROVE rest[i - 1 + j] = notebook[i + j]
      <4> DEFINE p == i - 1 + j
      <4>1. p \in 1..(Len(pre) + Len(post)) /\ ~(p <= Len(pre)) /\ p - Len(pre) = j
        <5>1. Len(pre) = i - 1 /\ Len(post) = Len(notebook) - i BY <2>4, <2>5
        <5>2. i \in Nat /\ j \in Nat /\ Len(notebook) \in Nat /\ i >= 1 /\ j >= 1
              /\ i <= Len(notebook) /\ j <= Len(notebook) - i
          BY <2>1, <2>3
        <5> QED BY <5>1, <5>2
      <4> HIDE DEF p
      <4>2. rest[p] = post[p - Len(pre)] BY <3>1, <4>1
      <4>3. rest[p] = post[j] BY <4>1, <4>2
      <4> QED BY <2>5, <4>3 DEF p
    <3> QED BY <2>1, <2>3, <2>4, <2>5, <3>1, <3>2, <3>3
  <2> HIDE DEF rest
  <2>7. ASSUME NEW j \in 1..Len(rest)
        PROVE  LET p == IF j < i THEN j ELSE j + 1 IN
               p \in 1..Len(notebook) /\ p # i /\ rest[j] = notebook[p]
    <3>1. CASE j < i BY <2>1, <2>3, <2>6, <3>1
    <3>2. CASE ~(j < i)
      <4>1. j - i + 1 \in 1..(Len(notebook) - i) /\ i - 1 + (j - i + 1) = j
            /\ i + (j - i + 1) = j + 1
        BY <2>1, <2>3, <2>6, <3>2
      <4>2. rest[j] = notebook[j + 1] BY <2>6, <4>1
      <4> QED BY <2>1, <2>3, <2>6, <3>2, <4>2
    <3> QED BY <3>1, <3>2
  <2>8. ASSUME NEW j \in 1..Len(rest) PROVE rest[j].name # n
    BY <2>1, <2>7 DEF Distinct
  <2>9. ASSUME NEW j \in 1..Len(rest), NEW h \in 1..Len(rest), rest[j].name = rest[h].name
        PROVE  j = h
    <3> DEFINE p == IF j < i THEN j ELSE j + 1
               q == IF h < i THEN h ELSE h + 1
    <3>1. p = q BY <2>7, <2>9 DEF Distinct
    <3>2. i \in Nat /\ j \in Nat /\ h \in Nat BY <2>1, <2>3, <2>6
    <3> QED BY <3>1, <3>2
  <2> QED BY <2>2, <2>6, <2>8, <2>9 DEF Distinct
<1> QED BY <1>1, <1>2

\* Locking a lemma leaves one entry of its name, the last.
LEMMA LockDistinct ==
    ASSUME notebook \in Seq(Snippet), Distinct(notebook), NEW s \in Snippet, Lock(s)
    PROVE  Distinct(notebook')
<1> DEFINE rest == Without(s.name)
<1>1. /\ rest \in Seq(Snippet) /\ Distinct(rest)
      /\ \A j \in 1..Len(rest) : rest[j].name # s.name
  BY WithoutDistinct DEF Snippet
<1>2. notebook' = Append(rest, s) BY DEF Lock
<1> HIDE DEF rest
<1>3. /\ Len(rest) \in Nat /\ Len(notebook') = Len(rest) + 1
      /\ \A j \in 1..Len(rest) : notebook'[j] = rest[j]
      /\ notebook'[Len(rest) + 1] = s
  BY <1>1, <1>2, AppendProperties, LenProperties
<1>4. ASSUME NEW i \in 1..Len(notebook'), NEW j \in 1..Len(notebook'),
             notebook'[i].name = notebook'[j].name
      PROVE  i = j
  <2>1. \A h \in 1..Len(notebook') : h = Len(rest) + 1 \/ h \in 1..Len(rest) BY <1>3
  <2>2. CASE i \in 1..Len(rest) /\ j \in 1..Len(rest)
    BY <1>1, <1>3, <1>4, <2>2 DEF Distinct
  <2>3. CASE i = Len(rest) + 1 /\ j \in 1..Len(rest) BY <1>1, <1>3, <1>4, <2>3
  <2>4. CASE j = Len(rest) + 1 /\ i \in 1..Len(rest) BY <1>1, <1>3, <1>4, <2>4
  <2> QED BY <2>1, <2>2, <2>3, <2>4
<1> QED BY <1>4 DEF Distinct

\* Only the axiom check locks; a session that begins or is resumed moves notebooks.
LEMMA OnceEachStep ==
    ASSUME IInv, OnceEach, [Next]_vars
    PROVE  OnceEach'
<1>1. job.s \in Snippet /\ notebook \in Seq(Snippet) BY DEF IInv, TypeOK, Job
<1>2. CASE UNCHANGED <<notebook, shelf>> BY <1>2 DEF OnceEach, Distinct
<1>3. CASE Lock(job.s) /\ UNCHANGED shelf
  <2>1. Distinct(notebook)' BY <1>1, <1>3, LockDistinct DEF OnceEach, Distinct
  <2> QED BY <1>3, <2>1 DEF OnceEach, Distinct
<1>4. CASE Clear
  <2>1. notebook' = <<>> /\ shelf' = notebook BY <1>4 DEF Clear
  <2> QED BY <2>1 DEF OnceEach, Distinct
<1>5. CASE StartResume
  BY <1>5 DEF StartResume, BindSession, OnceEach, Distinct
<1>6. StartTool \/ UNCHANGED vars \/ ProcessExit => UNCHANGED <<notebook, shelf>>
  BY DEF StartTool, vars, ProcessExit
<1>7. Step => UNCHANGED shelf /\ (UNCHANGED notebook \/ Lock(job.s))
  BY DEF Step, LoadPreamble, Check, Typecheck, Search, Prove, Bridge, Axioms, Install, Replay
<1> QED BY <1>2, <1>3, <1>4, <1>5, <1>6, <1>7 DEF Next, Start
-----------------------------------------------------------------------------
(***************************************************************************)
(* Resets and resumes                                                      *)
(***************************************************************************)
Rebuilds == job.tool \in {"reset", "resume"}

\* How many of the locked lemmas were sent already.
Replayed == Len(notebook) - Len(job.todo)

\* What is left to replay is the end of the notebook, which nobody changes
\* meanwhile; a resume loads the preamble only if it must.
RebuildInv ==
    Rebuilds =>
        /\ job.stage \in {"preamble", "replay"} /\ job.drop = {}
        /\ Len(job.todo) <= Len(notebook)
        /\ \A i \in 1..Len(job.todo) : job.todo[i] = Thm(notebook[Replayed + i])
        /\ job.stage = "preamble" => Len(job.todo) = Len(notebook)
        /\ job.tool = "resume" /\ job.stage = "preamble" => ~Ready(lean)

\* The first m lemmas that replay in order are declared where L is, or proved.
Declared(L, m) ==
    \A i \in 1..m : ReplaysInOrder(i) => Here(L).decl[notebook[i].name] # "absent"
Proved(L, m) ==
    \A i \in 1..m : ReplaysInOrder(i) => Here(L).decl[notebook[i].name] = "proved"

\* Nothing but the first m lemmas is declared where L is.
Clean(L, m) ==
    \A n \in Names : (\A i \in 1..m : notebook[i].name # n) => Here(L).decl[n] = "absent"

\* A loaded preamble in an environment of the process.
Usable(L) == L.loaded /\ Live(L)

\* A resume replays on top of what is there, as long as it is there.
ResumeInv ==
    job.tool = "resume" /\ job.stage = "replay" /\ Usable(lean)
        => Declared(lean, Replayed)

\* A reset replays on top of a fresh preamble of a process that answered.
ResetInv ==
    job.tool = "reset" /\ job.stage = "replay" /\ lean.loaded
        => lean.proc # "down" /\ Live(lean) /\ Proved(lean, Replayed) /\ Clean(lean, Replayed)

RebindInv == RebuildInv /\ ResumeInv /\ ResetInv /\ OnceEach

\* A lemma that replays in order is complete, and so are those it cites, which
\* come before it and replay in order as well.
LEMMA InOrder ==
    ASSUME notebook \in Seq(Snippet), NEW i \in 1..Len(notebook), ReplaysInOrder(i)
    PROVE  /\ notebook[i] \in Snippet /\ notebook[i].kind = "good"
           /\ \A r \in Requires[notebook[i].name] :
                 \E h \in 1..(i - 1) : notebook[h].name = r /\ ReplaysInOrder(h)
<1>1. Len(notebook) \in Nat /\ notebook[i] \in Snippet BY LenProperties, ElementOfSeq
<1>2. i \in 1..i BY <1>1
<1>3. \A h \in 1..(i - 1) : ReplaysInOrder(h)
  <2> SUFFICES ASSUME NEW h \in 1..(i - 1) PROVE ReplaysInOrder(h)
    OBVIOUS
  <2>1. \A j \in 1..h : j \in 1..i BY <1>1
  <2> QED BY <2>1 DEF ReplaysInOrder
<1>4. /\ notebook[i].kind = "good"
      /\ Requires[notebook[i].name] \subseteq {notebook[h].name : h \in 1..(i - 1)}
  BY <1>2 DEF ReplaysInOrder
<1> QED BY <1>1, <1>3, <1>4

\* A complete proof elaborates in a corpus context that has what it cites and not
\* its name, and is proved there when what it cites is.
LEMMA CompleteElaborates ==
    ASSUME NEW c \in Context, c.base = "corpus", NEW s \in Snippet, s.kind = "good",
           c.decl[s.name] = "absent",
           \A r \in Requires[s.name] : c.decl[r] # "absent"
    PROVE  /\ Elaborates(c, Thm(s)) /\ After(c, Thm(s)).decl[s.name] # "absent"
           /\ (\A r \in Requires[s.name] : c.decl[r] = "proved") =>
                 After(c, Thm(s)).decl[s.name] = "proved"
<1>1. Thm(s).op = "thm" /\ Thm(s).s = s /\ Thm(s) \in SessionCmd /\ Thm(s) \in Cmd
  BY CommandType DEF Thm, Command, SessionCmd
<1>2. Elaborates(c, Thm(s)) BY <1>1 DEF Elaborates, Missing
<1>3. ASSUME \A r \in Requires[s.name] : c.decl[r] = "proved"
      PROVE  After(c, Thm(s)).decl[s.name] = "proved"
  <2>1. ~Tainted(c, s) BY <1>3 DEF Tainted
  <2>2. After(c, Thm(s)) = [c EXCEPT !.decl[s.name] = "proved"]
    BY <1>1, <1>2, <2>1 DEF After
  <2> QED BY <2>2 DEF Context, Snippet
<1> QED BY <1>1, <1>2, <1>3, ElaboratedIsDeclared

\* What an answer to a send leaves of the fields.
LEMMA AnsweredFields ==
    ASSUME NEW L \in Lean, NEW cmd \in SessionCmd,
           NEW o, o = Commit(Answer(L, L.env, cmd), cmd, "transact")
    PROVE  /\ o.lean.loaded = L.loaded /\ o.lean.gen = L.gen
           /\ \/ o.lean.env = L.env
              \/ o.lean.env.by = (IF L.env = NoEnv THEN L.gen ELSE L.env.by)
<1> DEFINE r == Answer(L, L.env, cmd)
<1>1. L.env \in EnvRefs /\ cmd \in Cmd BY DEF Lean, SessionCmd
<1>2. r \in Outcomes BY <1>1, OutcomeType
<1>3. /\ r.lean.loaded = L.loaded /\ r.lean.gen = L.gen /\ r.lean.env = L.env
      /\ r.env = NoEnv \/ r.env.by = (IF L.env = NoEnv THEN L.gen ELSE L.env.by)
  BY <1>1, AnswerFacts DEF Extended
<1>4. o = Commit(r, cmd, "transact") OBVIOUS
<1> HIDE DEF r
<1>5. /\ o.lean.loaded = r.lean.loaded /\ o.lean.gen = r.lean.gen
      /\ o.lean = r.lean \/ (r.env # NoEnv /\ o.lean.env = r.env)
  BY <1>2, <1>4, CommitFacts
<1> QED BY <1>3, <1>5

\* A send that leaves a usable session was made in one and answered by its process,
\* or there was no process.
LEMMA UsableBefore ==
    ASSUME NEW L \in Lean, Sound(L, L), NEW cmd \in SessionCmd,
           NEW o \in Send(L, cmd, "transact"), Usable(o.lean),
           o.replied \/ o.lean.proc # "down"
    PROVE  Usable(L) /\ Transacted(L, cmd, o)
<1>1. CASE L.proc = "up" /\ o = Commit(Answer(L, L.env, cmd), cmd, "transact")
  <2>1. /\ o.lean.loaded = L.loaded /\ o.lean.gen = L.gen
        /\ \/ o.lean.env = L.env
           \/ o.lean.env.by = (IF L.env = NoEnv THEN L.gen ELSE L.env.by)
    BY <1>1, AnsweredFields
  <2>2. L.loaded BY <2>1 DEF Usable
  <2>3. L.env # NoEnv BY <2>2 DEF Sound
  <2>4. Live(L) BY <2>1, <2>3 DEF Usable, Live
  <2> QED BY <1>1, <2>2, <2>4, AnswerTransacts DEF Usable
<1>2. CASE NoProcess(L, o) BY <1>2 DEF NoProcess
<1>3. CASE Lost(L, o) BY <1>3 DEF Lost, Usable
<1> QED BY <1>1, <1>2, <1>3, SendCases

\* One more lemma is declared once it was sent.
LEMMA OneMoreDeclared ==
    ASSUME notebook \in Seq(Snippet), NEW L \in Lean, Sound(L, L), Usable(L),
           NEW m \in Nat, m < Len(notebook), Declared(L, m),
           NEW o, Transacted(L, Thm(notebook[m + 1]), o)
    PROVE  Declared(o.lean, m + 1)
<1> DEFINE s == notebook[m + 1]
           cmd == Thm(s)
           c == Here(L)
<1>1. /\ m + 1 \in 1..Len(notebook)
      /\ \A i \in 1..Len(notebook) : notebook[i] \in Snippet
  BY LenProperties, ElementOfSeq
<1>2. s \in Snippet /\ cmd \in SessionCmd /\ cmd \in Cmd /\ cmd.s = s
      /\ cmd.op \notin {"preamble", "bridge"} /\ cmd.op = "thm"
  BY <1>1, CommandType DEF Thm, Command, SessionCmd
<1>3. c \in Context BY DEF Transacted
<1>4. c.base = "corpus" BY DEF Sound, Usable, Live, Holds, Here
<1> HIDE DEF s, c
<1>5. ASSUME NEW i \in 1..(m + 1), ReplaysInOrder(i)
      PROVE  Here(o.lean).decl[notebook[i].name] # "absent"
  <2>0. i \in 1..Len(notebook) /\ (i = m + 1 \/ i \in 1..m) BY <1>1
  <2>1. notebook[i].name \in Names BY <1>1, <2>0 DEF Snippet
  <2>2. CASE c.decl[notebook[i].name] # "absent"
    <3>1. After(c, cmd).decl[notebook[i].name] # "absent"
      BY <1>2, <1>3, <2>1, <2>2, AfterContext
    <3> QED BY <2>2, <3>1 DEF Transacted, c, s
  <2>3. CASE c.decl[notebook[i].name] = "absent"
    <3>1. i = m + 1 BY <1>5, <2>0, <2>3 DEF Declared, c
    <3>2. /\ s.kind = "good"
          /\ \A r \in Requires[s.name] :
                \E h \in 1..m : notebook[h].name = r /\ ReplaysInOrder(h)
      <4>1. i - 1 = m BY <3>1
      <4> QED BY <1>5, <2>0, <3>1, <4>1, InOrder DEF s
    <3>3. \A r \in Requires[s.name] : c.decl[r] # "absent" BY <3>2 DEF Declared, c
    <3>4. c.decl[s.name] = "absent" BY <2>3, <3>1 DEF s
    <3>5. Elaborates(c, cmd) /\ After(c, cmd).decl[s.name] # "absent"
      BY <1>2, <1>3, <1>4, <3>2, <3>3, <3>4, CompleteElaborates
    <3> QED BY <3>1, <3>5 DEF Transacted, c, s
  <2> QED BY <2>2, <2>3
<1> QED BY <1>5 DEF Declared

\* On top of nothing else, one more lemma is proved, and still nothing else is there.
LEMMA OneMoreProved ==
    ASSUME notebook \in Seq(Snippet), Distinct(notebook),
           NEW L \in Lean, Sound(L, L), Usable(L),
           NEW m \in Nat, m < Len(notebook), Proved(L, m), Clean(L, m),
           NEW o, Transacted(L, Thm(notebook[m + 1]), o)
    PROVE  Proved(o.lean, m + 1) /\ Clean(o.lean, m + 1)
<1> DEFINE s == notebook[m + 1]
           cmd == Thm(s)
           c == Here(L)
<1>1. /\ m + 1 \in 1..Len(notebook)
      /\ \A i \in 1..Len(notebook) : notebook[i] \in Snippet
      /\ \A i \in 1..m : i \in 1..Len(notebook) /\ i # m + 1 /\ i \in 1..(m + 1)
      /\ m + 1 \in 1..(m + 1)
  BY LenProperties, ElementOfSeq
<1>2. s \in Snippet /\ s.name \in Names /\ cmd \in SessionCmd /\ cmd.s = s
  BY <1>1, CommandType DEF Thm, Command, SessionCmd, Snippet
<1>3. c \in Context BY DEF Transacted
<1>4. c.base = "corpus" BY DEF Sound, Usable, Live, Holds, Here
<1> HIDE DEF s, c
<1>5. \A n \in Names : n # s.name => Here(o.lean).decl[n] = c.decl[n]
  <2>1. \A n \in Names : n # s.name => After(c, cmd).decl[n] = c.decl[n]
    BY <1>2, <1>3, AfterOthers
  <2> QED BY <2>1 DEF Transacted, c, s
<1>6. \A i \in 1..m : notebook[i].name # s.name BY <1>1 DEF Distinct, s
<1>7. c.decl[s.name] = "absent" BY <1>2, <1>6 DEF Clean, c
<1>8. ASSUME NEW i \in 1..(m + 1), ReplaysInOrder(i)
      PROVE  Here(o.lean).decl[notebook[i].name] = "proved"
  <2>0. i \in 1..Len(notebook) /\ (i = m + 1 \/ i \in 1..m) BY <1>1
  <2>1. CASE i \in 1..m
    <3>1. c.decl[notebook[i].name] = "proved" BY <1>8, <2>1 DEF Proved, c
    <3> QED BY <1>1, <1>5, <1>6, <2>0, <2>1, <3>1 DEF Snippet
  <2>2. CASE i = m + 1
    <3>1. /\ s.kind = "good"
          /\ \A r \in Requires[s.name] :
                \E h \in 1..m : notebook[h].name = r /\ ReplaysInOrder(h)
      <4>1. i - 1 = m BY <2>2
      <4> QED BY <1>8, <2>0, <2>2, <4>1, InOrder DEF s
    <3>2. \A r \in Requires[s.name] : c.decl[r] = "proved" BY <3>1 DEF Proved, c
    <3>3. Elaborates(c, cmd) /\ After(c, cmd).decl[s.name] = "proved"
      BY <1>2, <1>3, <1>4, <1>7, <3>1, <3>2, CompleteElaborates
    <3> QED BY <2>2, <3>3 DEF Transacted, c, s
  <2> QED BY <2>0, <2>1, <2>2
<1>9. ASSUME NEW n \in Names, \A i \in 1..(m + 1) : notebook[i].name # n
      PROVE  Here(o.lean).decl[n] = "absent"
  <2>1. n # s.name /\ \A i \in 1..m : notebook[i].name # n BY <1>1, <1>9 DEF s
  <2> QED BY <1>5, <2>1 DEF Clean, c
<1> QED BY <1>8, <1>9 DEF Proved, Clean
\* An import leaves no preamble loaded; one that elaborates leaves the session of a
\* running process in a fresh context.
LEMMA FreshLoads ==
    ASSUME NEW L \in Lean, NEW cmd \in Cmd, NEW o \in SendFresh(L, cmd)
    PROVE  /\ ~o.lean.loaded
           /\ o.replied => /\ o.lean.proc = "up" /\ Live(o.lean)
                           /\ Here(o.lean) = After(Fresh, cmd)
<1> DEFINE L0 == [L EXCEPT !.loaded = FALSE, !.cmds = <<>>]
<1>1. L0 \in Lean /\ ~L0.loaded
  <2>1. <<>> \in Seq(SessionCmd) OBVIOUS
  <2> QED BY <2>1 DEF Lean
<1>2. PICK r \in Request(L0, NoEnv, cmd) : o = Commit(r, cmd, "commit")
  BY DEF SendFresh
<1> HIDE DEF L0
<1>3. PICK M : /\ Later(M, L0)
               /\ \/ r = Raised(M) /\ (M = L0 => L0.proc = "down")
                  \/ M.proc = "up" /\ r = Answer(M, NoEnv, cmd)
  BY <1>1, <1>2, RequestOutcome DEF Outcome
<1>4. M \in Lean /\ ~M.loaded BY <1>1, <1>3 DEF Later, Forfeited
<1>5. NoEnv \in EnvRefs BY DEF EnvRefs
<1>6. r \in Outcomes BY <1>3, <1>4, <1>5, OutcomeType
<1>7. CASE r = Raised(M)
  <2>1. r.env = NoEnv /\ r.lean = M /\ ~r.replied BY <1>7 DEF Raised
  <2>2. o = r BY <1>2, <2>1 DEF Commit
  <2> QED BY <1>4, <2>1, <2>2
<1>8. CASE M.proc = "up" /\ r = Answer(M, NoEnv, cmd)
  <2> DEFINE D == After(Fresh, cmd)
  <2>1. /\ r.lean.gen = M.gen /\ r.lean.proc = M.proc /\ r.lean.loaded = M.loaded
        /\ r.lean.envs = Append(M.envs, D) /\ r.env \in EnvRef
        /\ r.env.k = Len(M.envs) + 1 /\ r.env.by = M.gen
    BY <1>4, <1>5, <1>8, AnswerFacts DEF Extended
  <2>2. r.env # NoEnv BY <2>1, NoEnvIsNotAnId
  <2>3. D \in Context BY FreshType, AfterContext
  <2>4. M.envs \in Seq(Context) BY <1>4 DEF Lean
  <2>5. r.lean.envs[Len(M.envs) + 1] = D BY <2>1, <2>3, <2>4, AppendProperties
  <2> HIDE DEF D
  <2>6. /\ o.lean.gen = r.lean.gen /\ o.lean.proc = r.lean.proc
        /\ o.lean.loaded = r.lean.loaded /\ o.lean.envs = r.lean.envs
        /\ o.lean.env = r.env
    BY <1>2, <1>6, <2>2, CommitFacts
  <2> QED BY <1>4, <1>8, <2>1, <2>2, <2>5, <2>6 DEF Live, Here, D
<1> QED BY <1>3, <1>7, <1>8

\* The fields of a session whose preamble was just loaded.
LEMMA LoadedFields ==
    ASSUME NEW L \in Lean
    PROVE  LET P == PreambleLoaded(L) IN
           P.proc = L.proc /\ P.env = L.env /\ P.gen = L.gen /\ P.envs = L.envs
BY DEF PreambleLoaded, Lean

\* A notebook has as many commands as lemmas, in their order.
LEMMA NotebookCmdsAre ==
    ASSUME NEW lemmas \in Seq(Snippet)
    PROVE  /\ Len(NotebookCmds(lemmas)) = Len(lemmas)
           /\ \A i \in 1..Len(lemmas) : NotebookCmds(lemmas)[i] = Thm(lemmas[i])
<1> DEFINE cmds == NotebookCmds(lemmas)
<1>1. Len(lemmas) \in Nat BY LenProperties
<1>2. DOMAIN cmds = 1..Len(lemmas) BY DEF NotebookCmds
<1>3. cmds \in Seq(SessionCmd) BY NotebookCmdsType
<1>4. \A i \in 1..Len(lemmas) : cmds[i] = Thm(lemmas[i]) BY DEF NotebookCmds
<1> HIDE DEF cmds
<1>5. Len(cmds) \in Nat /\ DOMAIN cmds = 1..Len(cmds) BY <1>3, LenProperties
<1>6. Len(cmds) = Len(lemmas) BY <1>1, <1>2, <1>5
<1> QED BY <1>4, <1>6 DEF cmds

\* The rest of the replay once its first command was sent.
LEMMA RestOfReplay ==
    ASSUME NEW todo \in Seq(SessionCmd), todo # <<>>
    PROVE  /\ Len(todo) \in Nat /\ Len(todo) >= 1 /\ Head(todo) = todo[1]
           /\ Len(Tail(todo)) = Len(todo) - 1
           /\ \A i \in 1..Len(Tail(todo)) : Tail(todo)[i] = todo[i + 1]
<1>1. Len(todo) \in Nat /\ Len(todo) # 0 BY LenProperties, EmptySeq
<1> QED BY <1>1, HeadTailProperties

\* The actions that end or go on with a call go on with that call.
LEMMA StepCall ==
    ASSUME IInv, Step
    PROVE  job'.tool \in {job.tool, "check"}
<1>1. job \in Job BY DEF IInv, TypeOK
<1>2. ASSUME NEW L, Finish(L) PROVE job'.tool = "check" BY <1>2, IdleIsNot DEF Finish
<1>3. ASSUME NEW L, NEW stage, Continue(L, stage) PROVE job'.tool = job.tool
  BY <1>1, <1>3, ContinueIs
<1>4. ASSUME NEW L, Advance(L) PROVE job'.tool \in {job.tool, "check"}
  <2>1. CASE Finish(L) BY <1>2, <2>1
  <2>2. CASE job' = [job EXCEPT !.todo = Tail(@)] BY <1>1, <2>2 DEF Job
  <2> QED BY <1>4, <2>1, <2>2 DEF Advance
<1>5. ASSUME NEW L, AfterPreamble(L) PROVE job'.tool \in {job.tool, "check"}
  BY <1>2, <1>3, <1>5 DEF AfterPreamble
<1>6. CASE LoadPreamble BY <1>2, <1>5, <1>6 DEF LoadPreamble
<1>7. CASE Check \/ Typecheck \/ Search \/ Install
  BY <1>2, <1>7 DEF Check, Typecheck, Search, Install
<1>8. CASE Prove \/ Bridge BY <1>2, <1>3, <1>8 DEF Prove, Bridge
<1>9. CASE Axioms BY <1>2, <1>3, <1>9 DEF Axioms
<1>10. CASE Replay BY <1>2, <1>4, <1>10 DEF Replay
<1> QED BY <1>6, <1>7, <1>8, <1>9, <1>10 DEF Step
\* The parts of RebindInv that a call in progress moves.
ReplayInv == RebuildInv /\ ResumeInv /\ ResetInv

\* Between two calls, and in a call that is no rebuild, they say nothing.
LEMMA OtherCalls == ~Rebuilds => ReplayInv
BY DEF ReplayInv, RebuildInv, ResumeInv, ResetInv, Rebuilds

\* A reset and a resume begin with everything to replay.
LEMMA RebuildBegins ==
    ASSUME IInv, NEW tool \in {"reset", "resume"}, NEW stage \in {"preamble", "replay"},
           NEW lemmas \in Seq(Snippet), Begin(Rebuild(tool, stage, NotebookCmds(lemmas), {})),
           notebook' = lemmas,
           tool = "reset" => stage = "preamble",
           stage = "preamble" /\ tool = "resume" => ~Ready(lean)
    PROVE  ReplayInv'
<1> DEFINE cmds == NotebookCmds(lemmas)
<1>1. /\ Len(lemmas) \in Nat /\ Len(cmds) = Len(lemmas)
      /\ \A i \in 1..Len(lemmas) : cmds[i] = Thm(lemmas[i])
  BY NotebookCmdsAre, LenProperties
<1>2. /\ job'.tool = tool /\ job'.stage = stage /\ job'.todo = cmds /\ job'.drop = {}
      /\ lean' = lean
  <2>1. job' = [Idle EXCEPT !.tool = tool, !.stage = stage, !.todo = cmds, !.drop = {}]
    BY DEF Begin, Rebuild
  <2> HIDE DEF cmds
  <2> QED BY <2>1, IdleType DEF Begin, Job
<1> HIDE DEF cmds
<1>3. Replayed' = 0 BY <1>1, <1>2 DEF Replayed
<1>4. RebuildInv'
  <2>1. \A i \in 1..Len(cmds) : 0 + i = i BY <1>1
  <2> QED BY <1>1, <1>2, <1>3, <2>1 DEF RebuildInv, Ready
<1>5. ResumeInv' BY <1>3 DEF ResumeInv, Declared
<1>6. ResetInv' BY <1>2 DEF ResetInv
<1> QED BY <1>4, <1>5, <1>6 DEF ReplayInv

\* Every call begins so.
LEMMA ReplayStart ==
    ASSUME IInv, Start
    PROVE  ReplayInv'
<1>1. Idle \in Job /\ notebook \in Seq(Snippet) /\ shelf \in Seq(Snippet)
  BY IdleType DEF IInv, TypeOK
<1>2. ASSUME NEW tool, tool \notin {"reset", "resume"}, job'.tool = tool PROVE ReplayInv'
  <2>1. ~Rebuilds' BY <1>2 DEF Rebuilds
  <2> QED BY <2>1, OtherCalls DEF ReplayInv, RebuildInv, ResumeInv, ResetInv, Rebuilds
<1>3. ASSUME NEW tool, NEW stage, NEW s, Begin(Call(tool, stage, s)),
             tool \notin {"reset", "resume"}
      PROVE  ReplayInv'
  <2>1. job'.tool = tool BY <1>1, <1>3 DEF Begin, Call, Job
  <2> QED BY <1>2, <1>3, <2>1
<1>4. ASSUME NEW s, StartDurable(s) PROVE ReplayInv'
  <2> DEFINE new == Call("durable", "preamble", s)
  <2>1. new.tool = "durable" /\ DOMAIN new = DOMAIN Idle BY <1>1 DEF Call, Job
  <2>2. job' = [new EXCEPT !.snap = TakeSnapshot(lean)] BY <1>4 DEF StartDurable, Begin
  <2> HIDE DEF new
  <2>3. job'.tool = "durable" BY <2>1, <2>2
  <2> QED BY <1>2, <2>3
<1>5. ASSUME NEW n, StartRetract(n) PROVE ReplayInv'
  <2>1. job'.tool = "retract" BY <1>1, <1>5 DEF StartRetract, Begin, Rebuild, Job
  <2> QED BY <1>2, <2>1
<1>6. ASSUME StartReset, UNCHANGED notebook PROVE ReplayInv'
  BY <1>1, <1>6, RebuildBegins DEF StartReset
<1>7. ASSUME NEW loaded \in Seq(Snippet), NEW left, BindSession(loaded, left)
      PROVE  ReplayInv'
  <2> DEFINE stage == IF Ready(lean) THEN "replay" ELSE "preamble"
  <2>1. /\ Begin(Rebuild("resume", stage, NotebookCmds(loaded), {}))
        /\ notebook' = loaded
    BY <1>7 DEF BindSession
  <2>2. stage \in {"preamble", "replay"} /\ (stage = "preamble" => ~Ready(lean))
    OBVIOUS
  <2> HIDE DEF stage
  <2> QED BY <2>1, <2>2, RebuildBegins
<1>8. CASE StartTool
  BY <1>3, <1>4, <1>5, <1>6, <1>8 DEF StartTool, StartSessionTool, StartBridge
<1>9. CASE StartResume BY <1>1, <1>7, <1>9 DEF StartResume
<1> QED BY <1>8, <1>9 DEF Start

\* The preamble of a rebuild: it failed and nothing is loaded, or all is to be replayed.
LEMMA ReplayLoad ==
    ASSUME IInv, RebindInv, Rebuilds, LoadPreamble
    PROVE  /\ ReplayInv'
           /\ job'.stage = "idle" => ~Ready(lean') \/ notebook = <<>> \/ job.tool = "reset"
<1>1. /\ job \in Job /\ job.s \in Snippet /\ lean \in Lean /\ notebook \in Seq(Snippet)
      /\ job.todo \in Seq(SessionCmd)
  BY DEF IInv, TypeOK, Job
<1>2. /\ job.tool # "durable" /\ job.stage = "preamble" /\ job.drop = {}
      /\ Len(job.todo) = Len(notebook) /\ job.tool \in {"reset", "resume"}
      /\ job.tool = "resume" => ~Ready(lean)
  BY DEF RebindInv, RebuildInv, Rebuilds, LoadPreamble
<1>3. ASSUME NEW L, Finish(L) PROVE lean' = L /\ ReplayInv'
  <2>1. lean' = L /\ job' = Idle BY <1>2, <1>3 DEF Finish
  <2>2. ~Rebuilds' BY <2>1, IdleIsNot DEF Rebuilds
  <2> QED BY <2>1, <2>2 DEF ReplayInv, RebuildInv, ResumeInv, ResetInv, Rebuilds
<1>4. CASE Finish(lean) BY <1>2, <1>3, <1>4
<1>5. ASSUME NEW k \in {"good", "bad"},
             NEW o \in SendFresh(lean, Command("preamble", [job.s EXCEPT !.kind = k])),
             IF o.replied /\ o.ok THEN AfterPreamble(PreambleLoaded(o.lean))
                                   ELSE Finish(o.lean)
      PROVE  /\ ReplayInv'
             /\ job'.stage = "idle" => ~Ready(lean') \/ notebook = <<>>
  <2> DEFINE cmd == Command("preamble", [job.s EXCEPT !.kind = k])
             P == PreambleLoaded(o.lean)
  <2>1. cmd \in Cmd /\ cmd.op = "preamble"
    <3>1. [job.s EXCEPT !.kind = k] \in Snippet BY <1>1 DEF Snippet
    <3> QED BY <3>1, CommandType
  <2>2. o.lean \in Lean BY <2>1, SendFreshGood DEF Outcomes
  <2>3. /\ ~o.lean.loaded
        /\ o.replied => /\ o.lean.proc = "up" /\ Live(o.lean)
                        /\ Here(o.lean) = After(Fresh, cmd)
    BY <1>1, <2>1, FreshLoads
  <2>4. CASE ~(o.replied /\ o.ok)
    <3>1. lean' = o.lean /\ ReplayInv' BY <1>3, <1>5, <2>4
    <3> QED BY <2>3, <3>1 DEF Ready
  <2>5. CASE o.replied /\ o.ok
    <3>1. P.proc = "up" /\ Live(P) /\ Here(P) = After(Fresh, cmd)
      BY <2>2, <2>3, <2>5, LoadedFields DEF Live, Here
    <3>2. AfterPreamble(P) BY <1>5, <2>5
    <3> HIDE DEF P
    <3>3. CASE job.todo = <<>> /\ Finish(P)
      <4>1. notebook = <<>> BY <1>1, <1>2, <3>3, EmptySeq
      <4> QED BY <1>3, <3>3, <4>1
    <3>4. CASE job.todo # <<>> /\ Continue(P, "replay")
      <4>1. /\ lean' = P /\ job'.stage = "replay" /\ job'.tool = job.tool
            /\ job'.todo = job.todo /\ job'.drop = job.drop /\ notebook' = notebook
        BY <1>1, <3>4, ContinueIs DEF LoadPreamble
      <4>2. Len(notebook) \in Nat /\ Replayed' = 0 /\ Replayed = 0
        BY <1>1, <1>2, <4>1, LenProperties DEF Replayed
      <4>3. RebuildInv'
        BY <1>2, <4>1, <4>2 DEF RebuildInv, RebindInv, Rebuilds
      <4>4. ResumeInv' BY <4>2 DEF ResumeInv, Declared
      <4>5. Clean(lean, Replayed)'
        <5>1. \A n \in Names : After(Fresh, cmd).decl[n] = "absent"
          BY <2>1 DEF After, Fresh
        <5> QED BY <3>1, <4>1, <5>1 DEF Clean
      <4>6. ResetInv' BY <3>1, <4>1, <4>2, <4>5 DEF ResetInv, Proved, Live
      <4> QED BY <4>1, <4>3, <4>4, <4>6 DEF ReplayInv
    <3> QED BY <1>2, <3>2, <3>3, <3>4 DEF AfterPreamble
  <2> QED BY <2>4, <2>5
<1> QED BY <1>4, <1>5 DEF LoadPreamble
\* A step of a replay sends the next lemma, and ends the call when no process answered
\* or none is left.
LEMMA NextLemma ==
    ASSUME IInv, RebindInv, Rebuilds, Replay
    PROVE  /\ Replayed \in Nat /\ Replayed < Len(notebook)
           /\ \E o \in Send(lean, Thm(notebook[Replayed + 1]), "transact") :
                 /\ lean' = o.lean /\ notebook' = notebook
                 /\ \/ job' = Idle /\ (~o.replied \/ Replayed + 1 = Len(notebook))
                    \/ o.replied /\ Len(job.todo) # 1 /\ job' = [job EXCEPT !.todo = Tail(@)]
<1>1. /\ job \in Job /\ notebook \in Seq(Snippet) /\ job.todo \in Seq(SessionCmd)
      /\ job.todo # <<>>
  BY DEF IInv, TypeOK, Job, ReplayHasWork, Replay
<1>2. /\ job.tool \notin {"durable", "retract"} /\ job.drop = {}
      /\ Len(job.todo) <= Len(notebook)
      /\ \A i \in 1..Len(job.todo) : job.todo[i] = Thm(notebook[Replayed + i])
  BY DEF RebindInv, RebuildInv, Rebuilds
<1>3. Len(notebook) \in Nat /\ Len(job.todo) \in Nat /\ Len(job.todo) >= 1
      /\ Head(job.todo) = job.todo[1]
  BY <1>1, LenProperties, RestOfReplay
<1>4. Replayed \in Nat /\ Replayed < Len(notebook) BY <1>2, <1>3 DEF Replayed
<1>5. Head(job.todo) = Thm(notebook[Replayed + 1]) BY <1>2, <1>3
<1>6. ~Introduces(Head(job.todo), job.drop) BY <1>2 DEF Introduces
<1>7. PICK o \in Send(lean, Head(job.todo), "transact") :
        IF ~o.replied THEN Finish(o.lean) ELSE Advance(o.lean)
  BY <1>2, <1>6 DEF Replay
<1>8. \/ lean' = o.lean /\ job' = Idle /\ (~o.replied \/ Len(job.todo) = 1)
      \/ lean' = o.lean /\ o.replied /\ Len(job.todo) # 1 /\ job' = [job EXCEPT !.todo = Tail(@)]
  BY <1>2, <1>7 DEF Advance, Finish
<1>9. Len(job.todo) = 1 => Replayed + 1 = Len(notebook) BY <1>3 DEF Replayed
<1>10. notebook' = notebook BY DEF Replay
<1> QED BY <1>4, <1>5, <1>7, <1>8, <1>9, <1>10

\* What the next lemma leaves in a resume.
LEMMA ResumedOne ==
    ASSUME IInv, RebindInv, job.tool = "resume", Replay,
           NEW o \in Send(lean, Thm(notebook[Replayed + 1]), "transact"),
           Usable(o.lean), o.replied \/ o.lean.proc # "down"
    PROVE  Declared(o.lean, Replayed + 1)
<1>1. lean \in Lean /\ Sound(lean, lean) /\ notebook \in Seq(Snippet)
  BY DEF IInv, TypeOK, SessionFaithful
<1>2. Replayed \in Nat /\ Replayed < Len(notebook) BY NextLemma DEF Rebuilds
<1>3. Thm(notebook[Replayed + 1]) \in SessionCmd
  <2>1. Replayed + 1 \in 1..Len(notebook) BY <1>1, <1>2, LenProperties
  <2> QED BY <1>1, <2>1, ElementOfSeq, CommandType
<1>4. Usable(lean) /\ Transacted(lean, Thm(notebook[Replayed + 1]), o)
  BY <1>1, <1>3, UsableBefore
<1>5. Declared(lean, Replayed) BY <1>4 DEF RebindInv, ResumeInv, Replay
<1> QED BY <1>1, <1>2, <1>4, <1>5, OneMoreDeclared

\* What the next lemma leaves in a reset.
LEMMA ResetOne ==
    ASSUME IInv, RebindInv, job.tool = "reset", Replay,
           NEW o \in Send(lean, Thm(notebook[Replayed + 1]), "transact"),
           o.lean.loaded
    PROVE  /\ o.lean.proc # "down" /\ Live(o.lean)
           /\ Proved(o.lean, Replayed + 1) /\ Clean(o.lean, Replayed + 1)
<1> DEFINE cmd == Thm(notebook[Replayed + 1])
<1>1. lean \in Lean /\ Sound(lean, lean) /\ notebook \in Seq(Snippet)
  BY DEF IInv, TypeOK, SessionFaithful
<1>2. Replayed \in Nat /\ Replayed < Len(notebook) BY NextLemma DEF Rebuilds
<1>3. cmd \in SessionCmd
  <2>1. Replayed + 1 \in 1..Len(notebook) BY <1>1, <1>2, LenProperties
  <2> QED BY <1>1, <2>1, ElementOfSeq, CommandType
<1>4. lean.loaded => /\ lean.proc # "down" /\ Live(lean)
                     /\ Proved(lean, Replayed) /\ Clean(lean, Replayed)
  BY DEF RebindInv, ResetInv, Replay
<1> HIDE DEF cmd
<1>5. CASE lean.proc = "up" /\ o = Commit(Answer(lean, lean.env, cmd), cmd, "transact")
  <2>1. o.lean.loaded = lean.loaded BY <1>1, <1>3, <1>5, AnsweredFields
  <2>2. lean.loaded BY <2>1
  <2>3. Usable(lean) BY <1>4, <2>2 DEF Usable
  <2>4. Transacted(lean, cmd, o) BY <1>1, <1>3, <1>5, <2>3, AnswerTransacts DEF Usable
  <2>5. Proved(o.lean, Replayed + 1) /\ Clean(o.lean, Replayed + 1)
    <3>1. Distinct(notebook) BY DEF RebindInv, OnceEach
    <3>2. Proved(lean, Replayed) /\ Clean(lean, Replayed) BY <1>4, <2>2
    <3> QED BY <1>1, <1>2, <2>3, <2>4, <3>1, <3>2, OneMoreProved DEF cmd
  <2> QED BY <1>5, <2>4, <2>5 DEF Transacted
<1>6. CASE NoProcess(lean, o) BY <1>4, <1>6 DEF NoProcess
<1>7. CASE Lost(lean, o) BY <1>7 DEF Lost
<1> QED BY <1>1, <1>3, <1>5, <1>6, <1>7, SendCases DEF cmd

\* The lemmas that are declared, or proved, where L is are so where the session is.
LEMMA SameThere ==
    ASSUME notebook' = notebook, NEW L, lean'.env = L.env, lean'.envs = L.envs,
           NEW m, Replayed' = m
    PROVE  /\ Declared(L, m) => Declared(lean, Replayed)'
           /\ Proved(L, m) => Proved(lean, Replayed)'
           /\ Clean(L, m) => Clean(lean, Replayed)'
<1>1. \A i : ReplaysInOrder(i)' <=> ReplaysInOrder(i) BY DEF ReplaysInOrder
<1>2. Here(lean)' = Here(L) BY DEF Here
<1>3. Declared(L, m) => Declared(lean, Replayed)' BY <1>1, <1>2 DEF Declared
<1>4. Proved(L, m) => Proved(lean, Replayed)' BY <1>1, <1>2 DEF Proved
<1>5. Clean(L, m) => Clean(lean, Replayed)' BY <1>2 DEF Clean
<1> QED BY <1>3, <1>4, <1>5

\* Every step of a replay keeps the invariant.
LEMMA ReplayOn ==
    ASSUME IInv, RebindInv, Rebuilds, Replay
    PROVE  ReplayInv'
<1>1. /\ job \in Job /\ notebook \in Seq(Snippet) /\ job.todo \in Seq(SessionCmd)
      /\ job.todo # <<>> /\ job.stage = "replay"
  BY DEF IInv, TypeOK, Job, ReplayHasWork, Replay
<1>2. PICK o \in Send(lean, Thm(notebook[Replayed + 1]), "transact") :
        /\ lean' = o.lean /\ notebook' = notebook
        /\ \/ job' = Idle /\ (~o.replied \/ Replayed + 1 = Len(notebook))
           \/ o.replied /\ Len(job.todo) # 1 /\ job' = [job EXCEPT !.todo = Tail(@)]
  BY NextLemma
<1>3. CASE job' = Idle
  <2>1. ~Rebuilds' BY <1>3, IdleIsNot DEF Rebuilds
  <2> QED BY <2>1 DEF ReplayInv, RebuildInv, ResumeInv, ResetInv, Rebuilds
<1>4. CASE o.replied /\ Len(job.todo) # 1 /\ job' = [job EXCEPT !.todo = Tail(@)]
  <2>1. /\ job'.tool = job.tool /\ job'.stage = "replay" /\ job'.drop = job.drop
        /\ job'.todo = Tail(job.todo)
    BY <1>1, <1>4 DEF Job
  <2>2. /\ Len(job.todo) \in Nat /\ Len(job.todo) >= 1 /\ Len(notebook) \in Nat
        /\ Len(Tail(job.todo)) = Len(job.todo) - 1
        /\ \A i \in 1..Len(Tail(job.todo)) : Tail(job.todo)[i] = job.todo[i + 1]
    BY <1>1, RestOfReplay, LenProperties
  <2>3. /\ job.drop = {} /\ Len(job.todo) <= Len(notebook)
        /\ \A i \in 1..Len(job.todo) : job.todo[i] = Thm(notebook[Replayed + i])
    BY DEF RebindInv, RebuildInv
  <2>4. Replayed' = Replayed + 1
    <3> DEFINE n == Len(notebook)
               k == Len(job.todo)
               rest == Len(Tail(job.todo))
    <3>1. n \in Nat /\ k \in Nat /\ rest = k - 1 BY <2>2
    <3>2. Replayed' = n - rest BY <1>2, <2>1 DEF Replayed
    <3>3. Replayed = n - k BY DEF Replayed
    <3> HIDE DEF n, k, rest
    <3>4. n - rest = (n - k) + 1 BY <3>1
    <3> QED BY <3>2, <3>3, <3>4
  <2>5. RebuildInv'
    <3>1. ASSUME NEW i \in 1..Len(Tail(job.todo))
          PROVE  Tail(job.todo)[i] = Thm(notebook[Replayed + 1 + i])
      <4>1. i + 1 \in 1..Len(job.todo) /\ Replayed + (i + 1) = Replayed + 1 + i
        BY <2>2, <2>3 DEF Replayed
      <4> QED BY <2>2, <2>3, <4>1
    <3>2. Len(Tail(job.todo)) <= Len(notebook) BY <2>2, <2>3
    <3> QED BY <1>2, <2>1, <2>3, <2>4, <3>1, <3>2 DEF RebuildInv
  <2>6. ResumeInv'
    <3> SUFFICES ASSUME job.tool = "resume", Usable(o.lean)
                 PROVE  Declared(lean, Replayed)'
      BY <1>2, <2>1 DEF ResumeInv, Usable, Live
    <3>1. Declared(o.lean, Replayed + 1) BY <1>4, ResumedOne
    <3> QED BY <1>2, <2>4, <3>1, SameThere
  <2>7. ResetInv'
    <3> SUFFICES ASSUME job.tool = "reset", o.lean.loaded
                 PROVE  /\ lean'.proc # "down" /\ Live(lean)'
                        /\ Proved(lean, Replayed)' /\ Clean(lean, Replayed)'
      BY <1>2, <2>1 DEF ResetInv
    <3>1. /\ o.lean.proc # "down" /\ Live(o.lean)
          /\ Proved(o.lean, Replayed + 1) /\ Clean(o.lean, Replayed + 1)
      BY ResetOne
    <3>2. Proved(lean, Replayed)' /\ Clean(lean, Replayed)'
      BY <1>2, <2>4, <3>1, SameThere
    <3> QED BY <1>2, <3>1, <3>2 DEF Live
  <2> QED BY <2>5, <2>6, <2>7 DEF ReplayInv
<1> QED BY <1>2, <1>3, <1>4

\* So does every step.
LEMMA RebindStep ==
    ASSUME IInv, RebindInv, [Next]_vars
    PROVE  RebindInv'
<1>1. OnceEach' BY OnceEachStep DEF RebindInv
<1>2. job \in Job /\ lean \in Lean BY DEF IInv, TypeOK
<1>3. CASE UNCHANGED vars
  <2>1. UNCHANGED <<lean, job, notebook>> BY <1>3 DEF vars
  <2>2. Replayed' = Replayed BY <2>1 DEF Replayed
  <2>3. RebuildInv' BY <2>1, <2>2 DEF RebindInv, RebuildInv, Rebuilds, Ready
  <2>4. ResumeInv' BY <2>1, <2>2, SameThere DEF RebindInv, ResumeInv, Usable, Live
  <2>5. ResetInv' BY <2>1, <2>2, SameThere DEF RebindInv, ResetInv, Live
  <2> QED BY <1>1, <2>3, <2>4, <2>5 DEF RebindInv
<1>4. CASE Start BY <1>1, <1>4, ReplayStart DEF ReplayInv, RebindInv
<1>5. CASE Clear
  <2>1. ~Rebuilds' BY <1>5 DEF Clear, RebindInv, RebuildInv, Rebuilds
  <2> QED BY <1>1, <2>1 DEF RebindInv, RebuildInv, ResumeInv, ResetInv, Rebuilds
<1>6. CASE ProcessExit
  <2>1. /\ lean'.env = lean.env /\ lean'.loaded = lean.loaded /\ lean'.envs = lean.envs
        /\ lean'.gen = lean.gen /\ lean'.proc = "dead"
        /\ job' = job /\ notebook' = notebook
    BY <1>2, <1>6 DEF ProcessExit, Lean
  <2>2. Replayed' = Replayed BY <2>1 DEF Replayed
  <2>3. RebuildInv' BY <2>1, <2>2 DEF RebindInv, RebuildInv, Rebuilds, Ready
  <2>4. ResumeInv' BY <2>1, <2>2, SameThere DEF RebindInv, ResumeInv, Usable, Live
  <2>5. ResetInv' BY <2>1, <2>2, SameThere DEF RebindInv, ResetInv, Live
  <2> QED BY <1>1, <2>3, <2>4, <2>5 DEF RebindInv
<1>7. CASE Step /\ ~Rebuilds
  <2>1. ~Rebuilds' BY <1>7, StepCall DEF Rebuilds
  <2> QED BY <1>1, <2>1 DEF RebindInv, RebuildInv, ResumeInv, ResetInv, Rebuilds
<1>8. CASE Step /\ Rebuilds
  <2>1. LoadPreamble \/ Replay
    BY <1>8 DEF Step, Check, Typecheck, Search, Prove, Bridge, Axioms, Install,
                RebindInv, RebuildInv, Rebuilds
  <2>2. ReplayInv' BY <1>8, <2>1, ReplayLoad, ReplayOn
  <2> QED BY <1>1, <2>2 DEF ReplayInv, RebindInv
<1> QED BY <1>3, <1>4, <1>5, <1>6, <1>7, <1>8 DEF Next

\* The last step of a resume.
ResumeEnds ==
    /\ job.tool = "resume" /\ job.stage # "idle" /\ job'.stage = "idle"
    /\ lean'.loaded /\ lean'.env # NoEnv /\ ~Stale(lean.env)' /\ lean'.proc # "down"

\* The last step of a reset that had something to replay.
ResetEnds ==
    /\ job.tool = "reset" /\ job.stage = "replay" /\ job'.stage = "idle"
    /\ lean'.loaded /\ lean'.env # NoEnv

\* At the end of a resume the lemmas are declared.
LEMMA ResumeEnd ==
    ASSUME IInv, RebindInv, Next, ResumeEnds
    PROVE  Declared(lean', Len(notebook))
<1>1. Step /\ Rebuilds BY EndsByFinish DEF ResumeEnds, Rebuilds
<1>2. LoadPreamble \/ Replay
  BY <1>1 DEF Step, Check, Typecheck, Search, Prove, Bridge, Axioms, Install,
              RebindInv, RebuildInv, Rebuilds
<1>3. CASE LoadPreamble
  <2>1. notebook = <<>>
    BY <1>1, <1>3, ReplayLoad DEF ResumeEnds, Ready
  <2> QED BY <2>1 DEF Declared
<1>4. CASE Replay
  <2>1. PICK o \in Send(lean, Thm(notebook[Replayed + 1]), "transact") :
          /\ lean' = o.lean /\ notebook' = notebook
          /\ \/ job' = Idle /\ (~o.replied \/ Replayed + 1 = Len(notebook))
             \/ o.replied /\ Len(job.todo) # 1 /\ job' = [job EXCEPT !.todo = Tail(@)]
    BY <1>1, <1>4, NextLemma
  <2>2. job \in Job /\ job.stage = "replay" BY <1>4 DEF IInv, TypeOK, Replay
  <2>3. ~o.replied \/ Replayed + 1 = Len(notebook)
    BY <2>1, <2>2 DEF ResumeEnds, Job
  <2>4. Usable(o.lean) /\ o.lean.proc # "down"
    BY <2>1 DEF ResumeEnds, Usable, Live, Stale
  <2>5. CASE Replayed + 1 = Len(notebook)
    <3>1. Declared(o.lean, Replayed + 1) BY <1>4, <2>4, ResumedOne DEF ResumeEnds
    <3> QED BY <2>1, <2>5, <3>1
  <2>6. CASE ~o.replied
    <3>1. Thm(notebook[Replayed + 1]) \in SessionCmd
      <4>1. notebook \in Seq(Snippet) BY DEF IInv, TypeOK
      <4>2. Replayed + 1 \in 1..Len(notebook) BY <1>1, <1>4, <4>1, NextLemma, LenProperties
      <4> QED BY <4>1, <4>2, ElementOfSeq, CommandType
    <3>2. Transacted(lean, Thm(notebook[Replayed + 1]), o)
      BY <2>4, <3>1, UsableBefore DEF IInv, TypeOK, SessionFaithful
    <3> QED BY <2>6, <3>2 DEF Transacted
  <2> QED BY <2>3, <2>5, <2>6
<1> QED BY <1>2, <1>3, <1>4

\* At the end of a reset they are proved.
LEMMA ResetEnd ==
    ASSUME IInv, RebindInv, Next, ResetEnds
    PROVE  Proved(lean', Len(notebook))
<1>1. Step /\ Rebuilds BY EndsByFinish DEF ResetEnds, Rebuilds
<1>2. Replay
  BY <1>1 DEF ResetEnds, Step, LoadPreamble, Check, Typecheck, Search, Prove, Bridge, Axioms,
              Install, RebindInv, RebuildInv, Rebuilds
<1>3. PICK o \in Send(lean, Thm(notebook[Replayed + 1]), "transact") :
        /\ lean' = o.lean /\ notebook' = notebook
        /\ \/ job' = Idle /\ (~o.replied \/ Replayed + 1 = Len(notebook))
           \/ o.replied /\ Len(job.todo) # 1 /\ job' = [job EXCEPT !.todo = Tail(@)]
  BY <1>1, <1>2, NextLemma
<1>4. job \in Job /\ job.stage = "replay" BY <1>2 DEF IInv, TypeOK, Replay
<1>5. ~o.replied \/ Replayed + 1 = Len(notebook) BY <1>3, <1>4 DEF ResetEnds, Job
<1>6. /\ o.lean.proc # "down" /\ Live(o.lean) /\ Proved(o.lean, Replayed + 1)
  BY <1>2, <1>3, ResetOne DEF ResetEnds
<1>7. CASE Replayed + 1 = Len(notebook) BY <1>3, <1>6, <1>7
<1>8. CASE ~o.replied
  <2>1. Thm(notebook[Replayed + 1]) \in SessionCmd
    <3>1. notebook \in Seq(Snippet) BY DEF IInv, TypeOK
    <3>2. Replayed + 1 \in 1..Len(notebook) BY <1>1, <1>2, <3>1, NextLemma, LenProperties
    <3> QED BY <3>1, <3>2, ElementOfSeq, CommandType
  <2>2. Usable(o.lean) BY <1>3, <1>6 DEF ResetEnds, Usable
  <2>3. Transacted(lean, Thm(notebook[Replayed + 1]), o)
    BY <1>6, <2>1, <2>2, UsableBefore DEF IInv, TypeOK, SessionFaithful
  <2> QED BY <1>8, <2>3 DEF Transacted
<1> QED BY <1>5, <1>7, <1>8

\* The invariant of the rebuilds holds in every reachable state.
THEOREM RebindInvariance == Spec => []RebindInv
<1>1. Init => RebindInv
  <2>1. ASSUME Init PROVE ~Rebuilds /\ OnceEach
    BY <2>1, IdleIsNot DEF Init, Rebuilds, OnceEach, Distinct
  <2> QED BY <2>1, OtherCalls DEF ReplayInv, RebindInv
<1>2. IInv /\ RebindInv /\ [Next]_vars => RebindInv' BY RebindStep
<1> QED BY <1>1, <1>2, Invariance, PTL DEF Spec

\* repl.py 248-258, 419-424, lemmas.py 119-138: a resume declares the locked lemmas of
\* the session it loads, whatever was there.
THEOREM ResumeDeclares == Spec => RebindReplays
<1> DEFINE A == ResumeEnds => Declared(lean', Len(notebook))
<1>1. IInv /\ RebindInv /\ [Next]_vars => [A]_vars BY ResumeEnd
<1>2. [][A]_vars <=> RebindReplays
  BY DEF RebindReplays, ResumeEnds, Declared, Here
<1> HIDE DEF A
<1> QED BY <1>1, <1>2, Invariance, RebindInvariance, PTL DEF Spec

\* lean_tools.py 261-276, lemmas.py 119-138: a reset that ran to its end proves the
\* locked lemmas again.
THEOREM ResetProves == Spec => ResetReplays
<1> DEFINE A == ResetEnds => Proved(lean', Len(notebook))
<1>1. IInv /\ RebindInv /\ [Next]_vars => [A]_vars BY ResetEnd
<1>2. [][A]_vars <=> ResetReplays
  BY DEF ResetReplays, ResetEnds, Proved, Here
<1> HIDE DEF A
<1> QED BY <1>1, <1>2, Invariance, RebindInvariance, PTL DEF Spec
=============================================================================
