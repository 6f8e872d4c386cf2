# TLA+ models and proofs for Konigsberg

Konigsberg is an agent for graph theory. A language model proposes; tools mint
*claims* on an append-only ledger; a Lean process checks proofs; Python programs
search for colourings, counterexamples and discharging arguments. What the
program promises is about trust: a claim is what a tool established, it
survives compaction, interrupts and crashes, and a campaign stops when, and only
when, a claim settles its conjecture; what is promoted to the corpus is proved,
reviewed and complete. These modules model that core, TLC checks it on small
instances, and TLAPS proves the parts that do not depend on the instance.

Paths below are relative to `src/harness/konigsberg_harness/` unless they begin
with `src/`.

## 1. The system

### Components

| component | state | operations | what makes it hard | what makes it correct |
|---|---|---|---|---|
| Lean REPL session, `lean_repl.py` | the process; `_env`, `_preamble_loaded`, `_session_cmds` | start, send, send_transactional, load_preamble, ensure_preamble, reset_env, retract, snapshot, restore, print_axioms, kill, revive | the process hangs, exits between or under requests, does not start; three fields written by seven methods | the fields describe one environment that the process holds |
| Lean tools, `tools/lean_tools.py`, `tools/bridge.py` | none of their own | lean_check, lean_typecheck_statement, lean_search, lean_prove (in the session, durable), reset_env, retract, verify_coloring | each is several requests; any may be the one that fails; a durable proof swaps the session out and in | a verdict is one the kernel gave; a miss or a failure leaves the session as it was |
| Locked lemmas, `lemmas.py` | an ordered list, one entry per name | lock, replay | replay order; replay against whatever environment is live | what is locked has a claim; a reset brings it back |
| Agent loop, `agent.py` | round counter, interrupt flag, the turn in progress | step in the modes chat, hunt and forever hunt; dispatch; staircase; settlement | Ctrl-C between any two events; timeouts; several calls in a turn; compaction in the middle of a hunt | every call is answered; a hunt stops at its proof; a step returns |
| Sessions, `session.py` | transcript, ledger, notebook; a JSONL file | log_user, log_history_item, log_claim, log_lemma, log_compaction, load | killed between any two lines; texts with U+0085, U+2028 or U+2029 | the file, when it can be read, reloads to the session |
| Compaction, `compaction.py` | the transcript | should_compact, compact | where the window falls; the model is called for a summary and may fail | trust state untouched; no call separated from its result |
| Trust ledger, `ledger.py` | the claims | record, mint | none alone | append-only |
| REPL, `repl.py` | the current session | prompts, hunts, slash commands, Ctrl-C, automatic compaction | commands between steps; `/resume`, `/clear`, `/promote` touch ledger, file and Lean process | these three agree afterwards |
| Campaign, `campaign.py` | bind (survivors, note, fingerprint, streak); it reads ledger and notebook | next_step, note_stagnation, the injections of a forever hunt | the notebook forgets; the bind outlives `/clear` and `/resume`; compactions repeat an injection | the staircase only rises; a hunt that does not move is told, one that moves is not |
| Promotion, `tools/library_writeback.py`, `referee.py`, `src/ci/` | the corpus directory, `Literature.lean`, several session files | `/promote` (resolve, review, elaborate, write, gates, rollback, record), `/clear`, `/resume` | nine steps over files, any of which fails, is interrupted or is the last; a review whose model may answer anything | a recorded promotion keeps a complete entry; nothing else is left behind; flawed claims do not pass |
| Discharging, `src/empirical/.../discharging/` | an argument; the best of a search | verify_unavoidable, discharging_search, covers, mutations | rules that cover themselves; two levers in one search | an argument closes only with a core the regular neighbourhood contains; the search descends |
| List colouring, choosability, Alon–Tarsi, `src/empirical/.../coloring/` | the clauses of a search; the alarm | witnesses and obstructions, chromatic certificates, the refinement loop, the coefficient | the solver answers in any order; symmetry breaking and palettes; an alarm inside its own `finally` | every claim is true; every call is answered |
| Fixer-breaker and fixability, `fixer_breaker.py`, `bit_assignments.py`, `fixability.py` | the sizes still to be packed; boards won so far; a memo | packing, dealing, the rounds of the game; the recursion | list sizes of any number and sign; cycles between boards, memoised while they are computed | both agree with the definition; the game ends |
| Graph operations and relations, `src/empirical/.../fundamentals/` | none | structural operations, containment, minors, k-cores, hitting sets, the census | what a library's call means | operations do to the invariants what they should |
| Model providers, `models.py` | none | the messages of a request | one message per item, per turn or per result, as the provider wants it; whatever was interrupted or compacted before | a request has a result for every call |
| Display, arXiv and literature search, Lean corpus | see `PROJECT.json` | | I/O, formats, tables | not modelled, see section 8 |

### How they interact

The REPL logs the user's line and drives `Agent.step`, a generator, to its end.
A step calls the model, logs its turn, dispatches each call to a tool and logs
the result; a claim among the results goes to the ledger before its result to
the transcript, and the lemma of a `lean_prove` into the notebook after it.
Memory is changed first, then one line is appended to the JSONL file. The tools
share one `LeanREPL` object and through it one process. Python code is single
threaded: what interleaves is the process (it may die at any time), Ctrl-C
(which sets a flag that the loop reads at given points) and a kill of the whole
program (at any event).

A campaign keeps no state of its own progress: it is read off the ledger and the
notebook at every injection. What the tools of the empirical tier find goes to
the ledger and, through the bind, into the wording of the next step. A promotion
starts from a claim of the ledger, asks the referee and a human, goes through
Lean in a fresh environment, and ends in files that the gates of `make gates`
read, and in a claim on the ledger again.

### Hazards

`PROJECT.json` lists, at its line, everything in this code that is hard to test:
stale environment ids after a restart, a request sent again to another process,
interrupts during the recording of a turn, kills between two lines of the file,
windows that cut a group of calls, replay orders, swallowed failures; a
write-back cut between two files, a rollback that does not undo its imports, a
review whose halves contradict each other; a file truncated before it is written
again, a claim in memory whose line is not in the file; separators that JSON leaves
as they are and the reader splits at; a size that is never packed; a streak over fingerprints; a solver's
order of answers, memoised cycles, palettes and caps, an alarm in a `finally`.
Each is covered by the properties named there or says why not.

## 2. Modules

| module | what it is |
|---|---|
| `LeanSession` | the Lean process, `LeanREPL`, the Lean tools, the notebook, and the sessions it goes between |
| `MCLeanSession` | its instance for TLC: two declarations, one citing the other |
| `LeanSessionProofs` | its types, SessionFaithful, OnlyRestoreGoesStale, proved |
| `LeanSessionActions` | FalseProofOnlyAcrossProcesses, DurableKeepsSession, RebindReplays, ResetReplays, proved |
| `TrustLog` | abstract specification: a ledger that only grows and lemmas that are locked only with a claim |
| `AgentLoop` | `Agent.step`, the session, its file and the compaction, as the REPL drives them; implements `TrustLog` |
| `MCAgentLoop` | its instance for TLC: a lemma, proofs of the conjecture good and bad, a counterexample |
| `Providers` | AgentLoop's transcript as the messages of the two providers, and what they take |
| `AgentLoopProofs` | its types, ReloadsAsIs, and that it implements `TrustLog`, proved |
| `AgentLoopSafety` | InterruptBoundsWork, HaltsWhenSettled, CallsAnswered, CompactionKeepsGroups, proved |
| `ProvidersProofs` | RequestsAnswered, proved |
| `Referee` | the checks, the model pass and the merge of `referee.py`, as functions |
| `CorpusGates` | the corpus and the gates over it, as predicates |
| `Promotion` | the REPL's sessions and the write-back; uses the two above |
| `MCPromotion` | its instance: two entries, a clean theorem and two flawed ones |
| `PromotionProofs` | its types, PromotionsBacked, EntriesAccounted, FlawsBlock, RedOnlyWhereCut, LedgersAgree, proved |
| `Discharging` | the verifier, the covers and the moves of the search, as functions |
| `Campaign` | the staircase, its injections, and the tools that move it; uses `Discharging` |
| `MCCampaign` | its instance: degree 3 for 9, three cores |
| `CampaignProofs` | its types, StairsOnlyRise, ReformulateWhenFrozen, ClosedCoversRegular, SearchDescends, proved |
| `SimpleGraphs` | graphs, structural operations, relations, hitting sets |
| `ListColoring` | colourings, chromatic certificates, clauses of the choosability search |
| `AlonTarsi` | orientations and the coefficient of the graph polynomial |
| `FixerBreaker` | boards, the game, the recursion with its memo, the definition of fixable |
| `Tools` | the empirical tools as calls with phases; uses the four above |
| `ToolsProofs` | its types, NoBadListLost, AlarmContained, SearchClaimsHold, WonBoardsFixable, and the claims about colourings and cliques, proved |
| `MCTools` | its instance: all graphs up to four vertices, and some larger |

### LeanSession and the code

`lean` is the process together with the fields of the `LeanREPL` object: `proc`
and `gen` (which process), `envs` (the environments it has issued, each with the
preamble it began from and what is declared, proved or left with a hole), and
`env`, `loaded`, `cmds` for `_env`, `_preamble_loaded`, `_session_cmds`. `job` is
the tool call in progress with the stage it has reached; `claims` the verdicts;
`notebook` the locked lemmas, and `shelf` those of the session that was left.
`Clear` and `StartResume` are the REPL's `/clear` and `/resume`: the notebook
changes at once, the process is only told what `bind_session` replays into
whatever environment is live. The other session keeps its declarations there, so
that a lemma may cite one that its own notebook does not have, and a lemma of the
resumed session may find its name taken, by a failed `lean_check` even with a
hole: it is declared then, but `replay_locked_lemmas` counts it as failed.

`Request` is `_request`: `Running` is `_ensure_running`, `TimesOut` and `Dies`
the two ways `_read_response` fails, `Revived` the second attempt. Its value is
the *set* of outcomes, each with the process it leaves, and `Send`, `SendFresh`
and `Commit` are what `send` and `send_transactional` keep of one. As in the
code, the environment id of a request is taken before `_ensure_running` looks at
the process. An action of the module is one request of a tool with everything
the tool does with its answer: `Check`, `Typecheck`, `Search`, `Prove`,
`Bridge`, `Axioms` (the `#print axioms` that ends a proof, the claim, the lock,
the restore of a durable proof), `Install`, `LoadPreamble`, `Replay` (one
command of reset_env, retract or bind_session). `Finish` is how a tool ends;
for a durable proof it includes the `finally` that restores the snapshot.

External, and modelled from how the code uses it: what Lean answers
(`Elaborates`, `After`, `Answer`). One thing there carries weight: to an
environment id it never issued, the process replies
`{"message": "Unknown environment."}`. That object has no `messages`, and
`_to_goal_state` reads a reply without messages as one without errors. Ids
begin from the same number in every process, so an old id may also name a new
environment. An environment id in the model has a second part, the process it
came from, which no guard of the program reads; only properties do.

### AgentLoop and the code

`mem` is the `Session` object, `disk` its file in two parts. `said` is what the
lines say of a session: `load` reads them in order, so appending a line is one
step of that reading (`Reread`). `legible` is whether `load` gets that far. A line
is JSON with `ensure_ascii=False` (`session.py:171`), in which U+0085, U+2028 and
U+2029 stand as they are, and `load` takes the text apart with `splitlines()`
(`session.py:228`), which splits at them: after any text with one (of the user, the
model, a tool or a claim) it raises on the half of a line. `WriteEvent` lets every
write be of such a text or not, and `Resume` and the resume after a crash need a
legible file: where it is not the program prints the error and stays where it is.
`run` is where `Agent.step` is; `interrupt` is the flag; `used` counts for the bounds. Between two actions there is a `yield`, a call of
the model or a tool, or a write: the points where the program may be
killed or where the flag changes something.

`Prompt`, `StepBegins`, `NextRound`, `HuntCompaction`, `Inject`, `RespondText`,
`RespondError`, `RespondCalls`, `Nudge`, `RecordCall`, `DispatchPlain`,
`DispatchClaim`, `RecordResult`, `Settle`, `CheckInterrupt`, `Flush` are step
from top to bottom; `AutoCompact`, `SlashCompact`, `Resume`, `Interrupt` are the
REPL; `Crash` is a kill. A headless run is the same without `AutoCompact`. A
transcript item keeps its kind, and for a call or result which call of the turn
it belongs to; a claim keeps the fields of its provenance that decisions read. A
call is identified by its position in its turn, which is how providers whose ids
repeat across turns identify it. A tool result carries at most one claim.
Whether a compaction is due depends on lengths of texts and is nondeterministic;
so is the kernel check of a type inside `campaign_settlement` (`AsksKernel`: for a
proof of the conjecture, `agent.py:865-867`).

Work that begins while an interrupt is pending is counted in two places of `run`:
`late` counts turns of the model and tool calls that the model asked for, `aside`
what the loop asks for on its own, the summary of a compaction (`agent.py:718`,
`compaction.py:110`) and the kernel check of a settlement. `AutoCompact`, the
REPL's compaction after a step (`repl.py:291`), is not part of the step and not
counted.

`Providers` turns the transcript into the messages of a request
(`AnthropicMessages`, `OpenAIMessages`), as `models.py` does before every turn. A
message merges neighbouring items and changes none, so it is the pair of places
of its first and its last item. What the two services require of them is external (`AnthropicAccepts`,
`OpenAIAccepts`): a result for each call, in the message after it or in the tool
messages after it. Neither is asked to refuse results without a call, which
finding 4 is about.

### Promotion and the code

`ledger` is the ledger in memory, `log[s]` the claims in the file of session
`s`, `recent` the files by the time of their last write (what `latest_id` sorts
by), `worked` those that hold more than their first line. `at` is the stage of
the write-back, `corpus[e]` the directory of an entry, `content[e]` what the
human brought for it, `barrel` the imports of `Literature.lean`. Three variables
say what was cut, and no guard reads them: `failed`, the entries whose
write-back was cut, or failed after its import; `lost`, the entries whose import was
gone when a write of the barrel was cut; `unlogged`, the claims that are in memory
while their line was cut off before the file had it.

`Start`, `StartResume`, `StartContinue`, `Quit`, `Clear`, `Resume` and `Turn` are the
REPL; `Promote` is `/promote` up to the human's confirmation, `/referee` the same
review without the rest. `Elaborate`, `MakeDir`, `WriteFile`, `OpenBarrel`,
`AppendImports`, `RunGates`, `Record` and `LogClaim` are `lean_add_to_library` and the
end of `/promote` from top to bottom, `Rollback` its `except Exception`, which a
`KeyboardInterrupt` (`Interrupt`) does not enter. The barrel is written in two steps,
as `write_text` does it (`library_writeback.py:171-178`): the file is truncated
(`OpenBarrel`, unless the import is there already), its imports being held in memory
(`job.held`), and then written (`AppendImports`); a write error, Ctrl-C or a kill in
between leaves it with any part of them. A promotion is recorded in three: in the
ledger (`repl.py:699`, `Record`), in the ledger again and in the file (`LogClaim`,
`session.py:194-197`); Ctrl-C or a disk error between two of them leaves the running
program with a claim that its file does not have. So may the claims of a `Turn`. A
line of the barrel that is half written counts as not imported. A text is the set of
phrases that the checks of the referee look for; a snippet is what the gates and Lean
tell apart: how it names its theorem, its axioms, its sanity part, a quote in the
citation, the word sorry.

Worth knowing, and visible in the model: a write-back that is cut or fails after
its import leaves the gates of the whole corpus red, because the import points
nowhere; one cut between truncating and writing the barrel drops the imports of
entries that were promoted long before, and no gate asks whether an entry is
imported; a directory that Ctrl-C or a kill leaves with files in it makes a
retry under the same name a refusal, an empty one makes it an error; a name with
a prime or a letter outside ASCII passes the local gates, and the pattern of
`check_imports` does not read its import line; `/promote` without an index takes
the last *proved* claim, which after a promotion is the promotion; its claim is
recorded twice in memory (`repl.py:699-700`) and once in the file; the
cross-check of the referee's empirical check reads `claim.statement` only, the
heuristics read type and notes as well; `/resume` without an id takes the newest
file even if it is empty, only `--continue` asks for content.

### Campaign, Discharging and the code

`ledgers` and `notebooks` are those of the sessions that `/clear` and `/resume`
go between, `bind` is the `CampaignBind` of the process, `last` what the last
message is (`_inject_campaign_step` does not repeat a staircase that is the last
message already). `RoundWithStair` and `RoundWithout` are a round of a forever
hunt with and without an injection, each with the model's answer, in prose or
with calls; `Switch` is `/clear` and `/resume` between two hunts; the tools are
`ReducibleConfiguration`, `LeanProve`, `DischargingUnavoidable`,
and `StartSearch` with one `SearchStep` per iteration. `still`, `undone` and
`scores` are observers. `Discharging` is written in terms of `V1_D`, which is 9
in the code: nothing in the verifier depends on the 9 but the number of types.
Where the code walks a Python set, the order is the constant `Graph6`.

Worth knowing: survivors and note of the bind survive `/clear` and `/resume`;
REFORMULATE stays shown until the next injection; a model that answers in prose
in every injecting round is never told (`docs/handoff/HUNT_AND_LEMMAS.md:80-84`
describes the notice); the fingerprint reads durable names from the notebook, so
a session proof over a durable lemma followed by the durable proof again returns
to the old one; `retract` leaves the notebook as it is (`LemmaNotebook.drop` has
no caller), so that it is no step of a campaign and what it dropped is locked
again by the next reset; misses that alternate without the regular residual
reset the streak each time; an improvement that the search accepts in its last
iteration is never verified; the docstring of `core_forced_in_type` calls the
forced core a heuristic, and the model takes it as the definition.

### Tools and the code

`call` is the request, `phase` where it is, `job` what it has computed, `last` the
outcome with the root of trust it was minted with, `timer` and `handler` the
process's alarm. A tool that is one computation answers in one step (`Answer`);
those that iterate do so step by step: `Begin`, `Refine`, `FindBad`, `Exhaust`,
`Leave` are the refinement loop of `choosability.py`, one SAT answer per step, and
`Alarm` may fall between any two and inside the `finally`; `Play`, `Pack`, `Deal`,
`Round`, `GameOver` are the game; `Sweep`, `SweepOne`, `SweepEnds` the census. The solver
is modelled by what it promises: some assignment that satisfies all clauses, or
none. The functions follow the algorithm of the code (the interpolation of the
coefficient, the elimination order of the cores, the memo of the recursion); the
predicates they are compared with, in `Holds`, are definitions from the
literature over all colourings, lists, orders or minors.

`IsRequest` is what the argument models let through (`tools/arg_models.py`): the
sizes of a fixer-breaker call are any list of integers, of any length (`Listed` is
the graph on the vertices that have a size). `Pack` is `to_bit_vector`, a bit of
every size per step, until all are zero; with a negative size that never happens
and `Pack` stutters for ever. `Deal` makes the boards, and raises when an edge ends
at a vertex without a size. That a list with zeros, one that is empty, too short or
too long, and one with a negative size that leaves no pot to deal from are answered
as the model says was compared with the program on two graphs of three vertices.

Worth knowing: `fixer_breaker` with sizes `[2, 2, -1]` never returns
(`src/empirical/konigsberg_empirical/coloring/bit_assignments.py:31-43`), and the
game has no deadline, so nothing but Ctrl-C ends it; with no sizes at all, or only
zeros, there is no board and the claim is "fixer wins"; an alarm inside the `finally` escapes as the raw deadline and
leaves the handler bound; `list_critical` and `bk_search` have neither cap nor
deadline (`tools/empirical_tools.py:26` remembers n = 9 hanging the loop); the
claim of `alon_tarsi` does not say the size of the lists; extracted certificates
are verified again, so a fault of a search surfaces as an error and not as a
false claim.

## 3. Properties

LeanSession, on any mixture of tool calls, hangs, exits and failed starts:

- **SessionFaithful**: the three fields, and every snapshot of them, describe an
  environment the process holds, unless their id is an earlier process's.
- **OnlyRestoreGoesStale**: the only step that brings a dead process's id into
  the session is the restore of a durable proof.
- **FalseProofOnlyAcrossProcesses**: a proof claim without a kernel proof needs a
  stale session or a process that changed between two requests of one tool.
- **ResetReplays**: after a reset a locked lemma is back if it and those before
  it are complete proofs that cite only earlier ones.
- **RebindReplays**: after a resume the same lemmas are declared again, whatever
  the session that was left had put into the environment, unless there was no
  process to replay into and none could be started: then the replay has raised.
- **DurableKeepsSession**: a durable proof leaves commands and declarations of a
  session whose process survived.
- **ToolsReturn** (liveness): every tool call returns.

AgentLoop:

- **KeepsTrust** (refinement): ledger and locked lemmas behave as `TrustLog`.
- **ReloadsAsIs**: whenever the program runs, the lines of its file say what is in
  memory; the file reloads to it unless a separator made it illegible.
- **CallsAnswered**: between turns every call in the transcript has exactly one
  result in the message after it, interrupted or not.
- **RequestsAnswered**: every request that is sent, to either provider, begins as
  the provider wants it and has a result for every call where the provider looks
  for it, through interrupts and compactions.
- **CompactionKeepsGroups**: a compaction cuts no group of calls and results.
- **HaltsWhenSettled**: a forever hunt reports its end only with a settling claim
  on the ledger, and begins no round after one.
- **InterruptBoundsWork**: once an interrupt is pending at most one more model
  turn or tool call begins before the step returns, and at most one call of the
  loop's own: a summary, or the kernel check of a settlement.
- **StepReturns** (liveness): a step comes back to the prompt.

Promotion, over all answers of the model and of Lean, write errors, Ctrl-C and
kills:

- **PromotionsBacked**: a promotion that a ledger or a file speaks of has an
  entry behind it that is complete, imported and green; no later write-back and
  no rollback takes it away, and only a cut between the truncation of
  `Literature.lean` and its write takes its import.
- **EntriesAccounted**: outside of a write-back, a directory that nothing was cut
  short in is a whole entry with its claim in a file, imported unless a cut write of
  the barrel dropped it.
- **RedOnlyWhereCut**: the local gates are fewer than `make gates`; the corpus is
  green under all of them but for the entries whose write-back was cut or failed
  late, those that a cut write of the barrel dropped, and those whose name
  `check_imports` does not read. Which entries these are is named (`Spoiled`), so
  that no cut is an excuse for another entry.
- **LedgersAgree**: a file is never ahead of its ledger; through `/clear`, `/resume`,
  restarts and promotions memory and file agree, up to the copies of a promotion
  and the claims whose line an interrupt or a disk error cut off.
- **FlawsBlock**: a claim with a planted flaw does not pass, whatever the model
  says; nor does one the model objects to, whatever the heuristics say.
- **WriteBackEnds** (liveness).

Campaign:

- **StairsOnlyRise**: within a session no step goes down the staircase, not even
  a session proof that replaces the durable lock of a lemma.
- **ClosedCoversRegular**: an argument closes only with minted cores of which one
  is forced in the regular neighbourhood, which no rule can discharge.
- **SearchDescends**: each argument a search verifies is better than the last.
- **ReformulateWhenFrozen**: a hunt is told to reformulate only after three
  injections without a gain, or after a durable lemma was unlocked.
- **FrozenIsTold** (liveness): a hunt that stays where it is, and goes on
  injecting, is told and goes on being told.

Tools:

- **CertifiedHolds**, **DecidedHolds**: every claim of the tools that answer in one
  step, and of the census, is true by definition, for each of the two roots of trust.
- **SearchClaimsHold**: every claim of the choosability searches is, unless it is
  stamped as not exhaustive (a palette given too small), which claims nothing.
- **NoBadListLost**: no clause rules out a bad assignment.
- **AlarmContained**: the alarm never hits another tool.
- **WonBoardsFixable**: a board won with the restricted moves of the code is won
  in the game of the paper.
- **MemoAgrees**: the recursion that counts a board in progress as lost, and
  remembers what follows, still answers as the least fixpoint.
- **EveryCallAnswers** (liveness): every call is answered, but a fixer-breaker call
  with a negative size and a pot to deal from.

## 4. Runs

| run | bounds | shows |
|---|---|---|
| `lean_session` | 2 names, 2 processes, 3 tool calls, 2 sessions with lemmas | all properties of LeanSession |
| `lean_false_verdict` | the same with 2 tool calls | finding 1 |
| `lean_stale_restore` | 2 tool calls | finding 2 |
| `lean_miss_leaves` | 2 tool calls | finding 3 |
| `agent_loop` | 2 prompts, 2 answered model turns, 2 tool calls, 1 crash, rounds capped at 3 (hunt) and 2 (chat), window of 2 items, staircase every 2 rounds | all properties of AgentLoop and Providers |
| `agent_orphan_results` | the same, no crash | finding 4 |
| `agent_forever_dies` | the same, no crash | finding 5 |
| `promotion` | 2 entries, one of a name that `check_imports` does not read; 3 theorems, 8 snippets, 7 answers of the model; 3 sessions, 3 commands, 1 kill or Ctrl-C | all properties of Promotion |
| `promotion_unbuildable` | the same | finding 6 |
| `campaign` | degree 3, 3 cores, lists of at most 2, 4 arguments; 2 sessions, 3 calls or switches, searches of at most 3 iterations, streaks told apart up to 3 | all properties of Campaign |
| `tools` | all graphs of at most 4 vertices up to isomorphism, the five-cycle, a triangle with a tail, the wheel; searches on at most 3 vertices (4 for list_critical), boards on at most 4 | all properties of Tools |
| `subgraph_induced` | the same | finding 7 |

The action properties of `lean_session` were also checked with four tool calls
(5,666,635 distinct states), which is where RebindReplays first needed its
exception (section 7).

*Why the bounds are enough to matter.* Two declarations where the second cites
the first give a lemma that survives or does not, a dependency, a missing one
and a hole that is inherited. Two processes are one loss at any point; a request
that kills its process and the process that replaces it is the whole of the
revive. Three tool calls are two that build a session and one that something
happens to, with a `/clear` between any two of them, and a durable proof alone
has up to five requests. Two prompts put a transcript that something happened to
before a further turn; two calls in a turn are an interrupt before, between and
after them; a window of two items makes every alignment of window and group
occur; a staircase every two rounds makes both reasons for it (its period, a
compaction) occur within three rounds. A process that cannot be replaced any
more (`MaxGen`) no longer fails, and a model that may not answer any more
(`MaxTurns`) raises: both end behaviours the way the code would end them, so the
liveness properties are not satisfied by running out.

Three commands are a claim, its promotion and one thing after it: a second
promotion of the same or of the other entry, a `/clear`, a `/resume`, a restart;
or two claims of which the promotion must pick one. Three sessions are one to
leave, one to work in and one that is empty. The one stop may fall between any
two stages, before or after another promotion. Degree 3 has seven types where
degree 9 has nineteen, with both kinds of centre and of neighbour and the
regular one among them; the three cores are one that no type forces and one for
each of the two degrees; the arguments are one without rules, one rule in each
direction between the two degrees, and one that is refused. Two sessions and
three calls are a gain in one hunt, its loss, and what a second hunt makes of
it. Three injections are what the threshold of two needs. Four vertices are
enough for every class that the tools tell apart but two: an odd cycle that is
not a clique, and a chromatic number that neither cliques nor odd cycles show,
and for these the five-cycle and the wheel are there. The caps
(`CHOOSABILITY_MAX_N`, `MAX_CORE_VERTICES`, `BK_DELTA`, `MINOR_HOST_MAX`,
`MINOR_PATTERN_MAX`) are scaled down with the graphs, so that both sides of each
occur. The sizes of the fixer-breaker calls are not only those of a board: there are
lists with zeros, with a negative size, empty ones, and ones too short or too long for
the graph.

In the runs of LeanSession, AgentLoop and Promotion deadlock checking is off:
when the bounds are used up and the user types nothing, the program rightly
waits at its prompt. In `campaign` and `tools` it is on.

## 5. Fairness

LeanSession assumes weak fairness of `Step`, the next request of the call in
progress: `_read_response` has a deadline, so each request ends with an answer,
a timeout or an error. Nothing is assumed of the user or of the process.
AgentLoop assumes weak fairness of `Loop`, what step and `run_agent` do of
themselves: model and tools are called with timeouts and whatever they do is one
of the outcomes. Prompts, interrupts, crashes and resumes are not fair. An
interactive forever hunt has no round cap (`hunt_max_rounds` 0) and is not
meant to return: StepReturns is about the modes with a cap.
Promotion assumes it of `WriteBackStep`, code without a wait that has no
timeout. Campaign assumes it of the rounds, because a forever hunt goes on until
it is interrupted; that injections recur is a hypothesis of FrozenIsTold and not
assumed. Tools assumes it of `Working`, the computation in progress; the alarm is
not fair. It may never fire, so the searches end without it. A packing that is
endless (a negative size) only stutters, so fairness does not end it: EveryCallAnswers
excludes it by name (`EndlessPacking`).

## 6. Findings

1. `lean_repl.py:431`. The environment id of a request is put into the payload
   before the process is looked at, and the same payload is sent to the process
   that replaces a dead one, which does not know the id; its reply reads as
   success. `lean_check` then reports `ok`, which is the answer a campaign is
   settled on (`agent.py:389-390`: "A false positive is the one outcome we must
   never produce.").
2. `tools/lean_tools.py:213`. A timeout inside a durable proof kills the process,
   and the `finally` then restores a snapshot of the dead one: environment id
   and preamble flag return, and `ensure_preamble` reloads nothing, where
   `lean_repl.py:13-15` says that it does.
3. `tools/lean_tools.py:225`. A snippet with `sorry` elaborates with a warning, is
   committed, and is refused only afterwards: its declaration stays, where
   `tools/lean_tools.py:171-172` says that a failure leaves none behind.
4. `agent.py:780`. An interrupt while the calls of a turn are being recorded logs
   results for calls that were not; the next turn sends results without calls.
5. `agent.py:718`. In a forever hunt the summary of a compaction is asked of the
   model outside the `try` that turns its timeouts into text.

6. `tools/library_writeback.py:73`. A promotion elaborates its snippet in the REPL
   and never builds the files it writes. A bare snippet is wrapped in `import
   Konigsberg`, which imports `Konigsberg.Literature`, which imports the entry: a
   cycle. One with a namespace of its own gets no import; one with a qualified
   name gets it twice. The gates read text and recorded axioms, and pass;
   `docs/handoff/BROOKS_INGEST.md:27` says that formalized means it builds.
7. `src/empirical/konigsberg_empirical/fundamentals/relations.py:43`. `is_subgraph`
   uses a matcher that enumerates induced subgraphs, and claims that a triangle
   has no path of three vertices; its docstring (line 35) says "not necessarily
   induced". DecidedHolds leaves its claims out.

Each is found by a run of its own, with the shortest behaviour that shows it.
Finding 1 is why FalseProofOnlyAcrossProcesses has the exception it has.

## 7. Proofs

All theorems hold for every value of the constants that satisfies the named
ASSUMEs of the modules: every number of names, processes, calls, rounds, prompts
and crashes, any dependency relation, any corpus, any texts and answers of a
referee, any graphs, seeds and discharging arguments. The ASSUMEs give types of
the bounds, of the graphs, the catalog and the arguments that are proposed (whole
charges, rules of whole amounts, well shaped or not), a nonempty set of names and
a value for None that is no id. Two say more: `WhitelistType`, that sorryAx is no axiom that the gates allow
(`src/ci/check_axioms.py:44`), and `StreakType`, that streaks are told apart
beyond the threshold (a bound of the model; the counter of the code has none).

Outside `Tools` every invariant and action property that a run checks is proved;
of `Tools`, those about the searches, the game, the alarm and the types, and two in
part (`NumbersAreTrue`).

### The Lean session

**LeanSessionProofs**: `TypeCorrect`, `SessionIsFaithful`, `StaleOnlyByRestore`.
The invariant is TypeOK, SessionFaithful and *a replay that is in progress has
work left* (without it `Head(job.todo)` has no type). The argument is in two
layers. Below, a request, whatever happens to the process, ends in a state that
is either the old one, or one whose fields were forgotten and whose process is a
later one (`Later`), with an answer of that process or a raise. The lemmas
`Later...`, `RequestOutcome` and `AnswerFacts` say so once, so that no action
has to look at timeouts and deaths. Above, what a tool does with an outcome
(`Finish`, `Continue`, `Advance`) preserves the invariant, and each action is
one of those. That a declaration stays in the environments that extend it is
what makes the session commands still present after a commit. StaleOnlyByRestore
is an action property of the same steps.

**LeanSessionActions**: `FalseProofTakesTwoProcesses`, `DurableLeavesTheSession`,
`ResumeDeclares`, `ResetProves`: what one tool call does from its first request
to its last. `SendCases` reduces a request to three cases: the same process
answered; there is none; it was lost, and what runs now is a later one.

- A claim without a kernel proof. The axioms that a process lists of a name are
  those of the environment that it issued (`AcceptedIsReal`). If the environment is
  not stale and the process is still the same, they are those of the proof.
- A durable proof. `DurableInv` ties the session to its snapshot: from the
  preamble to the axioms the tool works in environments of its own, and when it
  comes to install the lemma the three fields are the snapshot's. Environments
  of a process only grow, so what was declared in the snapshot's still is.
- A reset or a resume. `RebuildInv` says which lemmas are still to be replayed:
  `job.todo` is what is left of the notebook, from `Replayed` on. `ResumeInv` and
  `ResetInv` say what the replayed ones have become, declared in the one case and
  proved in the other. The second needs that nothing else is declared (`Clean`):
  a name that is taken makes a replay fail. Both need `OnceEach`, that a notebook
  has each name once, which is why locking a name again must take the old
  entry out. `Transacted` is a replayed command: committed and proved, or
  refused and the session as it was.

The proof corrected the model. RebindReplays was stated for every resume that ends
with a session in the fields, and its induction failed where the process has died
before the first replay and cannot be started: the fields then still speak of an
environment, and nothing was replayed. `replay_locked_lemmas` does raise in that
case, so that the property has an exception for it; TLC confirmed the behaviour
with four tool calls, one more than the run has (a lemma is proved, a retraction
leaves its notebook, a durable proof loses its process, a resume).

### The agent loop

**AgentLoopProofs**: `TypeCorrect`, `SessionReloads`, `TrustImplemented`. The
invariant is TypeOK, ReloadsAsIs and *ClaimRecorded* (of what the lines of the file
say, whether or not `load` gets through them): while the result of a
claim is being recorded and settled, that claim is on the ledger. It is what
lets the step that locks a lemma be a step of `TrustLog`, which locks only what
has a claim. The refinement maps the ledger and the names in the notebook of the
session that counts: the one in memory, or after a crash the one its file records. A
crash and a resume are then stutters because the two agree; a file that `load` cannot
read is not resumed, and keeps what it records. The one lemma with
work in it is `EntryRemoved`: locking a name again takes its old entry out of
the list and loses no other name.

**AgentLoopSafety**: `InterruptIsBounded`, `HuntHaltsWhenSettled`,
`EveryCallAnswered`, `CompactionCutsNoGroup`. The invariant `SafetyInv` has one
part for each of the first three. `LateIsLast`: after a turn or call that began under
an interrupt only those stages are reached that begin no other (`LateStages`), and
after a call of the loop's own only those that begin no second one (`AsideStages`). The
second set has the turn that may follow a summary, the first has the settlement that may
follow a call, which is why the two are counted apart. `HitInTurn`,
`HitSettled`: a hit lives within one turn, and its claim is on the ledger.
`Grouped` says at each stage how the transcript ends: n calls recorded and r of
their results, the calls before them answered (`Turn`, `Answered`). The
properties speak of a transcript between turns; in the middle of one neither is
inductive, and it is the count of results against calls that makes the last
result, or the flush of an interrupt, answer exactly what was open. A compaction
keeps it because the window opens at no result and behind no call
(`CompactionCutsNoGroup`), so that each group that is kept is kept whole.

**ProvidersProofs**: `EveryRequestAnswered`. Whether a transcript is accepted
depends on where the messages begin and end. The lemmas about runs of items
(`OneKind`, `RunEnds`) find the last call of the message a call is in, and the
results after it; `Grouped` says that they are one for each. `FirstInv` is what
else a provider asks: the first item is the user's or a summary.

### Promotion

**PromotionProofs**: `PromotionsStayBacked`, `NothingLeftBehind`,
`SameClaimsAlways`, `FlawedNeverPromoted`. The invariant follows the write-back.
`InStep` says which files stand at each stage and what has been checked;
`BackedElsewhere` says that a promotion of a ledger leans on an entry that is *not
the one being written*, which is what makes the rollback safe: it removes
something nobody leans on. That in turn holds because a write-back starts only
on a name without files. `Accounted` lets an entry be unaccounted for only while
it is written. While the barrel is truncated its imports are what the write-back holds
(`Imported`), and a cut there may take them (`Kept`: imported, or named in `lost`); what
was imported is one or the other ever after. The lemmas `FilesGrow` and `StageOrder` unfold the stages once.
FlawedNeverPromoted carries, from the review to the record, that the claim was
allowed; that what is allowed has no planted flaw is a case split over the
merge of the referee (`referee.py:831-882`).

In the second half: `GreenUnlessCut`, `ReloadGivesTheLedger`, `TypeCorrect`.
RedOnlyWhereCut says nothing during a write-back; `RedInv` does: what the barrel
imports is complete but for the entries whose write-back failed, files are in
directories, what no gate may excuse is named (`Spoiled`), and every directory other than the one being written is green. The
step to `make gates` is then a case per gate. LedgersAgree compares two ledgers
less the promotions they hold, and less what is `unlogged`: between the two steps of
the record the promotion is such a claim, and a cut there makes it one for good. `Others` is a recursive function over the places
of a ledger, and what it gives for one claim more (`OthersOfOneMore`) is an
induction: without the library's theorem, which takes an operator, it is done on
a set of numbers that has 0 and, with each number, the next (`CountUp`), from the
well-foundedness of the naturals.

### The campaign

**CampaignProofs**: `StaircaseRises`, `DurablesAreBacked`,
`ReformulationIsEarned`, `ClosesOnMinted`. `next_step` asks the notebook and the
ledger, and the notebook forgets. The invariant is what makes that harmless: a
lemma locked as durable has its claim on the ledger of its session. With it, and
because no action takes a claim off a ledger (`LedgersGrow`), each of the
questions the staircase asks stays answered with yes (`DurableStays`,
`CoresStay`), and so the stair does not fall.

For the streak the invariant is `StreakInv`: the fingerprint of the bind is one
that the session has really had, and either something was gained since, and then
the next injection will see another fingerprint and begin again from 0, or
the injections without a gain are more than the streak. That a gain is always
seen (`OutdatedStays`) needs that ledgers only grow and that no durable lemma is
unlocked, which is the exception in the property. `ClosesOnMinted` is the half of
ClosedCoversRegular that is about the ledger: the verifier refuses an argument
over cores that are not minted, and the search passes it only such.

`CampaignTypes`, `ClosesOnRegular` and `SearchesDescend` are about what the
verifier and the search compute, so the definitions of Discharging are folds and
orders that can be reasoned about: a ranking is the sequence in which each
member stands behind those that precede it (`InOrder`), the final charge a
recursive function over the places of the rules. `EachPlaceTaken` says that
an order that is total ranks each member once, by counting what stands before it.

- The regular neighbourhood. A rule moves into its centre what it moves out of
  it (`RegularKeepsCharge`, by counting up the rules), so its final charge is the
  initial one. An argument that closes has a forced sign and no survivors; the
  regular type has a deficit, hence some core on the list is forced in it
  (`HitCoversRegular`), and the list is that of minted cores.
- The search. `SearchShape` says that the list of a search has each core once, is
  minted, and that its argument passed the checks whenever something was scored;
  `Descent`, that what it holds now will score below the last entry of `scores`.
  There are two ways to go on. A cover that is added is forced in a survivor, so
  the survivors become fewer, whatever their deficits (`FewerSurvive`,
  `CoverDescends`): that the cap on the list leaves room, and that a cover on the
  list already is not added again, is where this could fail. Without a new cover
  a move is taken, and only one that verifies to a lower score. `NotRefused`
  says that neither turns an argument into one the verifier refuses.
- The types need both: survivors are ranked local types, and claims name cores.

### The tools

**ToolsProofs**: `SearchClaimsTrue`, `NeverLosesBadList`, `AlarmStaysInside`,
`EveryClaimRooted`, `GameIsSound`, `NumbersAreTrue`. The modules under `Tools` have no RECURSIVE operators: what is
computed by recursion is a recursive function over a bounded set, and the lemmas
`SelectionsAre` and `AssignmentsAre` say which set of functions it is.

A search has asked for the assignments in value precedence on its palette, and
`SearchInv` says that those from which nothing colours the graph are all still
among the candidates: a clause rules out only what its colouring colours
(`ClausesSound`). A search that is exhausted has therefore seen a colouring of every
such assignment. That this decides for *every* assignment is the argument of
`choosability.py` for its two economies:

- Ranking the colours by the vertex that lists them first (`Ranking`, a counting
  argument: at each vertex the new colours take the next numbers) renames any
  assignment to one in value precedence (`PrecedenceComplete`), and a colouring is
  renamed back.
- An assignment in value precedence uses only as many colours as its lists have
  entries, at most n times the longest (`UsedCounted`, `PaletteSuffices`). So a
  palette that is complete decides for all, and a bad list that is found on any
  palette can be told on the complete one.
- `is_k_choosable` fixes the list of vertex 0, and the claim of choosability_refute
  is compared with it too (`FirstListFixed`).

`Progress` is the invariant of list_critical: the search has found the whole graph
bad, and every edge is still to be tried, being tried, or one without which the
graph is good (`EdgeIsGood`). Its first claim needs the palette to be complete only
for the edges; a whole graph that is bad is bad on any larger palette. `RequestsType`
is what the parsers let through: simple graphs, integers, a degree for each vertex.

`GameInv` says of a game under way that every list assignment whose board fixer has
won is in the least set of the definition (`WonAreFixable`): *every* such assignment,
not the one the board was generated from, because the next round meets the same
board through other lists. The first boards won are the colourable ones
(`ColorableBoard`: a colour of a board is a copy of a class, and copies of a class
and colours that have it are equally many). A round is a step of the definition
(`RoundFixes`), which needs three things:

- the swap of `from_swap`, on bags of classes, is the swap on the lists, also when
  a class was held by several colours or goes empty (`SwapIsFromSwap`);
- the definition lets breaker partition into any parts of at most two vertices, the
  game only into pairs with at most one single: any partition becomes one of the
  game's when singles are paired up, and what fixer swaps there is a union of parts
  of the partition (`Coarsening`, `UnionOfParts`);
- the definition is closed under its own rule (`FixableClosed`). It is computed by
  a recursion that adds until nothing is new; the lemma is by induction on the
  number of assignments still missing. The mode single_swap only takes responses away.

`NumbersAreTrue` is the part of CertifiedHolds and DecidedHolds that is about
colourings, cliques and independent sets, and about the census. The search for the
chromatic number starts at the clique number and at 1, and this skips nothing, since
a clique needs its own number of colours (`CliqueNeedsColors`, a pigeonhole) and n are
enough (`CertificatesFound`). `find_clique` finds one of every size up to the largest
(`CliqueFound`); cliques and independent sets are swapped by the complement, which
`independence_number` relies on (`ComplementTurns`). The backtracking for a hitting
set takes one vertex of *some* clique not yet hit, never looks at the others first,
and keeps what it chooses independent: by induction on the vertices not chosen, it
answers whether the chosen extend to a set that hits all (`HitsTurn`, `HitsFinds`).
`ReedIs` says that the bound rounds the mean up. For the census, `CensusSays` is the
invariant: what has been seen satisfies the bound, and the counter is the number of
those that reach it; it needs of geng only that its lists are finite and are graphs
(`AllGraphsType`, `CensusType`).

### Checked by TLC only

- Liveness (ToolsReturn, StepReturns, WriteBackEnds, FrozenIsTold,
  EveryCallAnswers), which TLAPS does not handle.
- The rest of CertifiedHolds and DecidedHolds: Alon-Tarsi, degeneracy, containment
  and the structural operations. That each of these engines agrees with its
  definition is a theorem of graph theory of its own, up to the one of Alon and Tarsi;
  TLC compares them on all graphs of at most four vertices.
- MemoAgrees: what the recursion answers, and what it remembers on the way, is a
  function of its own earlier answers, and the memo changes under its calls. TLC
  compares the answer with the definition on every assignment of the instance.
- That the game finds every board the definition does: it is not claimed
  (`single_swap` loses some), and WonBoardsFixable says only the other half.
- SubgraphHolds and the other properties that runs violate.

## 8. Not modelled

- Text: prompts, rendering, badges, the lengths that make a compaction due.
- HTTP, the parsing of replies and the choice of a model (`models.py`); of them
  AgentLoop keeps that a provider may answer, raise or time out.
- The tool registry is a table; of dispatch, the models keep that it hands over a
  result, a refusal or an error. The coercions of the argument models.
- The searches over arXiv and the literature, HTTP; the display of answers.
- geng and the SAT solver as processes: enumerations are taken as complete, and
  the solver as right. The text of graph6.
- `bk_search` and `counterexample_search`, which call the predicates that are
  modelled on graphs they draw or mutate at random. Stopped by `max_hits`,
  `bk_search` still words its claim as exhaustive; the fallback of the canonical
  form (`seeds.py:45-52`) is not canonical. `discharging_cover` prints a cover.
  Invariants that are one call of networkx.
- `reducible_configuration` does not check that D is at least 9, and the budget of
  `graph6_decode` counts per process although its message says session: both are
  visible in the code and no property is about them.
- The Lean corpus, which Lean checks; the self tests of the gates; hunt_watch.
- A line of the JSONL file torn by a kill: how much of it reaches the disk is not
  decided by the program. `load` raises on one. So does a disk error while AgentLoop
  writes an event. In Promotion both are outcomes of a write.
- A snippet that elaborates without declaring its theorem's name: `print_axioms` then
  misses (`lean_tools.py:91-100`). In LeanSession every snippet declares its name; the
  session is left as by the hole of finding 3, and no property distinguishes the two.
- What becomes of the lemma that a durable proof installs (`lean_tools.py:216`): the
  step is there, but its failure is swallowed and nothing promises otherwise. The same
  holds of what `lean_check` declared when a retract replays the session
  (`lean_tools.py:134`).
- A Ctrl-C inside the `finally` that disarms the alarm of a search; AlarmContained is
  about the alarm there.
- Lists of more than 64 sizes in `fixer_breaker`, where the packing drops what is
  beyond its 64 bits.
- More than one session with locked lemmas besides the current one, under one
  Lean process.

## 9. Plan

What is modelled is what the plan of this project set out; what is left are
proofs and compositions.

1. **Proofs**: what is left is that each engine of Tools that answers in one step
   agrees with its definition (the rest of CertifiedHolds and DecidedHolds).
2. **Composition**: Promotion's elaboration with LeanSession's process, for the
   fresh environment it asks for.
3. **Searches**: `counterexample_search` with its walk and its restarts.

`tlc -config <run>.cfg <module>` reproduces a run; `tlapm <module>.tla`, for a
module of section 7, its proofs.
