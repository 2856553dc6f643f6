----------------------------- MODULE ToolRuntime -----------------------------
(* The tools an agent calls (tool_runtime.rs, tool_runtime/session.rs,        *)
(* tool_context.rs): a control caller prepares issues through the gate and    *)
(* reads their context, a session caller only discovers, and a worker reads   *)
(* the snapshot it was launched for and submits its run's result.  A prepare  *)
(* assesses, decides and then works for a while; other calls go on meanwhile. *)
EXTENDS Integers, FiniteSets, Sequences
CONSTANTS Callers, ProfileOf, ToolIssues,
          Grades,    \* categories an issue may be assessed in
          Setups,    \* [exists, loads, token] of the configuration
          MaxCalls, MaxTurns
VARIABLES grade,      \* the category each issue would be assessed in now
          files,      \* the handoff directory of each issue: who wrote it last, and why
          inbox,      \* the item of each issue
          packages,   \* approved packages, each with the snapshot of a handoff
          capability, \* the package each worker was launched for
          effects,    \* [events, memory, results] left by the calls
          setup, call, bound
toolVars == <<grade, files, inbox, packages, capability, effects, setup, call, bound>>

Tools == {"status", "scout", "assess", "prepare", "read_context", "memory", "submit_result"}
NoFiles == [version |-> 0, grade |-> "none", reason |-> "none", asked |-> FALSE]
NoRequest == [at |-> "idle", status |-> "none"]
ToolInit ==
  /\ grade \in [ToolIssues -> Grades] /\ setup \in Setups
  /\ files = [i \in ToolIssues |-> NoFiles] /\ inbox = [i \in ToolIssues |-> "none"]
  /\ packages = <<>> /\ capability = [c \in Callers |-> 0]
  /\ effects = [events |-> {}, memory |-> 0, results |-> {}]
  /\ call = [c \in Callers |-> NoRequest] /\ bound = [calls |-> 0, turns |-> 0]

Returns(c, reply) == call' = [call EXCEPT ![c] = reply]
Fails(c, status) == Returns(c, [at |-> "idle", status |-> status])
Goes(c, now) == call' = [call EXCEPT ![c] = now]
Stores == <<files, inbox, packages, effects>>
Rest == UNCHANGED <<grade, capability, setup, bound>>

(* What a caller may ask for at all.                                          *)
ToolAllowed(profile, tool) ==
  CASE profile = "control" -> tool # "submit_result"
    [] profile = "worker" -> tool \in {"read_context", "submit_result"}
    [] OTHER -> tool \in {"scout", "assess"}
\* A configuration that does not load is fatal to a caller, unless it is a session, which
\* says so itself, or asks for the status.
Loaded(c, tool) == ProfileOf[c] = "session" \/ tool = "status" \/ setup.loads
SessionConfig(c) == ProfileOf[c] = "session" => setup.loads /\ setup.token
Execute(c, tool, args) ==
  /\ call[c].at = "idle" /\ bound.calls < MaxCalls
  /\ ProfileOf[c] = "worker" => capability[c] # 0
  /\ bound' = [bound EXCEPT !.calls = @ + 1]
  /\ CASE ~args.valid -> Fails(c, "invalid_arguments")
       [] args.valid /\ ~ToolAllowed(ProfileOf[c], tool) -> Fails(c, "forbidden_tool")
       [] OTHER -> IF Loaded(c, tool) /\ SessionConfig(c) THEN Goes(c, [at |-> tool, args |-> args])
                   ELSE Fails(c, "system_error")
  /\ UNCHANGED <<grade, capability, setup, Stores>>

(* status: what to repair first.                                              *)
StatusName(authenticated) ==
  CASE ~setup.token \/ ~setup.exists \/ ~setup.loads -> "needs_setup"
    [] OTHER -> IF authenticated = "no" THEN "auth_failed" ELSE "ready"
NextFix_AuthFirst(authenticated) ==
  CASE ~setup.token \/ authenticated = "no" -> "export_token"
    [] OTHER -> IF ~setup.loads THEN "init_force" ELSE "none"
NextFix(authenticated) ==
  CASE ~setup.loads -> "init_force"
    [] setup.loads /\ (~setup.token \/ authenticated = "no") -> "export_token"
    [] OTHER -> IF setup.exists THEN "none" ELSE "init"
Status(c) ==
  /\ call[c].at = "status"
  /\ \E authenticated \in IF setup.token THEN {"yes", "no", "unasked"} ELSE {"no", "unasked"} :
       Returns(c, [at |-> "idle", status |-> StatusName(authenticated), fix |-> NextFix(authenticated)])
  /\ UNCHANGED Stores /\ Rest

\* scout: candidates are found, and shown to the log unless the caller asks not to.  A
\* session is told when evidence is missing, and when there are no candidates.
Found(c, statuses) ==
  /\ \E status \in statuses : Fails(c, status)
  /\ effects' \in {effects} \cup (IF call[c].args.record THEN {[effects EXCEPT !.events = @ \cup {"shown"}]} ELSE {})
  /\ UNCHANGED <<files, inbox, packages>> /\ Rest
Scout(c) == call[c].at = "scout" /\ ProfileOf[c] = "control" /\ Found(c, {"ok"})
SessionScout(c) ==
  call[c].at = "scout" /\ ProfileOf[c] = "session" /\ Found(c, {"ok", "partial", "no_candidates"})
ScoutFails(c) == call[c].at = "scout" /\ Fails(c, "system_error") /\ UNCHANGED Stores /\ Rest

(* assess and prepare.                                                        *)
Prepareable == {"ready", "scoping"}
BypassOf_Flagless(args) == args.reason
BypassOf(args) == IF args.allow THEN args.reason ELSE "blank"
PrepareGate(category, bypass) ==
  IF category \in Prepareable THEN "allowed" ELSE IF bypass # "blank" THEN "bypassed" ELSE "blocked"
AssessFails(c) ==
  /\ call[c].at \in {"assess", "prepare"} /\ Fails(c, "system_error")
  /\ UNCHANGED Stores /\ Rest
Assessed(c, status) ==
  /\ Fails(c, status)
  /\ effects' = IF call[c].args.record THEN [effects EXCEPT !.events = @ \cup {"read"}] ELSE effects
  /\ UNCHANGED <<files, inbox, packages>> /\ Rest
Assess(c) == call[c].at = "assess" /\ ProfileOf[c] = "control" /\ Assessed(c, "ok")
\* A session's assessment that cannot finish is a partial answer, not an error.
SessionAssess(c) ==
  /\ call[c].at = "assess" /\ ProfileOf[c] = "session"
  /\ \/ \E status \in {"ok", "partial"} : Assessed(c, status)
     \/ Fails(c, "partial") /\ UNCHANGED Stores /\ Rest
IssueUnavailable(c) ==
  /\ call[c].at = "assess" /\ ProfileOf[c] = "session" /\ Fails(c, "issue_unavailable")
  /\ UNCHANGED Stores /\ Rest
AssessToPrepare(c) ==
  LET args == call[c].args
      category == grade[args.issue]
      decision == PrepareGate(category, BypassOf(args))
  IN
  /\ call[c].at = "prepare"
  /\ IF args.allow /\ args.reason = "blank"
     THEN Fails(c, "invalid_arguments") /\ UNCHANGED effects
     ELSE /\ effects' = [effects EXCEPT !.events = @ \cup {"read"}]
          /\ IF decision = "blocked" THEN Fails(c, "blocked_by_gate")
             ELSE Goes(c, [at |-> "preparing", args |-> args, grade |-> category,
                           reason |-> IF decision = "bypassed" THEN args.reason ELSE "none"])
  /\ UNCHANGED <<files, inbox, packages>> /\ Rest
\* The workspace, the files of the handoff, the event of it and the item of the inbox: an
\* error after the files were written leaves them, and the item as it was.
PrepareCall(c) ==
  LET p == call[c]
      i == p.args.issue
      written == [files EXCEPT ![i] = [version |-> @.version + 1, grade |-> p.grade, reason |-> p.reason,
                                       asked |-> p.args.allow]]
  IN
  /\ p.at = "preparing"
  /\ \/ /\ Fails(c, "prepared") /\ files' = written
        /\ inbox' = [inbox EXCEPT ![i] = "ready"]
        /\ effects' = [effects EXCEPT !.events = @ \cup {"prepared"}]
     \/ /\ Fails(c, "prepare_failed") /\ inbox' = [inbox EXCEPT ![i] = "prepare_failed"]
        /\ UNCHANGED <<files, effects>>
     \/ Fails(c, "needs_user") /\ UNCHANGED <<files, inbox, effects>>
     \/ /\ Fails(c, "system_error") /\ files' \in {files, written} /\ UNCHANGED <<inbox, effects>>
  /\ UNCHANGED packages /\ Rest

(* read_context: an operator reads the directory, a worker its snapshot.      *)
ReadSection(c, handoff) ==
  CASE inbox[handoff] # "ready" -> [at |-> "idle", status |-> "system_error"]
    [] OTHER -> [at |-> "idle", status |-> "ok", read |-> files[handoff].version, of |-> handoff]
ReadSnapshot_Directory(c, handoff) == ReadSection(c, handoff)
ReadSnapshot(c, handoff) ==
  LET package == packages[capability[c]] IN
  IF package.issue # handoff THEN [at |-> "idle", status |-> "invalid_arguments"]
  ELSE [at |-> "idle", status |-> "ok", read |-> package.snapshot, of |-> handoff]
ReadContext(c) ==
  LET args == call[c].args IN
  /\ call[c].at = "read_context"
  /\ \/ Returns(c, CASE args.section = "unknown" -> [at |-> "idle", status |-> "invalid_arguments"]
                     [] OTHER -> IF ProfileOf[c] = "worker" THEN ReadSnapshot(c, args.issue)
                                 ELSE ReadSection(c, args.issue))
     \/ Fails(c, "system_error")
  /\ UNCHANGED Stores /\ Rest

\* Hints and memories are changed by an operator; module MemoryHints says how.
Memory(c) ==
  /\ call[c].at = "memory"
  /\ \/ Fails(c, "ok") /\ effects' = [effects EXCEPT !.memory = @ + 1]
     \/ \E status \in {"ok", "invalid_transition", "invalid_arguments", "system_error"} :
          Fails(c, status) /\ UNCHANGED effects
  /\ UNCHANGED <<files, inbox, packages>> /\ Rest
\* A result names its run, its issue task and its package; module DispatchRun says what
\* becomes of it.
Submit(c) ==
  LET claim == call[c].args.run IN
  /\ call[c].at = "submit_result"
  /\ IF claim # capability[c] THEN Fails(c, "invalid_arguments") /\ UNCHANGED effects
     ELSE \/ /\ \E status \in {"retry", "needs_user", "accepted", "failed"} : Fails(c, status)
             /\ effects' = [effects EXCEPT !.results = @ \cup {[run |-> claim, by |-> capability[c]]}]
          \/ Fails(c, "system_error") /\ UNCHANGED effects
  /\ UNCHANGED <<files, inbox, packages>> /\ Rest

(* Around the tools: GitHub, the review of a handoff and the supervisor.      *)
Turn(i, to) ==
  /\ bound.turns < MaxTurns /\ to # grade[i]
  /\ grade' = [grade EXCEPT ![i] = to] /\ bound' = [bound EXCEPT !.turns = @ + 1]
  /\ UNCHANGED <<capability, setup, call, Stores>>
Package(i) ==
  /\ inbox[i] = "ready" /\ Len(packages) < 2
  /\ packages' = Append(packages, [issue |-> i, snapshot |-> files[i].version])
  /\ UNCHANGED <<files, inbox, effects, call>> /\ Rest
Launch(c, p) ==
  /\ ProfileOf[c] = "worker" /\ capability[c] = 0
  /\ capability' = [capability EXCEPT ![c] = p]
  /\ UNCHANGED <<grade, setup, call, bound, Stores>>

Arguments(tool) ==
  CASE tool = "prepare" -> [valid : {TRUE}, issue : ToolIssues, allow : BOOLEAN, reason : {"blank", "given"}]
    [] tool = "read_context" -> [valid : {TRUE}, issue : ToolIssues, section : {"entry", "unknown"}]
    [] tool = "submit_result" -> [valid : {TRUE}, run : 1..2]
    [] tool \in {"scout", "assess"} -> [valid : BOOLEAN, issue : ToolIssues, record : BOOLEAN]
    [] OTHER -> [valid : BOOLEAN]
ToolNext ==
  \/ \E c \in Callers :
       \/ \E tool \in Tools : \E args \in Arguments(tool) : Execute(c, tool, args)
       \/ Status(c) \/ Scout(c) \/ SessionScout(c) \/ ScoutFails(c)
       \/ AssessFails(c) \/ IssueUnavailable(c) \/ Assess(c) \/ SessionAssess(c)
       \/ AssessToPrepare(c) \/ PrepareCall(c) \/ ReadContext(c) \/ Memory(c) \/ Submit(c)
       \/ \E p \in DOMAIN packages : Launch(c, p)
  \/ \E i \in ToolIssues : Package(i) \/ \E to \in Grades : Turn(i, to)
ToolSpec == ToolInit /\ [][ToolNext]_toolVars
-----------------------------------------------------------------------------
\* What a worker is given to read is the snapshot its package was approved with, however
\* often its handoff is prepared again meanwhile (call_worker_read_context).
WorkerReadsItsSnapshot ==
  \A c \in Callers :
    ProfileOf[c] = "worker" /\ "read" \in DOMAIN call[c] =>
      call[c].read = packages[capability[c]].snapshot /\ call[c].of = packages[capability[c]].issue

\* Nothing is written for an issue outside the gate that no caller asked for by both flag
\* and reason, and a reason is recorded only where it was needed (call_prepare).
FilesPassedTheGate ==
  \A i \in ToolIssues : files[i].version > 0 =>
    IF files[i].grade \in Prepareable THEN files[i].reason = "none"
    ELSE files[i].asked /\ files[i].reason = "given"

\* A caller is told it is ready exactly when there is nothing left to repair
\* (status_name, next_fix_command).
ReadyNeedsNoFix ==
  \A c \in Callers : "fix" \in DOMAIN call[c] => (call[c].status = "ready" <=> call[c].fix = "none")

\* What a tool call answers and leaves behind is what it says: files only of issues the
\* gate or the caller let through, the snapshot a worker's package was approved with, and
\* "ready" exactly when nothing is left to repair (tool_runtime.rs).
ToolsKeepTheirWord == FilesPassedTheGate /\ WorkerReadsItsSnapshot /\ ReadyNeedsNoFix
=============================================================================
