----------------------------- MODULE McpServer -----------------------------
(***************************************************************************)
(* The compiler as an MCP server (crates/tool-compiler-cli/src/serve.rs),  *)
(* one per child process: serve_lines reads a line at a time and handles   *)
(* each in a task of its own; the tasks send their responses to an         *)
(* unbounded channel that a writer task empties into stdout.               *)
(*                                                                         *)
(* Servers other than this one misbehave: they repeat answers, send        *)
(* notifications, noise, lines that are not UTF-8 and requests of their    *)
(* own, answer with an error or with no result, negotiate a version that   *)
(* is none, and exit.  An exit closes stdout first, then stdin.            *)
(***************************************************************************)
EXTENDS Naturals, Sequences, FiniteSets

CONSTANTS
  Proc,         \* processes: children, numbered in the order they are spawned
  Capacity,     \* lines a pipe holds
  Reads,        \* the server reads whatever becomes of its answers
  MaxFaults,    \* bound on misbehaviour, in all
  NoCall        \* a message that is about no call

ASSUME ServerAssumption ==
  Capacity \in Nat \ {0} /\ MaxFaults \in Nat /\ Reads \in BOOLEAN

\* A line.  Requests and responses have an id, 0 when there is none; call
\* says what is asked for, and what a response answers.
Line(kind, id, call) == [kind |-> kind, id |-> id, call |-> call]

VARIABLES
  stdin,        \* [Proc -> Seq of lines]
  stdout,       \* [Proc -> Seq of lines]
  child,        \* [Proc -> "none", "running", "closing" (stdout closed), "exited", "served"]
  eof,          \* [Proc -> the other end of stdin is closed]
  tasks,        \* [Proc -> the lines being handled, by their place in taken]
  channel,      \* [Proc -> responses not written yet]
  replied,      \* [Proc -> responses written, of any kind]
  taken,        \* [Proc -> lines serve_lines has read]
  faults

serverVars == <<stdin, stdout, child, eof, tasks, channel, replied, taken, faults>>

Room(pipe) == Len(pipe) < Capacity

----------------------------------------------------------------------------
\* What is answered: every message with an id ("answer" has no method).  A
\* line that is not JSON has its answer too, without an id.
Asks == {"initialize", "call", "answer", "garbled"}

\* serve_lines has met a line that is not UTF-8: next_line returns Err, and
\* the loop is over.
InputFailed(s) == \E i \in DOMAIN taken[s] : taken[s][i].kind = "not_text"

\* serve_lines: a line is handled in a task of its own; a notification is
\* ignored.
ReadLine(s) ==
  /\ child[s] = "running" /\ stdin[s] # <<>> /\ ~InputFailed(s)
  /\ Reads \/ (tasks[s] = {} /\ channel[s] = <<>>)
  /\ stdin' = [stdin EXCEPT ![s] = Tail(@)]
  /\ taken' = [taken EXCEPT ![s] = Append(@, Head(stdin[s]))]
  /\ tasks' = IF Head(stdin[s]).kind \in Asks
              THEN [tasks EXCEPT ![s] = @ \cup {Len(taken[s]) + 1}] ELSE tasks
  /\ UNCHANGED <<stdout, child, eof, channel, replied, faults>>

\* call_tool: the plan's result, or a result with isError set: the run failed
\* or did not start, or the server is nested too deep and refuses.
CallTool == {"result", "tool_error"}

\* What handle_line answers a line with.
Responses(m) ==
  CASE m.kind = "garbled" -> {Line("parse_error", 0, NoCall)}
    [] m.kind = "initialize" -> {Line("version", m.id, NoCall)}
    [] m.kind = "answer" -> {Line("error", m.id, NoCall)}
    [] OTHER -> {Line(kind, m.id, m.call) : kind \in CallTool}

\* The task of a line ends: its response is in the channel.
Handle(s, i) ==
  /\ child[s] = "running" /\ i \in tasks[s]
  /\ \E r \in Responses(taken[s][i]) : channel' = [channel EXCEPT ![s] = Append(@, r)]
  /\ tasks' = [tasks EXCEPT ![s] = @ \ {i}]
  /\ UNCHANGED <<stdin, stdout, child, eof, replied, taken, faults>>

\* The task panics, and nobody is told.
HandlerPanics(s, i) ==
  /\ child[s] = "running" /\ i \in tasks[s] /\ faults < MaxFaults
  /\ tasks' = [tasks EXCEPT ![s] = @ \ {i}]
  /\ faults' = faults + 1
  /\ UNCHANGED <<stdin, stdout, child, eof, channel, replied, taken>>

\* The writer task.
WriteLine(s) ==
  /\ child[s] = "running" /\ channel[s] # <<>> /\ Room(stdout[s])
  /\ stdout' = [stdout EXCEPT ![s] = Append(@, Head(channel[s]))]
  /\ replied' = [replied EXCEPT ![s] = Append(@, Head(channel[s]))]
  /\ channel' = [channel EXCEPT ![s] = Tail(@)]
  /\ UNCHANGED <<stdin, child, eof, tasks, taken, faults>>

\* The loop of serve_lines is over.
InputOver(s) == (eof[s] /\ stdin[s] = <<>>) \/ InputFailed(s)

\* Mutant of ServeEnds: serve does not wait for the writer.
ServeEndsAtEof(s) ==
  /\ child[s] = "running" /\ InputOver(s)
  /\ child' = [child EXCEPT ![s] = "served"]
  /\ UNCHANGED <<stdin, stdout, eof, tasks, channel, replied, taken, faults>>

\* serve returns: the loop is over and the writer has ended, whose channel
\* every task holds an end of.
ServeEnds(s) ==
  /\ child[s] = "running" /\ InputOver(s) /\ tasks[s] = {} /\ channel[s] = <<>>
  /\ child' = [child EXCEPT ![s] = "served"]
  /\ UNCHANGED <<stdin, stdout, eof, tasks, channel, replied, taken, faults>>

----------------------------------------------------------------------------
(* Other servers.                                                          *)

\* What a server may say unasked, or say again.
Unasked(s) ==
  {Line("noise", 0, NoCall), Line("not_text", 0, NoCall), Line("request", 1, NoCall)}
  \cup {replied[s][i] : i \in DOMAIN replied[s]}
  \cup {Line("bad_version", taken[s][i].id, NoCall) :
          i \in {j \in tasks[s] : taken[s][j].kind = "initialize"}}
  \cup {Line(kind, taken[s][i].id, taken[s][i].call) :
          kind \in {"error", "no_result"}, i \in tasks[s]}

Misbehave(s) ==
  /\ child[s] = "running" /\ faults < MaxFaults
  /\ \E m \in Unasked(s) : channel' = [channel EXCEPT ![s] = Append(@, m)]
  /\ faults' = faults + 1
  /\ UNCHANGED <<stdin, stdout, child, eof, tasks, replied, taken>>

Dies(s) ==
  /\ child[s] = "running" /\ faults < MaxFaults
  /\ child' = [child EXCEPT ![s] = "closing"]
  /\ faults' = faults + 1
  /\ UNCHANGED <<stdin, stdout, eof, tasks, channel, replied, taken>>

Dead(s) ==
  /\ child[s] = "closing"
  /\ child' = [child EXCEPT ![s] = "exited"]
  /\ UNCHANGED <<stdin, stdout, eof, tasks, channel, replied, taken, faults>>

ServerStep(s) ==
  \/ ReadLine(s) \/ WriteLine(s) \/ ServeEnds(s) \/ Dead(s)
  \/ \E i \in tasks[s] : Handle(s, i)

ServerFault(s) ==
  \/ Misbehave(s) \/ Dies(s) \/ \E i \in tasks[s] : HandlerPanics(s, i)

----------------------------------------------------------------------------
(* Properties.                                                             *)

\* A line the server wrote was not UTF-8.
OutputFailed(s) == \E i \in DOMAIN replied[s] : replied[s][i].kind = "not_text"

\* The lines with an id that were read and ask for an answer, and the answers.
AskedWith(s, id) == {i \in DOMAIN taken[s] : taken[s][i].kind \in Asks /\ taken[s][i].id = id}
AnsweredWith(s, id) == {i \in DOMAIN replied[s] : replied[s][i].id = id}

\* End of input does not cut off what is being handled (serve.rs:69-84), and a
\* malformed line does not keep others from their answer: a server that
\* returned by itself and had no panic answered every line it has read that
\* asks for an answer, once, and nothing else; and unless it met a line that is
\* not UTF-8 it has read its input to the end.
AllAnswered ==
  \A s \in Proc : child[s] = "served" /\ faults = 0 =>
    /\ stdin[s] = <<>> \/ InputFailed(s)
    /\ \A id \in {taken[s][i].id : i \in DOMAIN taken[s]}
               \cup {replied[s][i].id : i \in DOMAIN replied[s]} :
         Cardinality(AnsweredWith(s, id)) = Cardinality(AskedWith(s, id))

\* "malformed JSON gets a -32700 response instead of killing the server"
\* (serve.rs:9-10), whatever is malformed about it: a server that returned by
\* itself has read its input to the end.
MalformedSurvived == \A s \in Proc : child[s] = "served" => stdin[s] = <<>>
=============================================================================
