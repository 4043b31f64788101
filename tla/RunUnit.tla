------------------------------- MODULE RunUnit -------------------------------
(***************************************************************************)
(* A run unit and the child process it supervises over a stdio pipe:      *)
(*   parent  src/pkg/util/rununit/main.go (New: command loop and quit      *)
(*           watcher; Start, Stop, Shutdown), src/unnamed/part_003         *)
(*           (consume.Log, Start, Kill; pipe.Consume's reader) and         *)
(*           src/pkg/pipe/stdconn/worker/worker.go (Spawn, Wait);          *)
(*   child   src/unnamed/part_003 (pipe.Serve's reader of stdin) and       *)
(*           src/unnamed/part_001 (serve.Log: command handler and the log  *)
(*           forwarder).                                                   *)
(* The parent writes four-byte commands ("run ", "kill") to the child's    *)
(* stdin; the child writes log entries to its stdout.  A pipe is a byte    *)
(* stream: one Read may return several writes, and the handlers look only  *)
(* at the first four bytes of what they read.  Only the current worker's   *)
(* child is kept: spawning a new one SIGKILLs the old one (line 53), and   *)
(* the quit watcher only tells whether the worker it holds is still        *)
(* r.worker.                                                               *)
(***************************************************************************)
EXTENDS Naturals, Sequences

CONSTANTS
  MaxCmds,   \* bound on Start/Stop calls by the unit's user
  MaxLogs    \* bound on log entries the child produces

ASSUME MaxCmds \in Nat /\ MaxLogs \in Nat

VARIABLES
  running,      \* r.running
  rquit,        \* r.quit closed (Shutdown)
  quit,         \* the parent's quit closed (interrupt)
  lpc,          \* the command loop's control point
  wpc,          \* the quit watcher's control point
  wcur,         \* the worker the watcher last read is still r.worker
  ucmd,         \* the user's pending call: "start", "stop" or "none"
  ncmds,        \* Start/Stop calls so far
  runs, stops,  \* calls of the run and stop hooks
  child,        \* the current worker's process: "none", "alive", "exited",
                \* or "failed" (Cmd.Start failed: no Process)
  stdin,        \* commands written to the child and not yet read
  childQuit,    \* the child's quit closed
  logOn,        \* the child's logOn
  fpc,          \* the child's log forwarder: "loop" or "exited"
  lc,           \* entries in the child's log channel
  nlogs,        \* log entries produced by the child
  stdout,       \* entries written to the parent and not yet read
  rpc           \* the parent's pipe.Consume reader: "loop" or "exited"

vars == <<running, rquit, quit, lpc, wpc, wcur, ucmd, ncmds, runs, stops, child,
          stdin, childQuit, logOn, fpc, lc, nlogs, stdout, rpc>>

childVars == <<wcur, child, stdin, childQuit, logOn, fpc, lc, nlogs, stdout, rpc>>

\* The parent process is up: a panic of the command loop ends all of it.
ParentUp == lpc # "panicked"

\* A write to the child's stdin fails once the child has exited.
WriteCmd(c) == stdin' = IF child = "alive" THEN Append(stdin, c) ELSE stdin

-----------------------------------------------------------------------------
(* The unit's user and the environment.                                    *)

\* Start / Stop: r.commandChan <- true / false (unbuffered: the call blocks
\* until the command loop receives it).
UserCall ==
  /\ ParentUp
  /\ ucmd = "none"
  /\ ncmds < MaxCmds
  /\ \E c \in {"start", "stop"} : ucmd' = c
  /\ ncmds' = ncmds + 1
  /\ UNCHANGED <<running, rquit, quit, lpc, wpc, runs, stops>>
  /\ UNCHANGED childVars

\* Shutdown: close r.quit once.
Shutdown ==
  /\ ParentUp
  /\ ~rquit
  /\ rquit' = TRUE
  /\ UNCHANGED <<running, quit, lpc, wpc, ucmd, ncmds, runs, stops>>
  /\ UNCHANGED childVars

\* The interrupt handler closes the parent's quit.
Interrupt ==
  /\ ParentUp
  /\ ~quit
  /\ quit' = TRUE
  /\ UNCHANGED <<running, rquit, lpc, wpc, ucmd, ncmds, runs, stops>>
  /\ UNCHANGED childVars

-----------------------------------------------------------------------------
(* The command loop (New, lines 38-84).                                    *)

\* worker.Spawn (exec.Command, the two pipes, Cmd.Start) and pipe.Consume's
\* reader goroutine.  Cmd.Start may fail (its error is only logged): the
\* pipes are then closed and there is no process.
Spawn(ok) ==
  /\ child' = IF ok THEN "alive" ELSE "failed"
  /\ wcur' = FALSE
  /\ childQuit' = FALSE /\ logOn' = FALSE /\ fpc' = "loop"
  /\ lc' = 0 /\ stdout' = 0 /\ rpc' = "loop"

\* consume.Start: write "run " to the new child; a failed write is logged.
ConsumeStart(ok) == stdin' = IF ok THEN <<"run ">> ELSE <<>>

\* case cmd := <-r.commandChan, cmd = true: nothing if running; otherwise
\* r.worker.Kill() the old worker (SIGKILL; an error for one that has
\* exited; a nil-pointer panic of the whole parent for one whose Cmd.Start
\* failed), spawn a child (consume.Log) and write "run " to it.
LoopStart ==
  /\ lpc = "select"
  /\ ucmd = "start"
  /\ ucmd' = "none"
  /\ CASE running ->
            UNCHANGED <<lpc, wcur, child, stdin, childQuit, logOn, fpc, lc,
                        stdout, rpc>>
       [] child = "failed" ->
            /\ lpc' = "panicked"
            /\ UNCHANGED <<wcur, child, stdin, childQuit, logOn, fpc, lc,
                           stdout, rpc>>
       [] OTHER ->
            /\ lpc' = "started"
            /\ \E ok \in BOOLEAN : Spawn(ok) /\ ConsumeStart(ok)
  /\ UNCHANGED <<running, rquit, quit, wpc, ncmds, runs, stops, nlogs>>

\* r.running.Store(true); run()
LoopRun ==
  /\ lpc = "started"
  /\ running' = TRUE
  /\ runs' = runs + 1
  /\ lpc' = "select"
  /\ UNCHANGED <<rquit, quit, wpc, ucmd, ncmds, stops>>
  /\ UNCHANGED childVars

\* consume.Kill's write of "kill" (the process is waited for when it succeeds).
ConsumeKill == WriteCmd("kill")

\* case cmd = false: nothing if not running; otherwise consume.Kill: write
\* "kill"; if the write fails return at once, else w.Cmd.Wait().
LoopStop ==
  /\ lpc = "select"
  /\ ucmd = "stop"
  /\ ucmd' = "none"
  /\ lpc' = IF ~running THEN "select"
            ELSE IF child = "alive" THEN "killWait" ELSE "stopped"
  /\ IF running THEN ConsumeKill ELSE UNCHANGED stdin
  /\ UNCHANGED <<running, rquit, quit, wpc, wcur, ncmds, runs, stops, child, childQuit,
                 logOn, fpc, lc, nlogs, stdout, rpc>>

\* w.Cmd.Wait() returns when the child has exited.
LoopKillWait ==
  /\ lpc = "killWait"
  /\ child # "alive"
  /\ lpc' = "stopped"
  /\ UNCHANGED <<running, rquit, quit, wpc, ucmd, ncmds, runs, stops>>
  /\ UNCHANGED childVars

\* r.running.Store(false); stop()
LoopStopped ==
  /\ lpc = "stopped"
  /\ running' = FALSE
  /\ stops' = stops + 1
  /\ lpc' = "select"
  /\ UNCHANGED <<rquit, quit, wpc, ucmd, ncmds, runs>>
  /\ UNCHANGED childVars

\* case <-r.quit.Wait(): break out.  The loop never reads commandChan again.
LoopQuit ==
  /\ lpc = "select"
  /\ rquit
  /\ lpc' = "exited"
  /\ UNCHANGED <<running, rquit, quit, wpc, ucmd, ncmds, runs, stops>>
  /\ UNCHANGED childVars

LoopStep == LoopStart \/ LoopRun \/ LoopStop \/ LoopKillWait \/ LoopStopped \/ LoopQuit

-----------------------------------------------------------------------------
(* The quit watcher (New, lines 86-105): one select, no loop.              *)

\* case <-quit.Wait(): read r.running; if not running, leave.
WatchWake ==
  /\ ParentUp
  /\ wpc = "select"
  /\ quit
  /\ wpc' = IF running THEN "kill" ELSE "done"
  /\ UNCHANGED <<running, rquit, quit, lpc, ucmd, ncmds, runs, stops>>
  /\ UNCHANGED childVars

\* consume.Kill(r.worker): write "kill" to the worker r.worker holds now;
\* a failed write returns at once, a written one waits in Cmd.Wait.
WatchKill ==
  /\ ParentUp
  /\ wpc = "kill"
  /\ ConsumeKill
  /\ wcur' = TRUE
  /\ wpc' = IF child = "alive" THEN "killWait" ELSE "workerWait"
  /\ UNCHANGED <<running, rquit, quit, lpc, ucmd, ncmds, runs, stops, child,
                 childQuit, logOn, fpc, lc, nlogs, stdout, rpc>>

\* Kill's Cmd.Wait returns when that process has exited (a replaced worker
\* was SIGKILLed at line 53); then line 99 reads r.worker again.
WatchKillWait ==
  /\ ParentUp
  /\ wpc = "killWait"
  /\ ~wcur \/ child # "alive"
  /\ wcur' = TRUE
  /\ wpc' = "workerWait"
  /\ UNCHANGED <<running, rquit, quit, lpc, ucmd, ncmds, runs, stops, child,
                 stdin, childQuit, logOn, fpc, lc, nlogs, stdout, rpc>>

\* r.worker.Wait(): returns at once with an error for a worker already
\* waited for or never started, and when the process exits otherwise; a
\* worker the loop spawned since line 97 is waited for until it exits.
WatchWorkerWait ==
  /\ ParentUp
  /\ wpc = "workerWait"
  /\ ~wcur \/ child # "alive"
  /\ wpc' = "store"
  /\ UNCHANGED <<running, rquit, quit, lpc, ucmd, ncmds, runs, stops>>
  /\ UNCHANGED childVars

\* r.running.Store(false); stop()
WatchStopped ==
  /\ ParentUp
  /\ wpc = "store"
  /\ running' = FALSE
  /\ stops' = stops + 1
  /\ wpc' = "done"
  /\ UNCHANGED <<rquit, quit, lpc, ucmd, ncmds, runs>>
  /\ UNCHANGED childVars

WatchStep ==
  WatchWake \/ WatchKill \/ WatchKillWait \/ WatchWorkerWait \/ WatchStopped

-----------------------------------------------------------------------------
(* The child.                                                              *)

\* serve.Log's handler: "run " sets logOn, "stop" clears it, "kill"
\* requests the interrupt and closes quit.
ServeLogHandler(cmd) ==
  CASE cmd = "run " -> logOn' = TRUE /\ UNCHANGED childQuit
    [] cmd = "stop" -> logOn' = FALSE /\ UNCHANGED childQuit
    [] cmd = "kill" -> childQuit' = TRUE /\ UNCHANGED logOn
    [] OTHER        -> UNCHANGED <<logOn, childQuit>>

\* pipe.Serve's loop: os.Stdin.Read returns what has arrived, possibly
\* several commands, and the handler looks at the first four bytes only.
ChildRead ==
  /\ child = "alive"
  /\ ~childQuit
  /\ stdin # <<>>
  /\ \E k \in 1..Len(stdin) :
       stdin' = SubSeq(stdin, k + 1, Len(stdin))
  /\ ServeLogHandler(Head(stdin))
  /\ UNCHANGED <<running, rquit, quit, lpc, wpc, wcur, ucmd, ncmds, runs, stops,
                 child, fpc, lc, nlogs, stdout, rpc>>

\* After the interrupt handlers the process exits; its pipes close.
ChildExit ==
  /\ child = "alive"
  /\ childQuit
  /\ child' = "exited"
  /\ stdin' = <<>>
  /\ UNCHANGED <<running, rquit, quit, lpc, wpc, wcur, ucmd, ncmds, runs, stops,
                 childQuit, logOn, fpc, lc, nlogs, stdout, rpc>>

\* The child logs something: an entry on its log channel lc.
ChildLog ==
  /\ child = "alive"
  /\ nlogs < MaxLogs
  /\ lc = 0
  /\ lc' = 1
  /\ nlogs' = nlogs + 1
  /\ UNCHANGED <<running, rquit, quit, lpc, wpc, wcur, ucmd, ncmds, runs, stops,
                 child, stdin, childQuit, logOn, fpc, stdout, rpc>>

\* serve.Log's forwarder, case <-quit.Wait(): clear logOn, drain lc, leave.
ForwardQuit ==
  /\ child = "alive"
  /\ fpc = "loop"
  /\ childQuit
  /\ logOn' = FALSE
  /\ lc' = 0
  /\ fpc' = "exited"
  /\ UNCHANGED <<running, rquit, quit, lpc, wpc, wcur, ucmd, ncmds, runs, stops,
                 child, stdin, childQuit, nlogs, stdout, rpc>>

\* case ent := <-lc: if logging is off, break out of the loop for good;
\* otherwise write the entry to stdout.
ForwardEntry ==
  /\ child = "alive"
  /\ fpc = "loop"
  /\ lc > 0
  /\ lc' = lc - 1
  /\ IF logOn THEN /\ stdout' = stdout + 1 /\ UNCHANGED fpc
              ELSE /\ fpc' = "exited" /\ UNCHANGED stdout
  /\ UNCHANGED <<running, rquit, quit, lpc, wpc, wcur, ucmd, ncmds, runs, stops,
                 child, stdin, childQuit, logOn, nlogs, rpc>>

\* pipe.Consume's reader in the parent: a read returns the entries that
\* have arrived (consume.Log's handler decodes the first); a read of zero
\* bytes once the child has exited ends the reader.
ConsumeRead ==
  /\ ParentUp
  /\ rpc = "loop"
  /\ \/ /\ stdout > 0
        /\ \E k \in 1..stdout : stdout' = stdout - k
        /\ UNCHANGED rpc
     \/ /\ stdout = 0
        /\ child \in {"exited", "failed"}
        /\ rpc' = "exited"
        /\ UNCHANGED stdout
  /\ UNCHANGED <<running, rquit, quit, lpc, wpc, wcur, ucmd, ncmds, runs, stops,
                 child, stdin, childQuit, logOn, fpc, lc, nlogs>>

ChildStep == ChildRead \/ ChildExit \/ ForwardQuit \/ ForwardEntry

Init ==
  /\ running = FALSE /\ rquit = FALSE /\ quit = FALSE
  /\ lpc = "select" /\ wpc = "select" /\ wcur = FALSE
  /\ ucmd = "none" /\ ncmds = 0
  /\ runs = 0 /\ stops = 0
  /\ child = "none" /\ stdin = <<>> /\ childQuit = FALSE /\ logOn = FALSE
  /\ fpc = "exited" /\ lc = 0 /\ nlogs = 0 /\ stdout = 0 /\ rpc = "exited"

Next ==
  \/ UserCall \/ Shutdown \/ Interrupt \/ ChildLog
  \/ LoopStep \/ WatchStep \/ ChildStep \/ ConsumeRead

\* The Go scheduler runs every runnable goroutine of both processes; the
\* user, the interrupt and the child's logging get no fairness.
Spec ==
  /\ Init /\ [][Next]_vars
  /\ WF_vars(LoopStep) /\ WF_vars(WatchStep)
  /\ WF_vars(ChildStep) /\ WF_vars(ConsumeRead)

-----------------------------------------------------------------------------
(* Properties.                                                             *)

\* Neither goroutine of the unit is in the middle of a command.
Settled == lpc = "select" /\ wpc \in {"select", "done"}

\* Running() "returns whether the unit is running" (line 114): once both
\* goroutines are between commands, the unit does not report stopped
\* while its child still runs, whatever the quit watcher and the command
\* loop do concurrently (each stores false only after waiting for a child).
StoppedMeansNoChild == (Settled /\ ~running) => child # "alive"

\* Stop returns: once the loop has written "kill", the child exits and
\* the loop gets back to its select.
StopCompletes == (lpc = "killWait") ~> (lpc = "select")
=============================================================================
