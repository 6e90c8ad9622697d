------------------------------- MODULE RunTrail -------------------------------
(***************************************************************************)
(* The trail of a run: what the runner of graph.ts leaves behind while it  *)
(* takes a run from node to node, and what a browser sees of it.           *)
(*                                                                         *)
(* The row of the run, its event rows and its checkpoints are on disk; the *)
(* drive (an invocation of the graph with its budget) and the connection   *)
(* of the browser are not.                                                 *)
(***************************************************************************)
EXTENDS Naturals, Sequences, FiniteSets

CONSTANTS
  MaxSteps,            \* MAX_STEPS: node entries of a run
  MaxTokens,           \* MAX_TOKENS_PER_RUN
  EMPTY_STREAK_LIMIT,  \* empty connections after which the browser gives up
  MaxCrashes,          \* bound on restarts of the service
  MaxDrops             \* bound on connections that break

ASSUME RunTrailAssumption ==
  /\ MaxSteps \in Nat /\ MaxTokens \in Nat /\ EMPTY_STREAK_LIMIT \in Nat \ {0}
  /\ MaxCrashes \in Nat /\ MaxDrops \in Nat

VARIABLES
  row,      \* runs: [status, steps, tokens]
  events,   \* run_events of the run, an id is a position: [type, of]
  chain,    \* checkpoints of the run: [node, state]
  drive,    \* the invocation under way: [at, node, done, steps, tokens, state]
  browser,  \* ReconnectingSse: [status, cursor, delivered, streak]
  got,      \* history: [n, inOrder], events handed to the browser; each the next one?
  crashes, drops

run == <<row, events, chain, drive>>
console == <<browser, got, drops>>
trail == <<run, crashes, console>>

Idle == [at |-> "off", node |-> 0, done |-> 0, steps |-> 0, tokens |-> 0, state |-> <<>>]

\* the request that would have started the run is gone
Gone == [Idle EXCEPT !.at = "gone"]

IsTerminal(status) == status \in {"completed", "failed"}

Event(type, of) == [type |-> type, of |-> of]

TrailInit ==
  /\ row = [status |-> "queued", steps |-> 0, tokens |-> 0]
  /\ events = <<>> /\ chain = <<>> /\ drive = Idle
  /\ browser = [status |-> "connecting", cursor |-> 0, delivered |-> FALSE, streak |-> 0]
  /\ got = [n |-> 0, inOrder |-> TRUE] /\ crashes = 0 /\ drops = 0

-----------------------------------------------------------------------------
(* The runner *)

Emit(new) == events' = events \o new

\* transitionAndMirror
Mirrored(to) == Event("audit", to)

\* put: an envelope is chained to the last one
Seal(node, state) == chain' = Append(chain, [node |-> node, state |-> state])

\* restoreCheckpoint and getTuple: the chain is verified, its end is the state
Restored == chain[Len(chain)].state

\* executeRun: a new invocation, the handed-over state under the first seal
StartDrive(state) ==
  /\ row.status = "queued" /\ drive.at = "off"
  /\ row' = [row EXCEPT !.status = "running"]
  /\ Emit(<<Mirrored("running")>>)
  /\ Seal("__input__", state)
  /\ drive' = [Idle EXCEPT !.at = "enter", !.node = 1, !.state = state]

\* a fault: the new invocation begins with an empty account
ResumedUnspent == [steps |-> row.steps, tokens |-> 0]

\* the account goes on where the row left it
Resumed == [steps |-> row.steps, tokens |-> row.tokens]

\* resumeRun: the suspended node is entered again, with the last sealed state
ResumeDrive ==
  /\ row.status = "awaiting_approval" /\ drive.at = "off"
  /\ row' = [row EXCEPT !.status = "running"]
  /\ Emit(<<Mirrored("running")>>)
  /\ drive' = [Idle EXCEPT !.at = "enter", !.node = Len(chain), !.done = row.steps,
                           !.steps = Resumed.steps, !.tokens = Resumed.tokens,
                           !.state = Restored]
  /\ UNCHANGED chain

\* saveProgress: nodes that ran to their end, tokens charged
Saved(d, status) == [status |-> status, steps |-> d.done, tokens |-> d.tokens]

\* kill: the run fails, its progress and an error event tell why
Kill(d, new, why) ==
  /\ row' = Saved(d, "failed")
  /\ Emit(new \o <<Event("error", why)>>)
  /\ drive' = Idle
  /\ UNCHANGED chain

\* a node is entered: an event and a step of the budget, which refuses the step
\* beyond the last
EnterNode(last) ==
  /\ drive.at = "enter" /\ drive.node <= last
  /\ IF drive.steps >= MaxSteps
       THEN Kill(drive, <<Event("node_enter", "none")>>, "max_steps")
       ELSE /\ drive' = [drive EXCEPT !.at = "node", !.steps = @ + 1]
            /\ Emit(<<Event("node_enter", "none")>>)
            /\ UNCHANGED <<row, chain>>

\* charge: counted first, then compared
Exceeds(cost) == drive.tokens + cost > MaxTokens

\* the body of a node comes to its end, having emitted new and charged cost
Returns(new, cost, state) ==
  /\ drive' = [drive EXCEPT !.at = "exit", !.tokens = @ + cost, !.state = state]
  /\ Emit(new) /\ UNCHANGED <<row, chain>>

\* or throws: BudgetExceeded, or whatever its calls raise
Throws(new, cost, why) == Kill([drive EXCEPT !.tokens = @ + cost], new, why)

\* node_exit, saveProgress, then the framework seals the state
ExitNode(node) ==
  /\ drive.at = "exit"
  /\ Emit(<<Event("node_exit", "none")>>)
  /\ LET d == [drive EXCEPT !.done = @ + 1] IN
       /\ row' = Saved(d, row.status)
       /\ drive' = [d EXCEPT !.at = "enter", !.node = @ + 1]
  /\ Seal(node, drive.state)

\* after the last node
Complete(last) ==
  /\ drive.at = "enter" /\ drive.node > last
  /\ row' = [row EXCEPT !.status = "completed"]
  /\ Emit(<<Mirrored("completed")>>)
  /\ drive' = Idle
  /\ UNCHANGED chain

-----------------------------------------------------------------------------
(* The stream and the browser *)

\* a fault: the stream is taken up at the cursor
EventsFrom(cursor) == SubSeq(events, IF cursor = 0 THEN 1 ELSE cursor, Len(events))

\* eventsAfter
EventsAfter(cursor) == SubSeq(events, cursor + 1, Len(events))

\* isTerminalSseEvent
IsTerminalSseEvent(e) == e.type \in {"done", "error"} \/ (e.type = "audit" /\ IsTerminal(e.of))

Stopped == browser.status \in {"finished", "ended", "closed"}

\* ReconnectingSse.connect
Connect ==
  /\ browser.status \in {"connecting", "reconnecting"}
  /\ browser' = [browser EXCEPT !.status = "open", !.delivered = FALSE]
  /\ UNCHANGED <<run, crashes, got, drops>>

\* onerror: connect again, or give up after a streak of empty connections
Lost(b) ==
  LET streak == IF b.delivered THEN 0 ELSE b.streak + 1
  IN [b EXCEPT !.streak = streak,
               !.status = IF streak >= EMPTY_STREAK_LIMIT THEN "ended" ELSE "reconnecting"]

\* a fault: the server keeps the stream of a run that is over
NeverClosed == FALSE

\* the server ends the stream with the last batch of a run that is over
Closes == IsTerminal(row.status)

\* a push of the server: the first n of the events after the cursor arrive, or all
\* of them; the terminal one makes the browser stop
Push ==
  /\ browser.status = "open"
  /\ LET fresh == EventsAfter(browser.cursor)
         ends  == {i \in DOMAIN fresh : IsTerminalSseEvent(fresh[i])}
     IN \E n \in 0 .. Len(fresh) :
          LET upto == {i \in ends : i <= n}
              take == IF upto = {} THEN n ELSE CHOOSE i \in upto : \A j \in upto : i <= j
              b == [browser EXCEPT !.cursor = Len(events) - Len(fresh) + take,
                                   !.delivered = @ \/ take > 0]
          IN /\ got' = [n |-> got.n + take,
                        inOrder |-> got.inOrder /\ (take > 0 => Len(events) - Len(fresh) = got.n)]
             /\ \/ upto # {} /\ browser' = [b EXCEPT !.status = "finished"] /\ UNCHANGED drops
                \/ upto = {} /\ n < Len(fresh) /\ drops < MaxDrops
                     /\ drops' = drops + 1 /\ browser' = Lost(b)
                \/ upto = {} /\ n = Len(fresh) /\ (n > 0 \/ Closes)
                     /\ browser' = (IF Closes THEN Lost(b) ELSE b) /\ UNCHANGED drops
  /\ UNCHANGED <<run, crashes>>

\* the connection breaks between two pushes
Drop ==
  /\ browser.status = "open" /\ drops < MaxDrops /\ drops' = drops + 1
  /\ browser' = Lost(browser)
  /\ UNCHANGED <<run, crashes, got>>

\* the page is left
Leave ==
  /\ ~Stopped /\ browser' = [browser EXCEPT !.status = "closed"]
  /\ UNCHANGED <<run, crashes, got, drops>>

\* a fault: the run of a dead process fails without a word
OrphanedSilently == row' = [row EXCEPT !.status = "failed"] /\ UNCHANGED events

\* recoverDispatch
Orphaned ==
  row' = [row EXCEPT !.status = "failed"] /\ Emit(<<Event("error", "orphaned_by_restart")>>)

\* a restart: the drive is lost and its run fails as orphaned, a suspended run and a
\* queued one stay as they are, the connection breaks
Crash ==
  /\ crashes < MaxCrashes /\ crashes' = crashes + 1
  /\ drive' = IF row.status = "queued" THEN Gone ELSE Idle
  /\ IF row.status = "running" THEN Orphaned ELSE UNCHANGED <<row, events>>
  /\ browser' = IF browser.status = "open" THEN Lost(browser) ELSE browser
  /\ UNCHANGED <<chain, got, drops>>

=============================================================================
