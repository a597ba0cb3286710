---------------------------- MODULE IoxSupervisor ----------------------------
(***************************************************************************)
(* Who may talk to a physical board: the processes of an IOx session and   *)
(* the supervisor that has custody of them (server/iox_verification.py).   *)
(*                                                                         *)
(* An attempt of the controller never forks an ssh or a recipe itself.  It *)
(* starts a supervisor, a subreaper in a process of its own, hands it the  *)
(* board's flock and asks it over a socket to spawn, to wait and to reap.  *)
(* The supervisor outlives the controller; the fence file says for the     *)
(* next attempt whether the last session was seen to end.  A first session *)
(* without the lock may discover which board it is.                        *)
(*                                                                         *)
(* A session has a transport ("T"), a recipe ("R") and at most one process *)
(* one of them forked into a session of its own ("kid").  A process may    *)
(* end at any time and need not end when it is signalled: signals have no  *)
(* state here.  Attempts on one board are modelled.                        *)
(***************************************************************************)
EXTENDS Naturals, Sequences, FiniteSets

CONSTANTS
    Sessions,       \* attempts: 1..n, started in this order
    SupBudgets      \* what may happen from outside

VARIABLES
    ses,        \* attempt -> the controller's thread
    sup,        \* attempt -> its supervisor process
    proc,       \* attempt -> the processes under that supervisor
    wire,       \* attempt -> requests and answers in the socket
    lockBy,     \* attempt whose descriptors hold the board's flock, 0 if none
    seal,       \* the board's session fence file
    epoch,      \* boot identity: counts the container's starts
    script,     \* attempt -> its transcript: records on disk and in memory
    supLeft     \* what is left of the outside events

supVars == <<ses, sup, proc, wire, lockBy, seal, epoch, script, supLeft>>

Roots == {"T", "R"}
SupEvents == {"spawn", "recipe", "second", "dis", "late", "fork", "disk", "server", "sup", "boot", "time", "busy"}
SupSpend(e) == supLeft[e] > 0 /\ supLeft' = [supLeft EXCEPT ![e] = @ - 1]

\* open: the client's end of the socket; clean: the transport was reaped in
\* time; owned: the fence is this attempt's; gap: some reap concluded on its
\* deadline and not on two empty rounds.
NoSession == [pc |-> "idle", part |-> "own", seq |-> 0, waits |-> FALSE, open |-> FALSE,
              active |-> FALSE, recipe |-> FALSE, clean |-> TRUE, owned |-> FALSE,
              spent |-> FALSE]
NoSup == [st |-> "none", entries |-> {}, known |-> "none", sel |-> {}, rounds |-> 0,
          then |-> "none", seq |-> 0, gap |-> FALSE]
NoProc == [T |-> "none", R |-> "none", kid |-> "none", par |-> "none"]
NoWire == [req |-> <<>>, ans |-> <<>>]

SupInit ==
    /\ ses = [a \in Sessions |-> NoSession]
    /\ sup = [a \in Sessions |-> NoSup]
    /\ proc = [a \in Sessions |-> NoProc]
    /\ wire = [a \in Sessions |-> NoWire]
    /\ lockBy = 0 /\ seal = [by |-> 0, state |-> "none", boot |-> 0, ref |-> 0]
    /\ epoch = 1
    /\ script = [a \in Sessions |-> [file |-> 1, mem |-> 1]]
    /\ supLeft \in SupBudgets

(***************************************************************************)
(* The transcript.  A record is appended by replacing the whole file; the  *)
(* writer refuses when the file is not the one it wrote last.              *)
(***************************************************************************)
Torn(a) == script[a].file # script[a].mem

\* Mutant: a failed replacement takes the transcript away.
AddRecord_Remove(a) ==
    \/ /\ ~Torn(a)
       /\ script' = [script EXCEPT ![a] = [file |-> @.mem + 1, mem |-> @.mem + 1]]
       /\ UNCHANGED supLeft
    \/ SupSpend("disk") /\ script' = [script EXCEPT ![a].file = 0]
\* It fails before the replacement, or after it: then the file is ahead.
AddRecord(a) ==
    \/ /\ ~Torn(a)
       /\ script' = [script EXCEPT ![a] = [file |-> @.mem + 1, mem |-> @.mem + 1]]
       /\ UNCHANGED supLeft
    \/ /\ SupSpend("disk") /\ ~Torn(a)
       /\ script' \in {script, [script EXCEPT ![a].file = @ + 1]}

\* The fence names a prefix of a transcript; every admission checks that it is
\* there, for the fences of all boards.
PrefixThere == seal.by # 0 => seal.ref <= script[seal.by].file
ScanAuthority == PrefixThere /\ seal.state \in {"none", "active", "reaped"}

(***************************************************************************)
(* The supervisor's view of its processes.                                 *)
(***************************************************************************)
Alive(p, x) == p[x] \in {"alive", "tree", "orphan"}
Quiet(a) == \A x \in Roots \cup {"kid"} : ~Alive(proc[a], x)

\* _supervisor_refresh: the kid is in the tree of its parent; an adopted one
\* nobody knows goes to the only entry that is still active.
ActiveEntries(s, p, k) ==
    {t \in s.entries : Alive(p, t) \/ (k = t /\ Alive(p, "kid"))}
Refreshed(s, p) ==
    LET seen == IF p.kid = "tree" /\ p.par \in s.entries THEN p.par ELSE s.known
        act == ActiveEntries(s, p, seen)
    IN  IF p.kid = "orphan" /\ seen = "none" /\ Cardinality(act) = 1
        THEN CHOOSE t \in act : TRUE ELSE seen

\* A round of _supervisor_reap looks again, and gives what no other entry
\* knows to a selected one.
Attributed(s, p) ==
    LET seen == Refreshed(s, p)
    IN  IF p.kid = "orphan" /\ seen = "none" /\ s.sel # {}
        THEN CHOOSE t \in s.sel : TRUE ELSE seen

Remaining(s, p, k) ==
    {t \in s.sel : Alive(p, t)} \cup (IF k \in s.sel /\ Alive(p, "kid") THEN {"kid"} ELSE {})

(***************************************************************************)
(* The controller's thread.  A request is sent with a number of its own;   *)
(* the answer counts only under that number.                               *)
(***************************************************************************)
Underway(a) == ses[a].pc \notin {"idle", "end", "dead"}
Step(a, s) == ses' = [ses EXCEPT ![a] = s]
Goes(a, pc) == Step(a, [ses[a] EXCEPT !.pc = pc])
Closed(a) == [wire EXCEPT ![a].ans = <<>>]

\* cancel_and_reap, after the recipe was reaped if there is one.
Stopping(s) == IF s.active THEN "stop T" ELSE "reap transport"
WindsUp(s) == IF s.recipe THEN "poll R" ELSE Stopping(s)

\* What is left of an attempt that closed its socket.
Over(s, pc) == [NoSession EXCEPT !.pc = pc, !.part = s.part, !.clean = s.clean,
                                 !.owned = s.owned, !.spent = s.spent]

\* A command's process was reaped by itself, or it was stopped.
AfterReap(s, ok) ==
    IF ~ok THEN [s EXCEPT !.pc = WindsUp(s)]
    ELSE [s EXCEPT !.active = FALSE, !.pc = IF s.part = "dis" THEN "reap transport" ELSE "ready"]
AfterStop(s, ok) == [s EXCEPT !.pc = "reap transport", !.active = ~ok]
\* The end of a session: a fence of its own is closed when all reaps went well.
AfterAll(s, ok) ==
    [s EXCEPT !.clean = @ /\ ok,
              !.pc = IF ~ok THEN "abandon" ELSE IF s.clean /\ s.owned THEN "seal" ELSE "release"]

\* What the thread does with the answer to a request, or without one.
Answered(s, ok) ==
    CASE s.pc = "spawn R" -> IF ok THEN [s EXCEPT !.pc = "ready", !.recipe = TRUE]
                             ELSE [s EXCEPT !.pc = Stopping(s)]
      [] s.pc = "spawn T" -> IF ok THEN [s EXCEPT !.pc = "wait T", !.active = TRUE]
                             ELSE [s EXCEPT !.pc = WindsUp(s)]
      [] s.pc = "wait T" -> [s EXCEPT !.pc = "reap T"]
      [] s.pc = "reap T" -> AfterReap(s, ok)
      [] s.pc = "poll R" -> [s EXCEPT !.pc = "reap R"]
      [] s.pc = "reap R" -> [s EXCEPT !.pc = Stopping(s)]
      [] s.pc = "stop T" -> AfterStop(s, ok)
      [] s.pc = "reap transport" -> [s EXCEPT !.pc = "reap all", !.clean = ok /\ ~s.active]
      [] s.pc = "reap all" -> AfterAll(s, ok)
      [] OTHER -> Over(s, IF ok THEN "exit" ELSE "end")

Requests == {"spawn R", "spawn T", "wait T", "reap T", "poll R", "reap R", "stop T",
             "reap transport", "reap all", "release"}

\* A first session without the lock finds out the board, or it is known.  Attempts
\* start one after the other (a bound): one that starts early waits for the lock.
Begin(a) ==
    /\ ses[a].pc = "idle" /\ \A b \in 1..(a - 1) : ses[b].pc \in {"end", "dead"}
    /\ IF a = 1 THEN UNCHANGED supLeft ELSE SupSpend("second")
    /\ Goes(a, "lock")
    /\ UNCHANGED <<sup, proc, wire, lockBy, seal, epoch, script>>
Discover(a) ==
    /\ ses[a].pc = "idle" /\ a = 1
    /\ SupSpend("dis") /\ ScanAuthority
    /\ Step(a, [NoSession EXCEPT !.pc = "note", !.part = "dis", !.open = TRUE])
    /\ sup' = [sup EXCEPT ![a].st = "serving"]
    /\ UNCHANGED <<proc, wire, lockBy, seal, epoch, script>>

\* The context of a command is recorded before its process is asked for.
Note(a) ==
    /\ ses[a].pc = "note"
    /\ \/ AddRecord(a) /\ Goes(a, IF script'[a].mem > script[a].mem THEN "spawn T"
                                  ELSE WindsUp(ses[a]))
       \/ Torn(a) /\ Goes(a, WindsUp(ses[a])) /\ UNCHANGED <<script, supLeft>>
    /\ UNCHANGED <<sup, proc, wire, lockBy, seal, epoch>>

Ask(a) ==
    /\ ses[a].pc \in Requests /\ ~ses[a].waits
    /\ IF ~ses[a].open \/ ses[a].spent
       THEN /\ Step(a, Answered(ses[a], FALSE))
            /\ wire' = IF ses[a].pc = "release" THEN Closed(a) ELSE wire
       ELSE /\ Step(a, [ses[a] EXCEPT !.waits = TRUE, !.seq = @ + 1])
            /\ wire' = [wire EXCEPT ![a].req = Append(@, [n |-> ses[a].seq + 1,
                                                          op |-> ses[a].pc])]
    /\ UNCHANGED <<sup, proc, lockBy, seal, epoch, script, supLeft>>

\* Mutant: the next answer in the socket is taken for this request's.
Accepted_Any(a, m) == m.ok
Accepted(a, m) == m.ok /\ m.n = ses[a].seq
Hear(a) ==
    /\ ses[a].waits /\ wire[a].ans # <<>>
    /\ LET s == Answered([ses[a] EXCEPT !.waits = FALSE], Accepted(a, Head(wire[a].ans)))
       IN  /\ Step(a, s)
           /\ wire' = IF s.open THEN [wire EXCEPT ![a].ans = Tail(@)] ELSE Closed(a)
    /\ UNCHANGED <<sup, proc, lockBy, seal, epoch, script, supLeft>>

\* No answer in time, or the supervisor is gone.  A wait that gets none gives
\* the socket up; every other request leaves it open, with the answer to come.
NoAnswer(a) ==
    /\ ses[a].waits /\ wire[a].ans = <<>>
    /\ IF ses[a].spent \/ sup[a].st \in {"gone", "killed"} THEN UNCHANGED supLeft
       ELSE SupSpend("late")
    /\ LET s == Answered([ses[a] EXCEPT !.waits = FALSE, !.open = @ /\ ses[a].pc # "wait T"],
                         FALSE)
       IN  Step(a, s) /\ wire' = IF s.open THEN wire ELSE Closed(a)
    /\ UNCHANGED <<sup, proc, lockBy, seal, epoch, script>>

\* release waits for the end of the process; a discovery goes on only then.
Exited(a) ==
    /\ ses[a].pc = "exit" /\ sup[a].st = "gone"
    /\ Goes(a, IF ses[a].part = "dis" /\ ses[a].clean THEN "lock" ELSE "end")
    /\ UNCHANGED <<sup, proc, wire, lockBy, seal, epoch, script, supLeft>>
\* Mutant: a discovery that could not reap goes on as one that did.
Abandon_GoesOn(a) ==
    /\ ses[a].pc = "abandon"
    /\ Step(a, Over(ses[a], IF ses[a].part = "dis" THEN "lock" ELSE "end"))
    /\ wire' = Closed(a)
    /\ UNCHANGED <<sup, proc, lockBy, seal, epoch, script, supLeft>>
Abandon(a) ==
    /\ ses[a].pc = "abandon" /\ Step(a, Over(ses[a], "end"))
    /\ wire' = Closed(a)
    /\ UNCHANGED <<sup, proc, lockBy, seal, epoch, script, supLeft>>

BoardLock(a) ==
    /\ ses[a].pc = "lock"
    /\ \/ lockBy = 0 /\ lockBy' = a /\ Goes(a, "start") /\ UNCHANGED supLeft
       \/ lockBy # 0 /\ SupSpend("busy") /\ Goes(a, "end") /\ UNCHANGED lockBy
    /\ UNCHANGED <<sup, proc, wire, seal, epoch, script>>

\* The supervisor inherits the lock; the controller closes its descriptor.  One that
\* cannot start leaves the lock with the controller, which gives it back.
StartSupervisor(a) ==
    /\ ses[a].pc = "start"
    /\ \/ /\ Step(a, [NoSession EXCEPT !.pc = "admit", !.open = TRUE, !.spent = ses[a].spent])
          /\ sup' = [sup EXCEPT ![a] = [NoSup EXCEPT !.st = "serving"]]
          /\ proc' = [proc EXCEPT ![a] = NoProc] /\ wire' = [wire EXCEPT ![a] = NoWire]
          /\ UNCHANGED <<lockBy, supLeft>>
       \/ SupSpend("disk") /\ Goes(a, "end") /\ lockBy' = 0 /\ UNCHANGED <<sup, proc, wire>>
    /\ UNCHANGED <<seal, epoch, script>>

\* Mutant: a lock that could be taken is proof enough that the last session ended.
Refused_Never == FALSE
\* An active fence of this boot: its processes may live, whoever has the lock.
Refused == seal.state = "active" /\ seal.boot = epoch
\* The fence is replaced; a failure leaves the old one or, after the rename, the new.
Seals(new) ==
    \/ seal' = new /\ UNCHANGED supLeft
    \/ SupSpend("disk") /\ seal' \in {seal, new}
Admit(a) ==
    LET admitted == ScanAuthority /\ ~Refused /\ ~Torn(a)
        new == [by |-> a, state |-> "active", boot |-> epoch, ref |-> script[a].mem]
    IN  /\ ses[a].pc = "admit"
        /\ \/ /\ admitted /\ Seals(new)
              /\ IF supLeft' = supLeft THEN Step(a, [ses[a] EXCEPT !.pc = "ready", !.owned = TRUE])
                 ELSE Goes(a, "reap all")
           \/ ~admitted /\ Goes(a, "reap all") /\ UNCHANGED <<seal, supLeft>>
        /\ UNCHANGED <<sup, proc, wire, lockBy, epoch, script>>

\* Device commands, with or without a recipe that asks for them.
Work(a) ==
    /\ ses[a].pc = "ready"
    /\ \/ sup[a].entries = {} /\ SupSpend("recipe") /\ Goes(a, "spawn R")
       \/ "T" \notin sup[a].entries /\ SupSpend("spawn") /\ Goes(a, "note")
       \/ Goes(a, WindsUp(ses[a])) /\ UNCHANGED supLeft
    /\ UNCHANGED <<sup, proc, wire, lockBy, seal, epoch, script>>

\* The fence is closed after everything was reaped and before the release.
SealReaped(a) ==
    /\ ses[a].pc = "seal" /\ Goes(a, "release")
    /\ \/ ~Torn(a) /\ Seals([seal EXCEPT !.state = "reaped", !.ref = script[a].mem])
       \/ Torn(a) /\ UNCHANGED <<seal, supLeft>>
    /\ UNCHANGED <<sup, proc, wire, lockBy, epoch, script>>

ClientStep(a) ==
    Note(a) \/ Ask(a) \/ Hear(a) \/ NoAnswer(a) \/ Exited(a) \/ Abandon(a) \/ BoardLock(a)
    \/ StartSupervisor(a) \/ Admit(a) \/ Work(a) \/ SealReaped(a)

(***************************************************************************)
(* The supervisor's process: one request at a time, and at the end of the  *)
(* socket it reaps what it has and gives the lock back.                    *)
(***************************************************************************)
Scope(s, op) ==
    CASE op \in {"reap T", "stop T"} -> {"T"} [] op = "reap R" -> {"R"}
      [] op = "reap transport" -> s.entries \cap {"T"} [] OTHER -> s.entries

\* The answer goes out, or nobody is there to take it; then the loop looks at
\* the processes again.
Responds(a, s, p, n, ok, then) ==
    /\ wire' = [wire EXCEPT ![a] =
         [req |-> IF s.then = "none" THEN Tail(@.req) ELSE @.req,
          ans |-> IF ses[a].open THEN Append(@.ans, [n |-> n, ok |-> ok]) ELSE <<>>]]
    /\ sup' = [sup EXCEPT ![a] = [s EXCEPT !.known = Refreshed(s, p), !.then = "none",
         !.sel = {}, !.rounds = 0, !.seq = 0,
         !.st = IF then = "serving" /\ ~ses[a].open THEN "ending" ELSE then]]

Reaping(s, p, op, n) ==
    [s EXCEPT !.st = "scan", !.sel = Scope(s, op), !.rounds = 0, !.then = op, !.seq = n,
              !.known = Refreshed(s, p)]

\* A spawned process gets an entry, and keeps it when it is gone.
Spawned(s, x) == [s EXCEPT !.entries = @ \cup {x}]

Serve(a) ==
    LET s == sup[a]
        m == Head(wire[a].req)
    IN  /\ s.st = "serving" /\ wire[a].req # <<>>
        /\ CASE m.op \in {"spawn T", "spawn R"} ->
                  LET x == IF m.op = "spawn T" THEN "T" ELSE "R"
                  IN  /\ proc' = [proc EXCEPT ![a][x] = "alive"]
                      /\ Responds(a, Spawned(s, x), proc'[a], m.n, TRUE,
                                  "serving")
             [] m.op \in {"wait T", "poll R"} ->
                  Responds(a, s, proc[a], m.n, TRUE, "serving") /\ UNCHANGED proc
             [] OTHER ->
                  /\ sup' = [sup EXCEPT ![a] = Reaping(s, proc[a], m.op, m.n)]
                  /\ wire' = [wire EXCEPT ![a].req = Tail(@)] /\ UNCHANGED proc
        /\ UNCHANGED <<ses, lockBy, seal, epoch, script, supLeft>>

\* The end of the socket, with all requests read, or of a failed release.
EndOfWire(a) ==
    /\ sup[a].st = "serving" /\ wire[a].req = <<>> /\ ~ses[a].open
    /\ sup' = [sup EXCEPT ![a].st = "ending"]
    /\ UNCHANGED <<ses, proc, wire, lockBy, seal, epoch, script, supLeft>>
\* Within the session's deadline it reaps; after it, it kills and leaves.
LastReap(a) ==
    /\ sup[a].st = "ending"
    /\ sup' = [sup EXCEPT ![a] = IF ses[a].spent THEN [sup[a] EXCEPT !.st = "leaving"]
                                 ELSE Reaping(sup[a], proc[a], "end", 0)]
    /\ UNCHANGED <<ses, proc, wire, lockBy, seal, epoch, script, supLeft>>

\* Mutant: adopted processes that no entry knows are left out of a round.
Scanned_Known(a) == Refreshed(sup[a], proc[a])
Scanned(a) == Attributed(sup[a], proc[a])
Scan(a) ==
    /\ sup[a].st = "scan"
    /\ sup' = [sup EXCEPT ![a].known = Scanned(a), ![a].st = "count"]
    /\ UNCHANGED <<ses, proc, wire, lockBy, seal, epoch, script, supLeft>>

\* What follows a reap, by the request it was for.
Concludes(a, s, ok) ==
    CASE s.then = "end" -> /\ sup' = [sup EXCEPT ![a] = [s EXCEPT !.st = "leaving"]]
                           /\ UNCHANGED wire
      [] s.then = "release" -> IF ok THEN Responds(a, s, proc[a], s.seq, TRUE, "leaving")
                               ELSE sup' = [sup EXCEPT ![a] = [s EXCEPT !.st = "ending"]]
                                    /\ UNCHANGED wire
      [] OTHER -> Responds(a, s, proc[a], s.seq, ok, "serving")

\* Mutant: one round without a process is enough.
EmptyRounds_One == 1
EmptyRounds == 2
Count(a) ==
    LET s == sup[a]
        k == IF Alive(proc[a], "kid") THEN s.known ELSE "none"
        t == [s EXCEPT !.known = k]
    IN  /\ s.st = "count"
        /\ IF Remaining(s, proc[a], k) # {}
           THEN sup' = [sup EXCEPT ![a] = [t EXCEPT !.st = "scan", !.rounds = 0]]
                /\ UNCHANGED wire
           ELSE IF s.rounds + 1 < EmptyRounds
           THEN sup' = [sup EXCEPT ![a] = [t EXCEPT !.st = "scan", !.rounds = @ + 1]]
                /\ UNCHANGED wire
           ELSE Concludes(a, t, TRUE)
        /\ UNCHANGED <<ses, proc, lockBy, seal, epoch, script, supLeft>>

\* The time of a reap is over: what is known is killed, looked at and counted once.
TimeUp(a) ==
    LET s == [sup[a] EXCEPT !.known = Refreshed(sup[a], proc[a])]
        ok == Remaining(s, proc[a], s.known) = {}
    IN  /\ sup[a].st = "scan"
        /\ Concludes(a, [s EXCEPT !.gap = @ \/ ok], ok)
        /\ UNCHANGED <<ses, proc, lockBy, seal, epoch, script, supLeft>>

\* Mutant: the lock is left to the end of the process that inherited it.
Unlocked_Kept(a) == lockBy
Unlocked(a) == IF lockBy = a THEN 0 ELSE lockBy
Leave(a) ==
    /\ sup[a].st = "leaving"
    /\ sup' = [sup EXCEPT ![a] = [NoSup EXCEPT !.st = "gone", !.gap = sup[a].gap]]
    /\ lockBy' = IF ses[a].part = "own" THEN Unlocked(a) ELSE lockBy
    /\ UNCHANGED <<ses, proc, wire, seal, epoch, script, supLeft>>

SupStep(a) == Serve(a) \/ EndOfWire(a) \/ LastReap(a) \/ Scan(a) \/ Count(a) \/ Leave(a)

(***************************************************************************)
(* The processes, and what happens from outside.                           *)
(***************************************************************************)
Fork(a) ==
    /\ SupSpend("fork") /\ proc[a].kid = "none"
    /\ \E x \in Roots : /\ proc[a][x] = "alive"
                        /\ proc' = [proc EXCEPT ![a].kid = "tree", ![a].par = x]
    /\ UNCHANGED <<ses, sup, wire, lockBy, seal, epoch, script>>
Exit(a) ==
    /\ \E x \in Roots \cup {"kid"} :
         /\ Alive(proc[a], x)
         /\ proc' = [proc EXCEPT ![a][x] = "none", ![a].kid =
                       IF x = "kid" THEN "none"
                       ELSE IF @ = "tree" /\ proc[a].par = x THEN "orphan" ELSE @]
    /\ UNCHANGED <<ses, sup, wire, lockBy, seal, epoch, script, supLeft>>

SessionDeadline(a) ==
    /\ SupSpend("time") /\ Underway(a) /\ ~ses[a].spent
    /\ ses' = [ses EXCEPT ![a].spent = TRUE]
    /\ UNCHANGED <<sup, proc, wire, lockBy, seal, epoch, script>>

\* The controller's process dies; the supervisors go on.
ServerDies ==
    /\ SupSpend("server") /\ \E a \in Sessions : Underway(a)
    /\ ses' = [a \in Sessions |-> IF Underway(a) THEN Over(ses[a], "dead") ELSE ses[a]]
    /\ wire' = [a \in Sessions |-> [wire[a] EXCEPT !.ans = <<>>]]
    /\ lockBy' = IF lockBy # 0 /\ ses[lockBy].pc = "start" THEN 0 ELSE lockBy
    /\ UNCHANGED <<sup, proc, seal, epoch, script>>
SupervisorDies(a) ==
    /\ SupSpend("sup") /\ sup[a].st \notin {"none", "gone", "killed"}
    /\ sup' = [sup EXCEPT ![a] = [NoSup EXCEPT !.st = "killed", !.gap = sup[a].gap]]
    /\ lockBy' = IF ses[a].part = "own" THEN Unlocked(a) ELSE lockBy
    /\ UNCHANGED <<ses, proc, wire, seal, epoch, script>>
\* Every process ends with the container's first one, whose start is the boot.
BootAgain ==
    /\ SupSpend("boot") /\ epoch' = epoch + 1 /\ lockBy' = 0
    /\ ses' = [a \in Sessions |-> IF Underway(a) THEN [NoSession EXCEPT !.pc = "dead"] ELSE ses[a]]
    /\ sup' = [a \in Sessions |-> [NoSup EXCEPT !.st = IF sup[a].st = "none" THEN @ ELSE "gone"]]
    /\ proc' = [a \in Sessions |-> NoProc] /\ wire' = [a \in Sessions |-> NoWire]
    /\ UNCHANGED <<seal, script>>

SupNext ==
    \/ \E a \in Sessions : \/ Begin(a) \/ Discover(a) \/ ClientStep(a) \/ SupStep(a) \/ TimeUp(a)
                           \/ Fork(a) \/ Exit(a) \/ SessionDeadline(a) \/ SupervisorDies(a)
    \/ ServerDies \/ BootAgain

(***************************************************************************)
(* Properties.                                                             *)
(***************************************************************************)
\* Some reap of the session ended on its deadline, with nothing left that it knew.
Doubtful(a) == sup[a].gap

\* A fence says reaped only when no process of its session is left, whatever was
\* forked, orphaned or answered late (_finalize after reap_all).
ReapedIsQuiet ==
    seal.state = "reaped" => Quiet(seal.by) \/ Doubtful(seal.by)

\* While a process of a session may talk to the board, the board is not free: the lock
\* is held, or the fence of this boot is active (_admit_fence).
LiveIsFenced ==
    \A a \in Sessions : ses[a].owned /\ ~Quiet(a) =>
        \/ Doubtful(a) \/ lockBy = a
        \/ seal.by = a /\ seal.state = "active" /\ seal.boot = epoch

\* One session on the board: an attempt that was admitted meets no process of another
\* one that had been admitted before.
OneSessionOnBoard ==
    \A a, b \in Sessions : a # b /\ ses[a].owned /\ ses[b].owned /\ ~Quiet(a) /\ ~Quiet(b)
        => Doubtful(a) \/ Doubtful(b)

\* The fence names a prefix of a transcript that is there, after any failed write: a
\* fence that does not validate would stop every attempt on every board.
FenceValidates == PrefixThere

CustodySafe == ReapedIsQuiet /\ LiveIsFenced /\ OneSessionOnBoard /\ FenceValidates

\* The lock is asked for only when the discovery's processes are gone, and with it its
\* connection to a board nobody has identified yet (_discover_and_lock).
DiscoveryIsOver ==
    \A a \in Sessions :
        ses[a].part = "dis" /\ ses[a].pc # "lock" /\ ses'[a].pc = "lock"
            => Quiet(a) \/ Doubtful(a)

\* Holds again and again.
\* The lock comes back whatever happens to the attempt and its processes
\* (_supervisor_main's end, _finalize).
LockReturns == lockBy = 0
=============================================================================
