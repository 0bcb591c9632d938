----------------------------- MODULE DriverPool -----------------------------
(***************************************************************************)
(* cross2/main.c: a master process reads commands and creates driver       *)
(* processes.  Each driver has a pipe from the master, a pipe to the       *)
(* master and a timerfd, and waits for them with an edge-triggered epoll.  *)
(* A task keeps a driver BUSY until its timer expires; a driver that is    *)
(* BUSY answers every message with "Busy".  The master sends one message   *)
(* at a time and blocks until the answer arrives.                          *)
(*                                                                         *)
(* Drivers are numbered in the order of their creation (their index in     *)
(* drivers[] plus one).  A timer is its argument to send_task; only its    *)
(* sign matters here.  A driver's step handles one event of the batch that *)
(* epoll_wait() returned.  Any system call of a driver may fail; those of  *)
(* the master on the pipes that it made are taken to succeed.              *)
(***************************************************************************)
EXTENDS Integers, Sequences

CONSTANTS
    MAX_DRIVERS,   \* length of the table drivers[]
    Timers         \* the timers a user may ask for

ASSUME MaxDriversAssumption == MAX_DRIVERS \in Nat
ASSUME TimersAssumption == Timers \subseteq Int

Drivers == 1..MAX_DRIVERS

VARIABLES
    master,          \* "prompt", "await" an answer, "exited" or "crashed"
    drivers_count,
    asked, upto,     \* the driver asked now, and the last one to ask
    to_driver, to_master,   \* the pipes of each driver
    status,          \* AVAILABLE or BUSY
    tv_sec,          \* ts.it_value.tv_sec: the last timer set
    timer,           \* the timerfd: "off", "armed" or "expired" and not read
    edges,           \* the events epoll holds ready for each driver
    batch,           \* the events returned by epoll_wait() and not yet handled
    dead,            \* the drivers whose driver_routine() returned
    silent           \* the drivers whose write() of "ok" failed, unnoticed

mvars == <<master, drivers_count, asked, upto>>
pipes == <<to_driver, to_master>>
clock == <<status, tv_sec, timer>>
deaths == <<dead, silent>>
vars == <<mvars, pipes, clock, edges, batch, deaths>>

AVAILABLE == "AVAILABLE"
BUSY == "BUSY"

Task(t) == [kind |-> "task", time |-> t]
StatusQuery == [kind |-> "status", time |-> 0]
Messages == {StatusQuery} \cup {Task(t) : t \in Timers}
Answers == {"ok", "Available", "Busy"}

Init ==
    /\ master = "prompt" /\ drivers_count = 0 /\ asked = 0 /\ upto = 0
    /\ to_driver = [d \in Drivers |-> <<>>]
    /\ to_master = [d \in Drivers |-> <<>>]
    /\ status = [d \in Drivers |-> AVAILABLE]
    /\ tv_sec = [d \in Drivers |-> 0]
    /\ timer = [d \in Drivers |-> "off"]
    /\ edges = [d \in Drivers |-> {}]
    /\ batch = [d \in Drivers |-> {}]
    /\ dead = {} /\ silent = {}

Created == 1..drivers_count
-----------------------------------------------------------------------------
(* The master: the commands of execute(), at the prompt only. *)

\* drivers[drivers_count] would be past the end of the table.
TableFull == drivers_count = MAX_DRIVERS

CreateDriver ==
    /\ master = "prompt"
    /\ ~TableFull
    /\ drivers_count' = drivers_count + 1
    /\ UNCHANGED <<master, asked, upto, pipes, clock, edges, batch, deaths>>

\* The master stops: at "exit" or the end of its input; when mkfifo(), open() or
\* fork() fails; when send_task() does not know the pid.
Exit ==
    /\ master = "prompt"
    /\ master' = "exited"
    /\ UNCHANGED <<drivers_count, asked, upto, pipes, clock, edges, batch, deaths>>

\* get_status() uses the NULL that get_driver_by_pid() returns for an unknown
\* pid, a line of spaces makes execute() compare a NULL token, and a driver past
\* the end of the table is stored all the same: the sanitizer stops the program.
Crash ==
    /\ master = "prompt"
    /\ master' = "crashed"
    /\ UNCHANGED <<drivers_count, asked, upto, pipes, clock, edges, batch, deaths>>

\* Write m to the pipe of d, which is an edge for the epoll of d.
Write(d, m) ==
    /\ to_driver' = [to_driver EXCEPT ![d] = Append(@, m)]
    /\ edges' = [edges EXCEPT ![d] = @ \cup {"pipe"}]

\* send_task and get_status for one driver, get_drivers for all of them in turn.
Ask(first, last, m) ==
    /\ master = "prompt"
    /\ master' = "await"
    /\ asked' = first
    /\ upto' = last
    /\ Write(first, m)
    /\ UNCHANGED <<drivers_count, to_master, clock, batch, deaths>>

SendTask(d, t) == Ask(d, d, Task(t))
GetStatus(d) == Ask(d, d, StatusQuery)
GetDrivers == drivers_count > 0 /\ Ask(1, drivers_count, StatusQuery)

\* The blocking read() of the answer; get_drivers() then asks the next driver.
Receive ==
    /\ master = "await"
    /\ to_master[asked] # <<>>
    /\ to_master' = [to_master EXCEPT ![asked] = Tail(@)]
    /\ \/ /\ asked < upto
          /\ asked' = asked + 1
          /\ Write(asked + 1, StatusQuery)
          /\ UNCHANGED master
       \/ /\ asked = upto
          /\ master' = "prompt"
          /\ UNCHANGED <<asked, to_driver, edges>>
    /\ UNCHANGED <<drivers_count, upto, clock, batch, deaths>>
-----------------------------------------------------------------------------
(* A driver. *)

\* What makes epoll hold an event when a timer expires: its registration.
NotRegistered(ready) == ready
TimerEdge(ready) == ready \cup {"timer"}

TimerExpires(d) ==
    /\ d \notin dead
    /\ timer[d] = "armed"
    /\ timer' = [timer EXCEPT ![d] = "expired"]
    /\ edges' = [edges EXCEPT ![d] = TimerEdge(@)]
    /\ UNCHANGED <<mvars, pipes, status, tv_sec, batch, deaths>>

\* epoll_wait(): the edges are used up; two events are handled in either order.
Wake(d) ==
    /\ d \notin dead
    /\ batch[d] = {} /\ edges[d] # {}
    /\ batch' = [batch EXCEPT ![d] = edges[d]]
    /\ edges' = [edges EXCEPT ![d] = {}]
    /\ UNCHANGED <<mvars, pipes, clock, deaths>>

\* driver_routine() returns, and what is in its pipes stays there: epoll_create1() or
\* epoll_wait() fails (a driver that was stopped and continued gets EINTR), or the read() of
\* a message.  Nobody looks at what the read() of the timerfd returns.
Fails(d) ==
    /\ d \notin dead
    /\ batch[d] = {} \/ "pipe" \in batch[d]
    /\ dead' = dead \cup {d}
    /\ UNCHANGED <<mvars, pipes, clock, edges, batch, silent>>

\* The second test of the message: token points into the buffer, which the answer
\* to a BUSY driver has overwritten, so only an AVAILABLE driver sees "task".
TokenSurvives(d, m) == m.kind = "task"
StillTask(d, m) == m.kind = "task" /\ status[d] = AVAILABLE

\* The answer to a status request, and one that looks at the timer instead.
FromTimer(d) == IF timer[d] = "armed" THEN "Busy" ELSE "Available"
StatusAnswer(d) == IF status[d] = AVAILABLE THEN "Available" ELSE "Busy"

\* timerfd_settime(): zero disarms the timer.
Settime(t) == IF t > 0 THEN "armed" ELSE "off"

\* The answers to one message, in the order they are written; and without the test
\* that gives a task an answer when the driver is BUSY.
IgnoreWhenBusy(d, m) ==
    (IF m.kind = "status" THEN <<StatusAnswer(d)>> ELSE <<>>)
        \o (IF StillTask(d, m) THEN <<"ok">> ELSE <<>>)

AnswersTo(d, m) ==
    (IF m.kind = "status" \/ status[d] = BUSY THEN <<StatusAnswer(d)>> ELSE <<>>)
        \o (IF StillTask(d, m) THEN <<"ok">> ELSE <<>>)

\* The answer of a driver goes on its way, or nothing does.
Tell(d, m) == to_master' = [to_master EXCEPT ![d] = @ \o AnswersTo(d, m)]

\* The timer is refused: timerfd_settime() knows no negative time.
Refuse(d, m) ==
    /\ StillTask(d, m)
    /\ m.time < 0
    /\ tv_sec' = [tv_sec EXCEPT ![d] = m.time]
    /\ dead' = dead \cup {d}
    /\ UNCHANGED <<to_master, status, timer, silent>>

\* Nobody looks at what the write() of "ok" returns.
Accept(d, m) ==
    /\ StillTask(d, m)
    /\ m.time >= 0
    /\ status' = [status EXCEPT ![d] = BUSY]
    /\ tv_sec' = [tv_sec EXCEPT ![d] = m.time]
    /\ timer' = [timer EXCEPT ![d] = Settime(m.time)]
    /\ \/ Tell(d, m) /\ UNCHANGED silent
       \/ silent' = silent \cup {d} /\ UNCHANGED to_master
    /\ UNCHANGED dead

\* A status answer that cannot be written ends the driver.
Report(d, m) ==
    /\ ~StillTask(d, m)
    /\ \/ Tell(d, m) /\ UNCHANGED dead
       \/ dead' = dead \cup {d} /\ UNCHANGED to_master
    /\ UNCHANGED <<clock, silent>>

\* What the driver does with message m.
Respond(d, m) == Refuse(d, m) \/ Accept(d, m) \/ Report(d, m)

HandleMessage(d) ==
    /\ d \notin dead
    /\ "pipe" \in batch[d]
    /\ to_driver[d] # <<>>
    /\ Respond(d, Head(to_driver[d]))
    /\ to_driver' = [to_driver EXCEPT ![d] = Tail(@)]
    /\ batch' = [batch EXCEPT ![d] = @ \ {"pipe"}]
    /\ UNCHANGED <<mvars, edges>>

\* read() of the timerfd blocks unless it has expired.
HandleTimer(d) ==
    /\ d \notin dead
    /\ "timer" \in batch[d]
    /\ timer[d] = "expired"
    /\ timer' = [timer EXCEPT ![d] = "off"]
    /\ status' = [status EXCEPT ![d] = AVAILABLE]
    /\ batch' = [batch EXCEPT ![d] = @ \ {"timer"}]
    /\ UNCHANGED <<mvars, pipes, tv_sec, edges, deaths>>

DriverStep(d) == Wake(d) \/ HandleMessage(d) \/ HandleTimer(d)

Command ==
    \/ CreateDriver \/ Exit \/ Crash \/ GetDrivers
    \/ \E d \in Created : GetStatus(d) \/ (\E t \in Timers : SendTask(d, t))

Next ==
    \/ Command \/ Receive
    \/ \E d \in Created : DriverStep(d) \/ TimerExpires(d) \/ Fails(d)

Spec == Init /\ [][Next]_vars

\* The master reads an answer that is there, drivers and timers keep going; no
\* user has to give a command, and no call has to fail.
FairSpec ==
    /\ Spec
    /\ WF_vars(Receive)
    /\ \A d \in Drivers : WF_vars(DriverStep(d)) /\ WF_vars(TimerExpires(d))
-----------------------------------------------------------------------------
(* Properties. *)

TypeOK ==
    /\ master \in {"prompt", "await", "exited", "crashed"}
    /\ drivers_count \in 0..MAX_DRIVERS
    /\ asked \in 0..drivers_count /\ upto \in 0..drivers_count
    /\ to_driver \in [Drivers -> Seq(Messages)]
    /\ to_master \in [Drivers -> Seq(Answers)]
    /\ status \in [Drivers -> {AVAILABLE, BUSY}]
    /\ tv_sec \in [Drivers -> Timers \cup {0}]
    /\ timer \in [Drivers -> {"off", "armed", "expired"}]
    /\ edges \in [Drivers -> SUBSET {"pipe", "timer"}]
    /\ batch \in [Drivers -> SUBSET {"pipe", "timer"}]
    /\ dead \subseteq Drivers /\ silent \subseteq Drivers

(* The descriptors are blocking, so a driver must not read what is not there: a
   message or an expiry that epoll reported is still to be read when its turn
   in the batch comes, whatever the event handled before it did. *)
ReadsNeverBlock == \A d \in Created \ dead :
    /\ "pipe" \in batch[d] => to_driver[d] # <<>>
    /\ "timer" \in batch[d] => timer[d] = "expired"

(* Edge-triggered epoll reports a readiness once: no driver sleeps on a message or
   on an expired timer that it was already told of and did not read. *)
NoLostWakeup == \A d \in Created \ dead :
    /\ to_driver[d] # <<>> => "pipe" \in edges[d] \cup batch[d]
    /\ timer[d] = "expired" => "timer" \in edges[d] \cup batch[d]

(* Every event that epoll reports to a driver has its message or expiry, and every message or
   expiry its event (cross2/main.c:64-66, 72-126). *)
EpollIsExact == TypeOK /\ ReadsNeverBlock /\ NoLostWakeup

(* One question, one answer: back at the prompt the master has read everything
   that was written, so the next answer it reads is to its next question. *)
QuietAtPrompt == master = "prompt" => \A d \in Drivers :
    to_driver[d] = <<>> /\ to_master[d] = <<>>

(* A driver said to be available takes the next task, if it lives: its status cannot change
   between its answer and the end of the master's command. *)
AvailableStaysTrue == \A d \in Drivers :
    to_master[d] = <<"Available">> => (status[d] = AVAILABLE /\ timer[d] = "off")

(* Only a task of zero seconds can leave a driver BUSY with no timer to end it. *)
BusyHasTimer == \A d \in Drivers :
    status[d] = BUSY => (timer[d] # "off" \/ tv_sec[d] = 0)

(* A task that was accepted runs for its own time: nothing replaces or ends it
   before its timer has expired. *)
TaskRunsItsTime ==
    [][\A d \in Drivers : status[d] = BUSY =>
          /\ tv_sec'[d] = tv_sec[d]
          /\ status'[d] = AVAILABLE => timer[d] = "expired"]_vars

\* The driver that is asked has ended without writing its answer, or could not write it.
Unanswerable ==
    /\ master = "await"
    /\ to_master[asked] = <<>>
    /\ asked \in dead \cup silent

(* The master gets its answer, unless there will be none: then it waits for ever. *)
AnsweredUnlessDead == master = "await" ~> (master = "prompt" \/ Unanswerable)

(* A task of a positive time ends, unless its driver does. *)
TaskEnds == \A d \in Drivers :
    (status[d] = BUSY /\ tv_sec[d] > 0) ~> (status[d] = AVAILABLE \/ d \in dead)

(* Neither the master (cross2/main.c:197-206) nor a task (122-126) waits for ever, while the
   driver concerned lives and its answer could be written.  What ends a driver is a negative timer
   (113-116) or a failing epoll_wait() (74-79), read() (85-91) or write() (103-106). *)
NobodyHangs == AnsweredUnlessDead /\ TaskEnds
=============================================================================
