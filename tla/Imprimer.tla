---------------------------- MODULE Imprimer ----------------------------
(***************************************************************************)
(* The printer spooler of hw4/src/main.c.  One process reads commands,     *)
(* first from the file of option -i ("batch"), then from the terminal      *)
(* ("prompt"); after an interactive command it makes one pass over the job *)
(* table ("pass"), one step of the model per job.                          *)
(***************************************************************************)
EXTENDS Integers, Sequences, FiniteSets

CONSTANTS Types,        \* names of file types, declared or not
          Names,        \* printer names a command can mention
          Files,        \* files to print
          TypeOf,       \* the part of a file name after its last dot
          Conversions,  \* what a conversion command can declare: program, source, target
          MaxPrinters,  \* MAX_PRINTERS, also the bits of a PRINTER_SET
          MaxJobs,      \* MAX_JOBS
          MaxTypes,     \* length of types
          MaxConf,      \* length of conv_name, conv_src and conv_dest
          MaxArgs       \* bound: printers named by one print command

ASSUME ImprimerAssumption ==
  /\ TypeOf \in [Files -> Types]
  /\ MaxPrinters \in Nat \ {0}
  /\ MaxJobs \in Nat \ {0}
  /\ MaxTypes \in Nat
  /\ MaxConf \in Nat
  /\ MaxArgs \in Nat

VARIABLES types,     \* declared types
          convs,     \* declared conversions
          printers,  \* printers[i] has id i - 1
          jobs,      \* never shrinks
          mode,      \* where the program is
          cursor     \* next job of the scheduling pass

vars == <<types, convs, printers, jobs, mode, cursor>>

Status == {"QUEUED", "RUNNING", "ABORTED"}

Modes == {"batch", "prompt", "pass", "exited", "undefined"}

Printer == [name : Names, type : Types, enabled : BOOLEAN, busy : BOOLEAN]

Job == [file : Files, status : Status, eligible : 0..(2^MaxPrinters - 1),
        chosen : 0..MaxPrinters]   \* 0: none yet

ANY_PRINTER == 2^MaxPrinters - 1

\* The test  s & (0x1 << p->id)  of imprimer.h.
Member(s, i) == (s \div 2^(i - 1)) % 2 = 1

Init ==
  /\ types = {} /\ convs = {} /\ printers = <<>> /\ jobs = <<>>
  /\ mode \in {"batch", "prompt"}
  /\ cursor = 1

(***************************************************************************)
(* How a handler ends: "continue" goes back to reading, the end of the     *)
(* handler leads to the pass, which only the interactive loop has.         *)
(***************************************************************************)
Reading == mode \in {"batch", "prompt"}

Continue == UNCHANGED <<mode, cursor>>

\* Mutants: the pass starts before the table; the pass looks at the newest job only.
EndOfCommandZero == IF mode = "batch" THEN Continue ELSE mode' = "pass" /\ cursor' = 0
EndOfCommandNewest ==
  IF mode = "batch" THEN Continue
  ELSE mode' = "pass" /\ cursor' = IF jobs = <<>> THEN 1 ELSE Len(jobs)

EndOfCommand ==
  IF mode = "batch" THEN Continue ELSE mode' = "pass" /\ cursor' = 1

\* A store past the end of an array on the stack of main: nothing after it is modelled.
OutOfBounds == mode' = "undefined" /\ UNCHANGED <<types, convs, printers, jobs, cursor>>

\* break: leaves the while loop of the mode the program is in.
Break ==
  /\ mode' = IF mode = "batch" THEN "prompt" ELSE "exited"
  /\ UNCHANGED <<types, convs, printers, jobs, cursor>>

(***************************************************************************)
(* Configuration.                                                          *)
(***************************************************************************)
\* A type that is already declared is reported; nothing tests typecount.
DeclareType(t) ==
  /\ Reading
  /\ IF t \notin types /\ Cardinality(types) = MaxTypes THEN OutOfBounds
     ELSE types' = types \cup {t} /\ EndOfCommand /\ UNCHANGED <<convs, printers, jobs>>

NamedPrinter(n) == {i \in 1..Len(printers) : printers[i].name = n}

\* The message about MAX_PRINTERS does not end the command: printers[32] is written.
DeclarePrinter(n, t) ==
  /\ Reading
  /\ IF NamedPrinter(n) # {} \/ t \notin types
     THEN Continue /\ UNCHANGED <<types, convs, printers, jobs>>
     ELSE IF Len(printers) = MaxPrinters THEN OutOfBounds
     ELSE /\ printers' = Append(printers, [name |-> n, type |-> t, enabled |-> FALSE, busy |-> FALSE])
          /\ EndOfCommand
          /\ UNCHANGED <<types, convs, jobs>>

\* Unknown types are reported, and the conversion is entered all the same.
DeclareConversion(c) ==
  /\ Reading
  /\ IF \E d \in convs : d.name = c.name \/ (d.src = c.src /\ d.dest = c.dest)
     THEN Continue /\ UNCHANGED <<types, convs, printers, jobs>>
     ELSE IF Cardinality(convs) = MaxConf THEN OutOfBounds
     ELSE convs' = convs \cup {c} /\ EndOfCommand /\ UNCHANGED <<types, printers, jobs>>

(***************************************************************************)
(* Spooling.                                                               *)
(***************************************************************************)
\* A set built by adding 2^id for each name: a name given twice carries into the next bit.
SetOfNames[names \in Seq(Names)] ==
  IF names = <<>> THEN 0
  ELSE (SetOfNames[Tail(names)] + 2^((CHOOSE i \in NamedPrinter(Head(names)) : TRUE) - 1)) % 2^MaxPrinters
Eligible(names) == IF names = <<>> THEN ANY_PRINTER ELSE SetOfNames[names]

KnownNames(names) == \A k \in 1..Len(names) : NamedPrinter(names[k]) # {}

NewJob(f, names) ==
  [file |-> f, status |-> "QUEUED", eligible |-> Eligible(names), chosen |-> 0]

PrintJob(f, names) ==
  /\ Reading
  /\ IF ~ KnownNames(names) \/ TypeOf[f] \notin types
     THEN Continue /\ UNCHANGED <<types, convs, printers, jobs>>
     ELSE IF Len(jobs) = MaxJobs THEN OutOfBounds
     ELSE jobs' = Append(jobs, NewJob(f, names)) /\ EndOfCommand /\ UNCHANGED <<types, convs, printers>>

\* Mutant: cancels running jobs too.
CancelAny(f) ==
  /\ mode = "prompt"
  /\ jobs' = [i \in 1..Len(jobs) |->
                IF jobs[i].file = f THEN [jobs[i] EXCEPT !.status = "ABORTED"] ELSE jobs[i]]
  /\ EndOfCommand
  /\ UNCHANGED <<types, convs, printers>>

\* Cancels by file name, every queued job of that name; stamps jobs[jobcount].
Cancel(f) ==
  LET hit == {i \in 1..Len(jobs) : jobs[i].file = f /\ jobs[i].status = "QUEUED"} IN
  /\ mode = "prompt"
  /\ IF hit # {} /\ Len(jobs) = MaxJobs THEN OutOfBounds
     ELSE /\ jobs' = [i \in 1..Len(jobs) |->
                        IF i \in hit THEN [jobs[i] EXCEPT !.status = "ABORTED"] ELSE jobs[i]]
          /\ EndOfCommand
          /\ UNCHANGED <<types, convs, printers>>

\* Mutant: enable ends with continue, without a scheduling pass.
EnableQuietly(n) ==
  /\ mode = "prompt"
  /\ printers' = [i \in 1..Len(printers) |->
                    IF printers[i].name = n THEN [printers[i] EXCEPT !.enabled = TRUE] ELSE printers[i]]
  /\ Continue
  /\ UNCHANGED <<types, convs, jobs>>

Enable(n) ==
  /\ mode = "prompt"
  /\ printers' = [i \in 1..Len(printers) |->
                    IF printers[i].name = n THEN [printers[i] EXCEPT !.enabled = TRUE] ELSE printers[i]]
  /\ EndOfCommand
  /\ UNCHANGED <<types, convs, jobs>>

Disable(n) ==
  /\ mode = "prompt"
  /\ printers' = [i \in 1..Len(printers) |->
                    IF printers[i].name = n THEN [printers[i] EXCEPT !.enabled = FALSE] ELSE printers[i]]
  /\ EndOfCommand
  /\ UNCHANGED <<types, convs, jobs>>

\* help, printers, jobs and every line that is no command.
Report == Reading /\ EndOfCommand /\ UNCHANGED <<types, convs, printers, jobs>>

\* pause and resume end the loop; so do the five job and printer commands of a file, and its end.
PauseResume == Reading /\ Break

\* quit in a file ends the program, not the file.
Quit == Reading /\ mode' = "exited" /\ UNCHANGED <<types, convs, printers, jobs, cursor>>

(***************************************************************************)
(* The scheduling pass.                                                    *)
(***************************************************************************)
Free(i, p) ==
  /\ printers[p].type = TypeOf[jobs[i].file]
  /\ ~ printers[p].busy
  /\ printers[p].enabled
  /\ Member(jobs[i].eligible, p)

FreeFor(i) == {p \in 1..Len(printers) : Free(i, p)}

FirstOf(S) == CHOOSE p \in S : \A q \in S : p <= q

\* Mutant: the printer is not marked busy.
StartNotBusy(i, p) ==
  jobs' = [jobs EXCEPT ![i].status = "RUNNING", ![i].chosen = p] /\ UNCHANGED printers
Start(i, p) ==
  /\ jobs' = [jobs EXCEPT ![i].status = "RUNNING", ![i].chosen = p]
  /\ printers' = [printers EXCEPT ![p].busy = TRUE]

\* The status line of printers[i], i the index of the job, is printed: there may be no such printer.
Schedule ==
  /\ mode = "pass" /\ cursor <= Len(jobs)
  /\ IF jobs[cursor].status = "QUEUED" /\ FreeFor(cursor) # {}
     THEN /\ Start(cursor, FirstOf(FreeFor(cursor)))
          /\ mode' \in IF cursor <= Len(printers) THEN {"pass"} ELSE {"pass", "undefined"}
     ELSE UNCHANGED <<jobs, printers, mode>>
  /\ cursor' = cursor + 1
  /\ UNCHANGED <<types, convs>>

EndPass ==
  /\ mode = "pass" /\ cursor > Len(jobs)
  /\ mode' = "prompt"
  /\ UNCHANGED <<types, convs, printers, jobs, cursor>>

Next ==
  \/ \E t \in Types : DeclareType(t)
  \/ \E n \in Names, t \in Types : DeclarePrinter(n, t)
  \/ \E c \in Conversions : DeclareConversion(c)
  \/ \E f \in Files, k \in 0..MaxArgs : \E names \in [1..k -> Names] : PrintJob(f, names)
  \/ \E f \in Files : Cancel(f)
  \/ \E n \in Names : Enable(n) \/ Disable(n)
  \/ Report \/ PauseResume \/ Quit
  \/ Schedule \/ EndPass

Spec == Init /\ [][Next]_vars

(***************************************************************************)
(* Properties.                                                             *)
(***************************************************************************)
\* Every variable of main has its type, and the pass stays inside the job table.
ImprimerTypeOK ==
  /\ types \subseteq Types
  /\ convs \subseteq Conversions
  /\ printers \in Seq(Printer) /\ Len(printers) <= MaxPrinters
  /\ jobs \in Seq(Job) /\ Len(jobs) <= MaxJobs
  /\ mode \in Modes
  /\ cursor \in 1..(Len(jobs) + 1)

\* A printer is marked busy by exactly the one running job that chose it, and the
\* printer prints files of the type of the job: the two tables agree after any commands.
OneJobPerPrinter ==
  /\ \A p \in 1..Len(printers) : printers[p].busy <=>
        \E i \in 1..Len(jobs) : jobs[i].status = "RUNNING" /\ jobs[i].chosen = p
  /\ \A i, k \in 1..Len(jobs) :
        jobs[i].status = "RUNNING" /\ jobs[k].status = "RUNNING" /\ jobs[i].chosen = jobs[k].chosen => i = k
  /\ \A i \in 1..Len(jobs) : jobs[i].status = "RUNNING" =>
        /\ jobs[i].chosen \in 1..Len(printers)
        /\ printers[jobs[i].chosen].type = TypeOf[jobs[i].file]
        /\ Member(jobs[i].eligible, jobs[i].chosen)

\* When the prompt is shown no queued job has a free printer, although the commands
\* that fail, and all of the batch file, skip the scheduling pass.
NothingLeftWaiting ==
  mode = "prompt" => \A i \in 1..Len(jobs) : jobs[i].status = "QUEUED" => FreeFor(i) = {}

\* A job runs only if every older job of its type that could use the same printers
\* has left the queue: the pass over the table keeps the order of the print commands.
NoOvertaking ==
  \A i, k \in 1..Len(jobs) :
    (/\ i < k /\ TypeOf[jobs[i].file] = TypeOf[jobs[k].file]
     /\ \A p \in 1..MaxPrinters : Member(jobs[k].eligible, p) => Member(jobs[i].eligible, p)
     /\ jobs[k].status = "RUNNING") => jobs[i].status # "QUEUED"

\* Only a queued job changes status: cancel takes no job from a printer, a cancelled
\* job is never printed, and a running job keeps its printer.
OnlyQueuedJobsChange ==
  [][\A i \in 1..Len(jobs) : jobs[i].status # "QUEUED" => jobs'[i] = jobs[i]]_vars
=============================================================================
