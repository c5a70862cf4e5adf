----------------------------- MODULE TaskProfile -----------------------------
(* task-profile (crates/hisi-rf-link/src/task_profile.rs): the tasks that a     *)
(* target reports on its UART, joined with the symbols of the linked ELF and    *)
(* the scheduling profile. The log is worked off line by line; a task may be    *)
(* deleted and its number used again, lines may be broken or missing.           *)
(*                                                                              *)
(* A line is [kind, id, entry, serial, task]; ABSENT is a field that is missing *)
(* or not a number, and serial tells lines apart, for the fields that are kept. *)
(* What the log does not say is the task that printed the line (task: a later   *)
(* one is greater), not even by its number if the record of the task was lost.  *)
EXTENDS Integers, Sequences, FiniteSets

CONSTANTS
  Inputs,       \* logs, ELF symbols, profiles and options
  IdLimit,      \* 2^32: task numbers are cut to u32
  ABSENT

VARIABLES
  input,
  pc,           \* "log", "report", "refused"
  line,         \* the next line of the log
  tasks,        \* the tasks seen so far, by number
  report        \* one row for each task and each --entry

vars == <<input, pc, line, tasks, report>>

WPA == {"wpa2-personal", "wpa3-personal"}
DEFAULT_ROLE == "unknown"

Init == /\ input \in Inputs
        /\ pc = "log" /\ line = 1
        /\ tasks = [id \in {} |-> {}]
        /\ report = {}

Line == input.log[line]
HasFields(l) == l.id # ABSENT /\ (l.kind = "TASK" => l.entry # ABSENT)

TaskId(id) == id % IdLimit

\* faulty variant: a task that is known keeps what was measured before.
NewTaskKept(id, l) ==
  [entry |-> l.entry,
   runtime |-> {l.serial} \cup IF id \in DOMAIN tasks THEN tasks[id].runtime
                                                      ELSE {}]

NewTask(id, l) == [entry |-> l.entry, runtime |-> {l.serial}]

\* RFDBG_TASK: a task, in place of one with its number.
TaskLine ==
  /\ pc = "log" /\ line <= Len(input.log)
  /\ Line.kind = "TASK" /\ HasFields(Line)
  /\ LET id == TaskId(Line.id)
     IN  tasks' = [i \in DOMAIN tasks \cup {id} |->
                     IF i = id THEN NewTask(id, Line) ELSE tasks[i]]
  /\ line' = line + 1
  /\ UNCHANGED <<input, pc, report>>

\* RFDBG_TASK_METRIC: more about a task that is known.
MetricLine ==
  /\ pc = "log" /\ line <= Len(input.log)
  /\ Line.kind = "METRIC" /\ HasFields(Line)
  /\ TaskId(Line.id) \in DOMAIN tasks
  /\ tasks' = [tasks EXCEPT ![TaskId(Line.id)].runtime = @ \cup {Line.serial}]
  /\ line' = line + 1
  /\ UNCHANGED <<input, pc, report>>

\* Any other line, one without its fields, a measurement of an unknown task.
SkipLine ==
  /\ pc = "log" /\ line <= Len(input.log)
  /\ Line.kind # "other" /\ HasFields(Line)
       => Line.kind = "METRIC" /\ TaskId(Line.id) \notin DOMAIN tasks
  /\ line' = line + 1
  /\ UNCHANGED <<input, pc, tasks, report>>

-----------------------------------------------------------------------------
\* elf_symbols: what is defined, at an address; the first of a name and the
\* first at an address count.
Usable(i) == input.symbols[i].defined /\ input.symbols[i].address # 0

First(places) == CHOOSE i \in places : \A j \in places : i <= j

AddressOf(name) ==
  LET named == {i \in DOMAIN input.symbols :
                  Usable(i) /\ input.symbols[i].name = name}
  IN  IF named # {} THEN input.symbols[First(named)].address ELSE ABSENT

SymbolAt(address) ==
  LET there == {i \in DOMAIN input.symbols :
                  Usable(i) /\ input.symbols[i].address = address}
  IN  IF there # {} THEN input.symbols[First(there)].name ELSE ABSENT

\* The rows of the profile for the chosen supplicant; wpa2-personal if none is.
SelectedWpa == IF input.wpa = ABSENT THEN "wpa2-personal" ELSE input.wpa

Applies(task) == task.wpa = ABSENT \/ task.wpa = SelectedWpa

Rows == {i \in DOMAIN input.profile : Applies(input.profile[i])}
Last(rows) == CHOOSE i \in rows : \A j \in rows : j <= i

\* Where a row's task begins: in the ELF, or else where the profile says.
Address(i) ==
  LET task == input.profile[i]
  IN  IF AddressOf(task.entry_symbol) # ABSENT
        THEN AddressOf(task.entry_symbol) ELSE task.entry_address

\* The name at an address: of the ELF, or else of a row that begins there.
NameAt(address) ==
  LET there == {i \in Rows : Address(i) = address}
  IN  IF SymbolAt(address) # ABSENT THEN SymbolAt(address)
      ELSE IF there # {} THEN input.profile[Last(there)].entry_symbol
      ELSE ABSENT

\* match_profile_task: the last row of that name, or the default role.
Role(address) ==
  LET rows == {i \in Rows : input.profile[i].entry_symbol = NameAt(address)}
  IN  IF rows = {} THEN DEFAULT_ROLE ELSE input.profile[Last(rows)].role

Row(id, entry, runtime) ==
  [id |-> id, entry |-> entry, symbol |-> NameAt(entry), role |-> Role(entry),
   runtime |-> runtime]

BuildReport ==
  /\ pc = "log" /\ line > Len(input.log)
  /\ input.wpa \in WPA \cup {ABSENT}
  /\ report' = {Row(id, tasks[id].entry, tasks[id].runtime) : id \in DOMAIN tasks}
                 \cup {Row(ABSENT, entry, {}) : entry \in input.entries}
  /\ pc' = "report"
  /\ UNCHANGED <<input, line, tasks>>

\* --wpa-profile names no profile; this is looked at before anything else.
Refuse ==
  /\ pc = "log" /\ line = 1 /\ input.wpa \notin WPA \cup {ABSENT}
  /\ pc' = "refused"
  /\ UNCHANGED <<input, line, tasks, report>>

Done == pc \in {"report", "refused"} /\ UNCHANGED vars

Accepted == input.wpa \in WPA \cup {ABSENT}

Next == \/ Accepted /\ (TaskLine \/ MetricLine \/ SkipLine \/ BuildReport)
        \/ Refuse \/ Done

Spec == Init /\ [][Next]_vars

-----------------------------------------------------------------------------
\* Types; task numbers fit.
TypeOK ==
  /\ pc \in {"log", "report", "refused"}
  /\ line \in 1 .. Len(input.log) + 1
  /\ DOMAIN tasks \subseteq 0 .. IdLimit - 1
  /\ \A row \in report : row.role # ABSENT

\* The complete records with a number, up to here, and the measurements after one.
Numbered(l, id) == l.id # ABSENT /\ l.id % IdLimit = id

Records(id) ==
  {i \in 1 .. line - 1 : /\ input.log[i].kind = "TASK"
                         /\ Numbered(input.log[i], id) /\ input.log[i].entry # ABSENT}

LastRecord(id) == CHOOSE i \in Records(id) : \A j \in Records(id) : j <= i

MeasuredAfter(record, id) ==
  {i \in 1 .. line - 1 : /\ i > record /\ input.log[i].kind = "METRIC"
                         /\ Numbered(input.log[i], id)}

\* A row is the last complete record with its number and the measurements after
\* that one, no earlier ones (task_profile.rs:148-176).
LatestTask ==
  \A id \in 0 .. IdLimit - 1 :
    LET last == LastRecord(id)
    IN  IF Records(id) = {} THEN id \notin DOMAIN tasks
        ELSE /\ id \in DOMAIN tasks
             /\ tasks[id].entry = input.log[last].entry
             /\ tasks[id].runtime =
                  {input.log[i].serial : i \in {last} \cup MeasuredAfter(last, id)}

\* So a row holds lines of the task that its record is about, never of one that had
\* the number before. Of a later one it holds measurements only if the record of
\* that one is missing: what remains of the log cannot tell them from those of the
\* row's task, and the command does not try (task_profile.rs:155-172).
OwnOrLost ==
  \A id \in DOMAIN tasks : \A i \in 1 .. line - 1 :
    input.log[i].serial \in tasks[id].runtime =>
      LET task == input.log[i].task
          own == input.log[LastRecord(id)].task
      IN  \/ task = own
          \/ task > own /\ \A k \in Records(id) : input.log[k].task # task

\* No task gets a role by guess: a role other than the default belongs to a row
\* of the chosen supplicant whose task begins exactly there, by a symbol of the
\* ELF or by the address in the profile (task_profile.rs:212-280).
NeverGuessed ==
  \A row \in report : row.role # DEFAULT_ROLE =>
    \E i \in DOMAIN input.profile :
      LET task == input.profile[i]
      IN  /\ task.role = row.role
          /\ task.wpa \in {ABSENT, SelectedWpa}
          /\ \/ task.entry_address = row.entry
             \/ \E k \in DOMAIN input.symbols :
                  /\ input.symbols[k].name = task.entry_symbol
                  /\ input.symbols[k].address = row.entry

\* Every row of the report is a record with the measurements after it, which are
\* those of one task unless the record of a later one is missing, and with a role
\* that the profile gives to the entry (task_profile.rs:148-280).
RowsRight == TypeOK /\ LatestTask /\ OwnOrLost /\ NeverGuessed
=============================================================================
