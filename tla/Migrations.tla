----------------------------- MODULE Migrations -----------------------------
(* core::sql::migration_handler, which bootstrap::setup runs each time the  *)
(* daemon starts: every migration that is not in migration_record_tb is     *)
(* recorded, executed statement by statement, each in a transaction of its  *)
(* own, and its record is marked with how that ended.                       *)
(*                                                                          *)
(* A statement that fails has a positive code, which the handler takes for  *)
(* success, and a transaction that does not commit rolls back: a record or  *)
(* a mark may be lost without anybody knowing.  What execute() returns for  *)
(* a failed script is noticed.  The daemon may die between any two          *)
(* statements; what is committed stays.                                     *)
EXTENDS Naturals, Sequences

CONSTANTS
  Scripts,      \* the migrations, in the order of the resource directory
  Statements,   \* how many statements each has
  Repeatable,   \* the ones of "IF NOT EXISTS": their statements may run again
  Requires,     \* <<s, t>>: the statements of s need the first of t
  MaxCrashes    \* bound: times the daemon dies or is stopped

Names == {Scripts[i] : i \in DOMAIN Scripts}

ASSUME ScriptsAssumption ==
  /\ Scripts \in Seq(STRING) /\ Scripts # <<>>
  /\ \A i, j \in DOMAIN Scripts : Scripts[i] = Scripts[j] => i = j
  /\ Statements \in [Names -> Nat \ {0}]
  /\ Repeatable \subseteq Names /\ Requires \subseteq Names \X Names
ASSUME BoundAssumption == MaxCrashes \in Nat

VARIABLES
  stage,    \* "off", what migrate() does next, or "returned"
  index,    \* of the script it is at
  line,     \* of the statement execute() is at
  failed,   \* execute() returned -1
  records,  \* migration_record_tb: the dirty columns of each script's rows
  effects,  \* how many statements of each script have taken effect
  misread,  \* history: scripts whose lookup failed
  lost,     \* history: scripts with a record or a mark that was not written
  cut,      \* history: scripts the daemon died in, recorded and not marked
  crashes

position == <<stage, index, line, failed>>
history == <<misread, lost, cut, crashes>>
vars == <<position, records, effects, history>>

Init ==
  /\ stage = "off" /\ index = 1 /\ line = 1 /\ failed = FALSE
  /\ records = [s \in Names |-> <<>>]
  /\ effects = [s \in Names |-> 0]
  /\ misread = {} /\ lost = {} /\ cut = {}
  /\ crashes = 0

----------------------------------------------------------------------------
\* Faulty variant (mutation check): the directory is read backwards.
ScriptFromLast(i) == Scripts[Len(Scripts) + 1 - i]

ScriptAt(i) == Scripts[i]

Script == ScriptAt(index)

\* has_been_done
HasBeenDone(s) == records[s] # <<>>

GoTo(next) ==
  /\ line' = 1 /\ failed' = FALSE
  /\ IF index < Len(Scripts)
     THEN stage' = next /\ index' = index + 1
     ELSE stage' = "returned" /\ UNCHANGED index

Start ==
  /\ stage = "off"
  /\ stage' = "table"
  /\ UNCHANGED <<index, line, failed, records, effects, history>>

(* has_table binds its names as numbers and finds nothing, so the table is  *)
(* created, if it is not there, at every start.  A failure ends it all.     *)
CreateTable ==
  /\ stage = "table"
  /\ stage' \in {"lookup", "returned"}
  /\ UNCHANGED <<index, line, failed, records, effects, history>>

(* apply: a lookup that fails finds that it has not been done.  The pool    *)
(* has a connection for it: nobody else takes one while migrate() runs, and *)
(* it holds one at a time, so that the script is never passed over.         *)
Lookup ==
  /\ stage = "lookup"
  /\ \/ /\ HasBeenDone(Script)
        /\ GoTo("lookup")
        /\ UNCHANGED misread
     \/ /\ ~HasBeenDone(Script)
        /\ stage' = "register"
        /\ UNCHANGED <<index, line, failed, misread>>
     \/ /\ HasBeenDone(Script)
        /\ stage' = "register"
        /\ misread' = misread \cup {Script}
        /\ UNCHANGED <<index, line, failed>>
  /\ UNCHANGED <<records, effects, lost, cut, crashes>>

\* A transaction of one statement, committed; or rolled back, which nobody sees.
Stored(table) ==
  \/ records' = table /\ UNCHANGED lost
  \/ lost' = lost \cup {Script} /\ UNCHANGED records

\* register_migration
Register ==
  /\ stage = "register"
  /\ stage' = "execute"
  /\ Stored([records EXCEPT ![Script] = Append(@, FALSE)])
  /\ UNCHANGED <<index, line, failed, effects, misread, cut, crashes>>

IsLast(s, k) == k = Statements[s]

\* The statement can work: what it needs is there, and what it makes is not.
CanRun(s, k) ==
  /\ \A t \in Names : <<s, t>> \in Requires => effects[t] > 0
  /\ k > effects[s] \/ s \in Repeatable

\* proxy->execute(content), one statement of it.
Execute ==
  /\ stage = "execute"
  /\ \/ /\ CanRun(Script, line)
        /\ effects' = [effects EXCEPT ![Script] = IF @ < line THEN line ELSE @]
        /\ IF IsLast(Script, line)
           THEN stage' = "mark" /\ UNCHANGED <<line, failed>>
           ELSE line' = line + 1 /\ UNCHANGED <<stage, failed>>
     \/ /\ stage' = "mark" /\ failed' = TRUE
        /\ UNCHANGED <<line, effects>>
  /\ UNCHANGED <<index, records, history>>

\* Faulty variant (mutation check): the state handed to it is not used.
MarkedClean(s, state) ==
  [records EXCEPT ![s] = [i \in DOMAIN records[s] |-> FALSE]]

\* UPDATE migration_record_tb SET dirty = ? WHERE migration = ?
Marked(s, state) ==
  [records EXCEPT ![s] = [i \in DOMAIN records[s] |-> state]]

(* register_state, whose success is what apply() returns: the migration     *)
(* that has failed is an error to nobody, and the next one follows.         *)
Mark ==
  /\ stage = "mark"
  /\ GoTo("lookup")
  /\ Stored(Marked(Script, failed))
  /\ UNCHANGED <<effects, misread, cut, crashes>>

\* The daemon dies, or is stopped.
Crash ==
  /\ stage # "off"
  /\ crashes < MaxCrashes
  /\ crashes' = crashes + 1
  /\ cut' = IF stage \in {"execute", "mark"} THEN cut \cup {Script} ELSE cut
  /\ stage' = "off" /\ index' = 1 /\ line' = 1 /\ failed' = FALSE
  /\ UNCHANGED <<records, effects, misread, lost>>

Next == Start \/ CreateTable \/ Lookup \/ Register \/ Execute \/ Mark \/ Crash

Spec == Init /\ [][Next]_vars

----------------------------------------------------------------------------

(* Records are of known migrations, and no script has more effects than     *)
(* statements.                                                              *)
TypeOK ==
  /\ stage \in {"off", "table", "lookup", "register", "execute", "mark", "returned"}
  /\ index \in DOMAIN Scripts /\ line \in 1 .. Statements[Script] /\ failed \in BOOLEAN
  /\ records \in [Names -> Seq(BOOLEAN)]
  /\ \A s \in Names : effects[s] \in 0 .. Statements[s]
  /\ misread \cup lost \cup cut \subseteq Names
  /\ crashes \in 0 .. MaxCrashes

Complete(s) == effects[s] = Statements[s]
Underway(s) == stage \in {"execute", "mark"} /\ Script = s

(* A migration is recorded once, however often the daemon has been started  *)
(* since, unless its lookup failed; and the record tells how it ended: dirty*)
(* when a statement of it is missing, clean when all have taken effect -    *)
(* unless it was also cut by a crash, or a write of the record was lost.    *)
RecordTells ==
  /\ TypeOK
  /\ \A s \in Names \ misread : Len(records[s]) <= 1
  /\ \A s \in Names \ (misread \cup lost \cup cut) :
       ~Underway(s) =>
         \A i \in DOMAIN records[s] : records[s][i] <=> ~Complete(s)


(* No migration takes effect over an earlier one that is incomplete and     *)
(* looks complete, unless a crash cut the earlier one or a write about it   *)
(* was lost: what is built on is there, or known to be missing.             *)
LaterOverKnown ==
  \A i, j \in DOMAIN Scripts :
    i < j /\ effects[Scripts[j]] > 0 /\ Scripts[i] \notin lost \cup cut =>
      \/ Complete(Scripts[i])
      \/ \E r \in DOMAIN records[Scripts[i]] : records[Scripts[i]][r]
=============================================================================
