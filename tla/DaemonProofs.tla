---------------------------- MODULE DaemonProofs ----------------------------
(* What holds of the daemon from its start to its end.  First the           *)
(* migrations, which bootstrap::setup has done before anything else: for    *)
(* every directory of scripts, whatever they need of each other, and        *)
(* however often the daemon dies.  Then main's loop around the shells of    *)
(* its clients: for any clients and any number of sessions, and whatever    *)
(* calls fail or signals come between.                                      *)
EXTENDS Migrations, Daemon, FiniteSetTheorems, SequenceTheorems, TLAPS

----------------------------------------------------------------------------
(* The migrations                                                           *)

\* Nothing has gone wrong with it that RecordTells excepts.
Untroubled(s) == s \notin misread \cup lost \cup cut

\* It is there, or known not to be.
Known(s) == Complete(s) \/ \E r \in DOMAIN records[s] : records[s][r]

\* Where migrate() is fits what it has found and done.
StagesFit ==
  /\ effects \in [Names -> Nat]
  /\ stage \notin {"execute", "mark"} => line = 1
  /\ failed => stage = "mark"
  /\ stage = "register" => records[Script] = <<>> \/ Script \in misread
  /\ stage \in {"execute", "mark"} => records[Script] # <<>> \/ Script \in lost
  /\ stage = "mark" /\ ~failed => Complete(Script)

\* Without trouble, what has taken effect is what was executed.
EffectsFit ==
  \A s \in Names : Untroubled(s) =>
    /\ records[s] = <<>> => effects[s] = 0
    /\ stage = "execute" /\ Script = s => effects[s] = line - 1
    /\ stage = "mark" /\ Script = s /\ failed => effects[s] < Statements[s]

\* What is behind has been recorded.
BehindIsKnown ==
  /\ \A s \in Names \ (lost \cup cut) : records[s] # <<>> /\ ~Underway(s) => Known(s)
  /\ \A i \in DOMAIN Scripts : i < index => Scripts[i] \in lost \cup cut \/ Known(Scripts[i])

MigrationInv ==
  RecordTells /\ LaterOverKnown /\ StagesFit /\ EffectsFit /\ BehindIsKnown

Stages == {"off", "table", "lookup", "register", "execute", "mark", "returned"}

(* Every script has a name and at least one statement.                      *)
LEMMA ScriptsAreNames ==
  /\ DOMAIN Scripts = 1 .. Len(Scripts) /\ Len(Scripts) \in Nat \ {0}
  /\ \A i \in DOMAIN Scripts : Scripts[i] \in Names
  /\ \A s \in Names : Statements[s] \in Nat \ {0}
  BY ScriptsAssumption, LenProperties, EmptySeq DEF Names

(* Where migrate() is changes to a next script or to none (the loop of      *)
(* migrate).                                                                *)
LEMMA GoToNext ==
  ASSUME TypeOK, NEW next \in Stages, GoTo(next)
  PROVE  /\ stage' \in {next, "returned"} /\ line' = 1 /\ failed' = FALSE
         /\ index' \in DOMAIN Scripts /\ index' \in {index, index + 1}
         /\ line' \in 1 .. Statements[Script']
  <1>1. index \in 1 .. Len(Scripts) /\ index' \in DOMAIN Scripts /\ index' \in {index, index + 1}
    BY ScriptsAreNames DEF TypeOK, GoTo
  <1>2. Script' \in Names
    BY <1>1, ScriptsAreNames DEF Script, ScriptAt
  <1>3. QED
    BY <1>1, <1>2, ScriptsAreNames DEF GoTo

(* Only the position changes, and a script that was under way is cut: what  *)
(* the tables hold is as it was (apply that finds a record or none, and the *)
(* end of the daemon).                                                      *)
LEMMA MovingKeeps ==
  ASSUME MigrationInv, TypeOK',
         UNCHANGED <<records, effects, lost>>, misread \subseteq misread', cut \subseteq cut',
         stage \in {"execute", "mark"} => Script \in cut', stage' \notin {"execute", "mark"},
         line' = 1, failed' = FALSE,
         stage' = "register" => records[Script'] = <<>> \/ Script' \in misread',
         \A i \in DOMAIN Scripts :
           i < index' => Scripts[i] \in lost \cup cut' \/ Known(Scripts[i])
  PROVE  MigrationInv'
  <1>1. \A s : Untroubled(s)' => Untroubled(s)
    BY DEF Untroubled
  <1>2. \A s : Complete(s)' = Complete(s) /\ Known(s)' = Known(s)
    BY DEF Complete, Known
  <1>3. \A s : ~Underway(s)' /\ (Underway(s) => s \in cut')
    BY DEF Underway
  <1>4. RecordTells'
    BY <1>1, <1>2, <1>3 DEF MigrationInv, RecordTells, Untroubled
  <1>5. LaterOverKnown'
    BY DEF MigrationInv, LaterOverKnown, Complete
  <1>6. StagesFit'
    BY DEF MigrationInv, StagesFit
  <1>7. EffectsFit'
    BY <1>1 DEF MigrationInv, EffectsFit
  <1>8. BehindIsKnown'
    BY <1>2, <1>3 DEF MigrationInv, BehindIsKnown
  <1>9. QED
    BY <1>4, <1>5, <1>6, <1>7, <1>8 DEF MigrationInv

(* Whether a script is known is looked up, or cannot be (apply).            *)
LEMMA LookupKeeps ==
  ASSUME MigrationInv, Lookup
  PROVE  MigrationInv'
  <1>1. TypeOK /\ stage = "lookup" /\ UNCHANGED <<records, effects, lost, cut, crashes>>
    BY DEF MigrationInv, RecordTells, Lookup
  <1>2. CASE HasBeenDone(Script) /\ GoTo("lookup") /\ UNCHANGED misread
    <2>1. /\ stage' \in {"lookup", "returned"} /\ line' = 1 /\ failed' = FALSE
          /\ index' \in DOMAIN Scripts /\ index' \in {index, index + 1}
          /\ line' \in 1 .. Statements[Script']
      BY <1>1, <1>2, GoToNext DEF Stages
    <2>2. TypeOK'
      BY <1>1, <1>2, <2>1 DEF TypeOK
    <2>3. Script \in lost \cup cut \/ Known(Script)
      BY <1>1, <1>2, ScriptsAreNames
      DEF MigrationInv, BehindIsKnown, HasBeenDone, Underway, TypeOK, Script, ScriptAt
    <2>4. \A i \in DOMAIN Scripts : i < index' => Scripts[i] \in lost \cup cut \/ Known(Scripts[i])
      <3>1. \A i \in DOMAIN Scripts : i < index' => i < index \/ i = index
        BY <1>1, <2>1, ScriptsAreNames DEF TypeOK
      <3>2. QED
        BY <2>3, <3>1 DEF MigrationInv, BehindIsKnown, Script, ScriptAt
    <2>5. QED
      BY <1>1, <1>2, <2>1, <2>2, <2>4, MovingKeeps
  <1>3. CASE stage' = "register" /\ UNCHANGED <<index, line, failed>>
             /\ misread' = IF HasBeenDone(Script) THEN misread \cup {Script} ELSE misread
    <2>1. Script' = Script /\ Script \in Names
      BY <1>1, <1>3, ScriptsAreNames DEF Script, ScriptAt, TypeOK
    <2>2. TypeOK'
      BY <1>1, <1>3, <2>1 DEF TypeOK
    <2>3. line' = 1 /\ failed' = FALSE
      BY <1>1, <1>3 DEF MigrationInv, StagesFit, TypeOK
    <2>4. records[Script'] = <<>> \/ Script' \in misread'
      BY <1>3, <2>1 DEF HasBeenDone
    <2>5. \A i \in DOMAIN Scripts : i < index' => Scripts[i] \in lost \cup cut \/ Known(Scripts[i])
      BY <1>3 DEF MigrationInv, BehindIsKnown
    <2>6. QED
      BY <1>1, <1>3, <2>2, <2>3, <2>4, <2>5, MovingKeeps
  <1>4. QED
    BY <1>2, <1>3 DEF Lookup

(* A clean mark appended to the marks of a script: they stay as they were   *)
(* (register_migration).                                                    *)
LEMMA AppendKeeps ==
  ASSUME NEW States, NEW state \in States, NEW marks \in Seq(States)
  PROVE  LET more == Append(marks, state) IN
         /\ more \in Seq(States) /\ more # <<>>
         /\ \A r \in DOMAIN marks : r \in DOMAIN more /\ more[r] = marks[r]
  <1> DEFINE more == Append(marks, state)
  <1>1. /\ more \in Seq(States) /\ more # <<>> /\ Len(more) = Len(marks) + 1
        /\ \A i \in 1 .. Len(marks) : more[i] = marks[i]
    BY AppendProperties
  <1>2. DOMAIN marks = 1 .. Len(marks) /\ DOMAIN more = 1 .. Len(more) /\ Len(marks) \in Nat
    BY <1>1, LenProperties
  <1>3. \A r \in DOMAIN marks : r \in DOMAIN more
    BY <1>1, <1>2
  <1>4. QED
    BY <1>1, <1>2, <1>3

(* A record is appended, or lost; the script is under way.                  *)
LEMMA RegisterKeeps ==
  ASSUME MigrationInv, Register
  PROVE  MigrationInv'
  <1>1. TypeOK /\ Script' = Script /\ Script \in Names
    BY ScriptsAreNames DEF MigrationInv, RecordTells, Register, Script, ScriptAt, TypeOK
  <1>2. /\ stage = "register" /\ stage' = "execute" /\ line = 1 /\ failed = FALSE
        /\ UNCHANGED <<index, line, failed, effects, misread, cut, crashes>>
    BY <1>1 DEF Register, MigrationInv, StagesFit, TypeOK
  <1>3. records[Script] = <<>> \/ Script \in misread
    BY <1>2 DEF MigrationInv, StagesFit
  <1>4. /\ lost \subseteq lost' /\ lost' \subseteq Names
        /\ \/ records' = [records EXCEPT ![Script] = Append(@, FALSE)]
           \/ records' = records /\ Script \in lost'
    BY <1>1 DEF Register, Stored, TypeOK
  <1>5. \A s \in Names : s # Script => records'[s] = records[s]
    BY <1>1, <1>4 DEF TypeOK
  <1>6. /\ records' \in [Names -> Seq(BOOLEAN)]
        /\ Script \in lost' \/ records'[Script] = Append(records[Script], FALSE)
    <2>1. records[Script] \in Seq(BOOLEAN)
      BY <1>1 DEF TypeOK
    <2>2. Append(records[Script], FALSE) \in Seq(BOOLEAN)
      BY <2>1, AppendKeeps
    <2>3. QED
      BY <1>1, <1>4, <2>2 DEF TypeOK
  <1>7. \A s : Untroubled(s)' => Untroubled(s)
    BY <1>2, <1>4 DEF Untroubled
  <1>8. \A s : /\ Underway(s)' <=> s = Script
               /\ ~Underway(s)
    BY <1>1, <1>2 DEF Underway
  <1>9. \A s : Complete(s)' <=> Complete(s)
    BY <1>2 DEF Complete
  <1>10. \A s \in Names : s \notin lost' => (Known(s) => Known(s)')
    <2> SUFFICES ASSUME NEW s \in Names, s \notin lost', Known(s), s = Script
                 PROVE  Known(s)'
      BY <1>5, <1>9 DEF Known
    <2>1. records[s] \in Seq(BOOLEAN) /\ records'[s] = Append(records[s], FALSE)
      BY <1>1, <1>6 DEF TypeOK
    <2>2. \A r \in DOMAIN records[s] : r \in DOMAIN records'[s] /\ records'[s][r] = records[s][r]
      <3> HIDE DEF Known
      <3>1. FALSE \in BOOLEAN
        OBVIOUS
      <3>2. LET more == Append(records[s], FALSE) IN
            \A r \in DOMAIN records[s] : r \in DOMAIN more /\ more[r] = records[s][r]
        BY <2>1, <3>1, AppendKeeps
      <3>3. QED
        BY <2>1, <3>2
    <2>3. QED
      BY <1>9, <2>2 DEF Known
  <1>11. TypeOK'
    BY <1>1, <1>2, <1>4, <1>6 DEF TypeOK
  <1>12. RecordTells'
    <2>1. \A s \in Names \ misread' : Len(records'[s]) <= 1
      <3> SUFFICES ASSUME NEW s \in Names \ misread
                   PROVE  Len(records'[s]) <= 1
        BY <1>2
      <3>1. CASE records'[s] = records[s]
        BY <3>1 DEF MigrationInv, RecordTells
      <3>2. CASE records'[s] # records[s]
        <4>1. s = Script /\ records' = [records EXCEPT ![Script] = Append(@, FALSE)]
          BY <1>4, <1>5, <3>2
        <4>2. records[s] = <<>>
          BY <1>3, <4>1
        <4>3. records'[s] = Append(<<>>, FALSE)
          BY <1>1, <4>1, <4>2 DEF TypeOK
        <4>4. QED
          BY <4>3
      <3>3. QED
        BY <3>1, <3>2
    <2>2. \A s \in Names \ (misread' \cup lost' \cup cut') :
            ~Underway(s)' => \A i \in DOMAIN records'[s] : records'[s][i] <=> ~Complete(s)'
      BY <1>5, <1>7, <1>8, <1>9 DEF MigrationInv, RecordTells, Untroubled
    <2>3. QED
      BY <1>11, <2>1, <2>2 DEF RecordTells
  <1>13. LaterOverKnown'
    <2>1. \A i, j \in DOMAIN Scripts :
            i < j /\ effects[Scripts[j]] > 0 /\ Scripts[i] \notin lost' \cup cut =>
              Known(Scripts[i])'
      BY <1>4, <1>10, ScriptsAreNames DEF MigrationInv, LaterOverKnown, Known
    <2>2. QED
      BY <1>2, <2>1 DEF LaterOverKnown, Known
  <1>14. StagesFit'
    <2>1. records'[Script] # <<>> \/ Script \in lost'
      BY <1>1, <1>6, AppendKeeps DEF TypeOK
    <2>2. QED
      BY <1>1, <1>2, <2>1 DEF MigrationInv, StagesFit
  <1>15. EffectsFit'
    <2> SUFFICES ASSUME NEW s \in Names, Untroubled(s)'
                 PROVE  /\ records'[s] = <<>> => effects[s] = 0
                        /\ Script = s => effects[s] = line - 1
      BY <1>1, <1>2 DEF EffectsFit
    <2>1. CASE s # Script
      BY <1>5, <1>7, <2>1 DEF MigrationInv, EffectsFit
    <2>2. CASE s = Script
      <3>1. records[s] = <<>> /\ Untroubled(s)
        BY <1>2, <1>3, <1>7, <2>2 DEF Untroubled
      <3>2. effects[s] = 0
        BY <3>1 DEF MigrationInv, EffectsFit
      <3>3. QED
        BY <1>2, <3>2
    <2>3. QED
      BY <2>1, <2>2
  <1>16. BehindIsKnown'
    <2>1. \A s \in Names \ (lost' \cup cut') : records'[s] # <<>> /\ ~Underway(s)' => Known(s)'
      BY <1>2, <1>4, <1>5, <1>8, <1>10 DEF MigrationInv, BehindIsKnown
    <2>2. \A i \in DOMAIN Scripts : i < index' => Scripts[i] \in lost' \cup cut' \/ Known(Scripts[i])'
      BY <1>2, <1>4, <1>10, ScriptsAreNames DEF MigrationInv, BehindIsKnown
    <2>3. QED
      BY <2>1, <2>2 DEF BehindIsKnown
  <1>17. QED
    BY <1>12, <1>13, <1>14, <1>15, <1>16 DEF MigrationInv

(* A statement takes effect, or fails and ends the script.                  *)
LEMMA ExecuteKeeps ==
  ASSUME MigrationInv, Execute
  PROVE  MigrationInv'
  <1>1. TypeOK /\ Script' = Script /\ Script \in Names
    BY ScriptsAreNames DEF MigrationInv, RecordTells, Execute, Script, ScriptAt, TypeOK
  <1>2. /\ stage = "execute" /\ stage' \in {"execute", "mark"} /\ failed = FALSE
        /\ UNCHANGED <<index, records, misread, lost, cut, crashes>>
    BY <1>1 DEF Execute, MigrationInv, StagesFit, TypeOK, history
  <1>3. /\ line \in 1 .. Statements[Script] /\ Statements[Script] \in Nat \ {0}
        /\ effects[Script] \in 0 .. Statements[Script]
    BY <1>1, ScriptsAreNames DEF TypeOK
  <1>4. /\ \A s \in Names : s # Script => effects'[s] = effects[s]
        /\ effects' \in [Names -> Nat]
        /\ effects'[Script] \in 0 .. Statements[Script]
        /\ effects'[Script] >= effects[Script]
    BY <1>1, <1>3 DEF Execute, MigrationInv, StagesFit
  <1>5. \/ /\ line' = line + 1 /\ line' \in 1 .. Statements[Script]
           /\ stage' = "execute" /\ failed' = FALSE
           /\ effects'[Script] = IF effects[Script] < line THEN line ELSE effects[Script]
        \/ /\ line' = line /\ stage' = "mark" /\ failed' = FALSE
           /\ effects'[Script] = Statements[Script]
        \/ /\ line' = line /\ stage' = "mark" /\ failed' = TRUE
           /\ effects'[Script] = effects[Script]
    BY <1>1, <1>2, <1>3 DEF Execute, IsLast, MigrationInv, StagesFit
  <1>6. \A s : Untroubled(s)' <=> Untroubled(s)
    BY <1>2 DEF Untroubled
  <1>7. \A s : (Underway(s) <=> s = Script) /\ (Underway(s)' <=> s = Script)
    BY <1>1, <1>2 DEF Underway
  <1>8. \A s \in Names : Known(s) => Known(s)'
    BY <1>1, <1>2, <1>3, <1>4 DEF Known, Complete
  <1>9. TypeOK'
    <2>1. \A s \in Names : effects'[s] \in 0 .. Statements[s]
      BY <1>1, <1>4 DEF TypeOK
    <2>2. line' \in 1 .. Statements[Script] /\ failed' \in BOOLEAN
      BY <1>3, <1>5
    <2>3. QED
      BY <1>1, <1>2, <2>1, <2>2 DEF TypeOK
  <1>10. RecordTells'
    <2>1. \A s \in Names \ (misread \cup lost \cup cut) :
            ~Underway(s)' => \A i \in DOMAIN records[s] : records[s][i] <=> ~Complete(s)'
      BY <1>4, <1>7 DEF MigrationInv, RecordTells, Complete, Underway
    <2>2. QED
      BY <1>2, <1>9, <2>1 DEF MigrationInv, RecordTells
  <1>11. LaterOverKnown'
    <2> SUFFICES ASSUME NEW i \in DOMAIN Scripts, NEW j \in DOMAIN Scripts,
                        i < j, effects'[Scripts[j]] > 0, Scripts[i] \notin lost \cup cut
                 PROVE  Known(Scripts[i])'
      BY <1>2 DEF LaterOverKnown, Known
    <2>1. CASE effects[Scripts[j]] > 0
      BY <1>8, <2>1, ScriptsAreNames DEF MigrationInv, LaterOverKnown, Known
    <2>2. CASE Scripts[j] = Script
      <3>1. j = index
        BY <1>1, <2>2, ScriptsAssumption DEF Script, ScriptAt, TypeOK
      <3>2. QED
        BY <1>8, <3>1, ScriptsAreNames DEF MigrationInv, BehindIsKnown
    <2>3. QED
      BY <1>4, <2>1, <2>2, ScriptsAreNames
  <1>12. StagesFit'
    BY <1>1, <1>2, <1>4, <1>5 DEF MigrationInv, StagesFit, Complete
  <1>13. EffectsFit'
    <2> SUFFICES ASSUME NEW s \in Names, Untroubled(s)
                 PROVE  /\ records[s] = <<>> => effects'[s] = 0
                        /\ stage' = "execute" /\ Script = s => effects'[s] = line' - 1
                        /\ stage' = "mark" /\ Script = s /\ failed' =>
                             effects'[s] < Statements[s]
      BY <1>1, <1>2, <1>6 DEF EffectsFit
    <2>1. CASE s # Script
      BY <1>4, <2>1 DEF MigrationInv, EffectsFit
    <2>2. CASE s = Script
      <3>1. effects[s] = line - 1 /\ records[s] # <<>>
        BY <1>2, <2>2 DEF MigrationInv, EffectsFit, StagesFit, Untroubled
      <3>2. QED
        BY <1>3, <1>5, <2>2, <3>1
    <2>3. QED
      BY <2>1, <2>2
  <1>14. BehindIsKnown'
    <2>1. \A s \in Names \ (lost \cup cut) : records[s] # <<>> /\ ~Underway(s)' => Known(s)'
      BY <1>7, <1>8 DEF MigrationInv, BehindIsKnown
    <2>2. \A i \in DOMAIN Scripts : i < index => Scripts[i] \in lost \cup cut \/ Known(Scripts[i])'
      BY <1>8, ScriptsAreNames DEF MigrationInv, BehindIsKnown
    <2>3. QED
      BY <1>2, <2>1, <2>2 DEF BehindIsKnown
  <1>15. QED
    BY <1>10, <1>11, <1>12, <1>13, <1>14 DEF MigrationInv

(* The marks of a script are all made what they say: none is added.         *)
LEMMA MarksReplaced ==
  ASSUME NEW States, NEW state \in States, NEW marks \in Seq(States)
  PROVE  LET made == [i \in DOMAIN marks |-> state] IN
         /\ made \in Seq(States) /\ Len(made) = Len(marks)
         /\ DOMAIN made = DOMAIN marks /\ \A r \in DOMAIN made : made[r] = state
         /\ made = <<>> <=> marks = <<>>
  <1> DEFINE made == [i \in DOMAIN marks |-> state]
  <1>1. Len(marks) \in Nat /\ DOMAIN marks = 1 .. Len(marks)
    BY LenProperties
  <1>2. made \in [1 .. Len(marks) -> States]
    BY <1>1
  <1>3. made \in Seq(States)
    BY <1>1, <1>2
  <1>4. Len(made) = Len(marks)
    BY <1>1, <1>2, <1>3, LenProperties
  <1>5. made = <<>> <=> marks = <<>>
    BY <1>3, <1>4, EmptySeq
  <1>6. QED
    BY <1>3, <1>4, <1>5

(* The record is marked, or the mark is lost; the next script follows.      *)
LEMMA MarkKeeps ==
  ASSUME MigrationInv, Mark
  PROVE  MigrationInv'
  <1>1. TypeOK /\ Script \in Names
    BY ScriptsAreNames DEF MigrationInv, RecordTells, Script, ScriptAt, TypeOK
  <1>2. /\ stage = "mark" /\ GoTo("lookup")
        /\ UNCHANGED <<effects, misread, cut, crashes>>
    BY DEF Mark
  <1>3. /\ stage' \in {"lookup", "returned"} /\ line' = 1 /\ failed' = FALSE
        /\ index' \in DOMAIN Scripts /\ index' \in {index, index + 1}
        /\ line' \in 1 .. Statements[Script']
    BY <1>1, <1>2, GoToNext DEF Stages
  <1> DEFINE made == [i \in DOMAIN records[Script] |-> failed]
  <1>4. /\ lost \subseteq lost' /\ lost' \subseteq Names
        /\ \/ records' = [records EXCEPT ![Script] = made]
           \/ records' = records /\ Script \in lost'
    BY <1>1 DEF Mark, Stored, Marked, TypeOK
  <1>5. /\ made \in Seq(BOOLEAN) /\ Len(made) = Len(records[Script])
        /\ DOMAIN made = DOMAIN records[Script] /\ \A r \in DOMAIN made : made[r] = failed
        /\ made = <<>> <=> records[Script] = <<>>
    <2>1. failed \in BOOLEAN /\ records[Script] \in Seq(BOOLEAN)
      BY <1>1 DEF TypeOK
    <2>2. QED
      BY <2>1, MarksReplaced
  <1> HIDE DEF made
  <1>6. /\ records' \in [Names -> Seq(BOOLEAN)]
        /\ \A s \in Names : s # Script => records'[s] = records[s]
        /\ Script \in lost' \/ records'[Script] = made
        /\ Len(records'[Script]) = Len(records[Script])
        /\ records'[Script] = <<>> <=> records[Script] = <<>>
    BY <1>1, <1>4, <1>5 DEF TypeOK
  <1>7. \A s : Untroubled(s)' => Untroubled(s)
    BY <1>2, <1>4 DEF Untroubled
  <1>8. \A s : (Underway(s) <=> s = Script) /\ ~Underway(s)'
    BY <1>2, <1>3 DEF Underway
  <1>9. \A s : Complete(s)' <=> Complete(s)
    BY <1>2 DEF Complete
  <1> PICK m \in Names : m = Script
    BY <1>1
  <1>10. m \in lost' \/ Known(m)'
    <2> SUFFICES ASSUME m \notin lost'
                 PROVE  Known(m)'
      OBVIOUS
    <2>1. Known(m)' <=> Complete(m) \/ \E r \in DOMAIN made : made[r]
      BY <1>6, <1>9 DEF Known
    <2>2. CASE failed
      <3>1. records[Script] # <<>>
        BY <1>2, <1>4 DEF MigrationInv, StagesFit
      <3>2. 1 \in DOMAIN made
        BY <1>1, <1>5, <3>1, EmptySeq, LenProperties DEF TypeOK
      <3>3. QED
        BY <1>5, <2>1, <2>2, <3>2
    <2>3. CASE ~failed
      BY <1>2, <2>1, <2>3 DEF MigrationInv, StagesFit
    <2>4. QED
      BY <2>2, <2>3
  <1>11. \A s \in Names : s \notin lost' => (Known(s) => Known(s)')
    <2>1. \A s \in Names : s # Script => (Known(s) => Known(s)')
      BY <1>6, <1>9 DEF Known
    <2>2. QED
      BY <1>10, <2>1
  <1>12. TypeOK'
    BY <1>1, <1>2, <1>3, <1>4, <1>6 DEF TypeOK
  <1>13. RecordTells'
    <2>1. \A s \in Names \ misread' : Len(records'[s]) <= 1
      BY <1>2, <1>6 DEF MigrationInv, RecordTells
    <2>2. ASSUME NEW s \in Names \ (misread' \cup lost' \cup cut')
          PROVE  \A i \in DOMAIN records'[s] : records'[s][i] <=> ~Complete(s)'
      <3>1. CASE s # Script
        BY <1>6, <1>7, <1>8, <1>9, <3>1 DEF MigrationInv, RecordTells, Untroubled
      <3>2. CASE s = Script
        <4>1. Untroubled(s) /\ records'[s] = made
          BY <1>6, <1>7, <3>2 DEF Untroubled
        <4>2. failed <=> ~Complete(s)
          BY <1>1, <1>2, <3>2, <4>1, ScriptsAreNames
          DEF MigrationInv, EffectsFit, StagesFit, Complete, TypeOK
        <4>3. QED
          BY <1>5, <1>9, <4>1, <4>2
      <3>3. QED
        BY <3>1, <3>2
    <2>3. QED
      BY <1>12, <2>1, <2>2 DEF RecordTells
  <1>14. LaterOverKnown'
    <2>1. \A i, j \in DOMAIN Scripts :
            i < j /\ effects[Scripts[j]] > 0 /\ Scripts[i] \notin lost' \cup cut =>
              Known(Scripts[i])'
      BY <1>4, <1>11, ScriptsAreNames DEF MigrationInv, LaterOverKnown, Known
    <2>2. QED
      BY <1>2, <2>1 DEF LaterOverKnown, Known
  <1>15. StagesFit'
    BY <1>2, <1>3 DEF MigrationInv, StagesFit
  <1>16. EffectsFit'
    BY <1>2, <1>3, <1>6, <1>7 DEF MigrationInv, EffectsFit
  <1>17. BehindIsKnown'
    <2>1. \A s \in Names \ (lost' \cup cut') : records'[s] # <<>> => Known(s)'
      BY <1>2, <1>4, <1>6, <1>8, <1>10, <1>11 DEF MigrationInv, BehindIsKnown
    <2>2. ASSUME NEW i \in DOMAIN Scripts, i < index'
          PROVE  Scripts[i] \in lost' \cup cut' \/ Known(Scripts[i])'
      <3>1. i < index \/ i = index
        BY <1>1, <1>3, <2>2, ScriptsAreNames DEF TypeOK
      <3>2. CASE i < index
        BY <1>2, <1>4, <1>11, <3>2, ScriptsAreNames DEF MigrationInv, BehindIsKnown
      <3>3. CASE i = index
        BY <1>10, <3>3 DEF Script, ScriptAt
      <3>4. QED
        BY <3>1, <3>2, <3>3
    <2>3. QED
      BY <2>1, <2>2 DEF BehindIsKnown
  <1>18. QED
    BY <1>13, <1>14, <1>15, <1>16, <1>17 DEF MigrationInv

(* What the strengthened invariant says holds of every migration run: the   *)
(* two properties below are parts of it.                                    *)
THEOREM MigrationsCorrect == Spec => []MigrationInv
  <1>1. Init => MigrationInv
    <2> SUFFICES ASSUME Init
                 PROVE  MigrationInv
      OBVIOUS
    <2>1. records \in [Names -> Seq(BOOLEAN)] /\ \A s \in Names : records[s] = <<>>
      BY DEF Init
    <2>2. TypeOK
      <3>1. Script \in Names /\ index \in DOMAIN Scripts
        BY ScriptsAreNames DEF Init, Script, ScriptAt
      <3>2. line \in 1 .. Statements[Script] /\ \A s \in Names : effects[s] \in 0 .. Statements[s]
        BY <3>1, ScriptsAreNames DEF Init
      <3>3. failed \in BOOLEAN
        BY DEF Init
      <3>4. stage = "off" /\ crashes \in 0 .. MaxCrashes
            /\ misread \cup lost \cup cut \subseteq Names
        BY BoundAssumption DEF Init
      <3>5. QED
        BY <2>1, <3>1, <3>2, <3>3, <3>4 DEF TypeOK
    <2>3. RecordTells
      BY <2>1, <2>2 DEF RecordTells
    <2>4. LaterOverKnown
      BY ScriptsAreNames DEF Init, LaterOverKnown
    <2>5. StagesFit /\ EffectsFit
      BY DEF Init, StagesFit, EffectsFit
    <2>6. BehindIsKnown
      BY <2>1, ScriptsAreNames DEF Init, BehindIsKnown
    <2>7. QED
      BY <2>3, <2>4, <2>5, <2>6 DEF MigrationInv
  <1>2. MigrationInv /\ [Next]_vars => MigrationInv'
    <2> SUFFICES ASSUME MigrationInv, [Next]_vars
                 PROVE  MigrationInv'
      OBVIOUS
    <2>1. CASE Start
      <3>1. TypeOK'
        BY <2>1 DEF Start, history, MigrationInv, RecordTells, TypeOK, Script, ScriptAt
      <3>2. QED
        BY <2>1, <3>1, MovingKeeps
        DEF Start, history, MigrationInv, StagesFit, BehindIsKnown, RecordTells, TypeOK
    <2>2. CASE CreateTable
      <3>1. TypeOK'
        BY <2>2 DEF CreateTable, history, MigrationInv, RecordTells, TypeOK, Script, ScriptAt
      <3>2. QED
        BY <2>2, <3>1, MovingKeeps
        DEF CreateTable, history, MigrationInv, StagesFit, BehindIsKnown, RecordTells, TypeOK
    <2>3. CASE Crash
      <3>1. TypeOK /\ stage' = "off" /\ index' = 1 /\ line' = 1 /\ failed' = FALSE
            /\ UNCHANGED <<records, effects, misread, lost>>
        BY <2>3 DEF Crash, MigrationInv, RecordTells
      <3>2. /\ cut \subseteq cut' /\ cut' \subseteq Names
            /\ stage \in {"execute", "mark"} => Script \in cut'
        BY <2>3, <3>1, ScriptsAreNames DEF Crash, TypeOK, Script, ScriptAt
      <3>3. crashes' \in 0 .. MaxCrashes
        BY <2>3, <3>1, BoundAssumption DEF Crash, TypeOK
      <3>4. TypeOK'
        <4>1. 1 \in DOMAIN Scripts /\ line' \in 1 .. Statements[Script']
          BY <3>1, ScriptsAreNames DEF Script, ScriptAt
        <4>2. QED
          BY <3>1, <3>2, <3>3, <4>1 DEF TypeOK
      <3>5. \A i \in DOMAIN Scripts : ~(i < index')
        BY <3>1, ScriptsAreNames
      <3>6. QED
        BY <3>1, <3>2, <3>4, <3>5, MovingKeeps
    <2>4. CASE UNCHANGED vars
      BY <2>4
      DEF vars, position, history, MigrationInv, RecordTells, LaterOverKnown, StagesFit,
          EffectsFit, BehindIsKnown, TypeOK, Complete, Underway, Known, Untroubled,
          Script, ScriptAt
    <2>5. QED
      BY <2>1, <2>2, <2>3, <2>4, LookupKeeps, RegisterKeeps, ExecuteKeeps, MarkKeeps DEF Next
  <1>3. QED
    BY <1>1, <1>2, PTL DEF Spec

(* A migration is recorded once unless its lookup failed, and the record    *)
(* tells whether all its statements have taken effect, for every directory  *)
(* of scripts (apply, register_migration, register_state).                  *)
THEOREM RecordsTell == Spec => []RecordTells
  BY MigrationsCorrect, PTL DEF MigrationInv

(* No migration takes effect over an earlier one that is incomplete and not *)
(* known to be, unless a crash or a lost write concerns the earlier one     *)
(* (the loop of migrate, which goes on after a failure).                    *)
THEOREM NoneOverUnknown == Spec => []LaterOverKnown
  BY MigrationsCorrect, PTL DEF MigrationInv

----------------------------------------------------------------------------
(* The loop                                                                 *)

\* The client has a terminal.
Live(c) == terminal[c] # NoTerminal

\* A session that is counted, and has not begun.
Pending == IF blocked.next = "start" THEN 1 ELSE 0

Forked == {p \in Processes : process[p] # "none"}
Unreaped == {p \in Processes : process[p] \in {"runs", "ended"}}

\* The processes somebody will wait for.
Owned == {terminal[c].pid : c \in {d \in Clients : Live(d)}} \cup {blocked.waits}

ProcessType == process \in [Processes -> {"none", "runs", "ended", "reaped"}]
TerminalType == terminal \in [Clients -> Terminal \cup {NoTerminal}]
BlockedType ==
  blocked \in [waits : 0 .. 2 * MaxSessions, terminal : Terminal \cup {NoTerminal},
               client : Clients \cup {NoTerminal},
               next : {"none", "start", "fail", "leave", "other"}]
ToldType == told \in [Clients -> SUBSET {"success", "ended"}]
OthersTyped ==
  /\ status \in {"up", "dead", "ended"} /\ late \subseteq Clients
  /\ connected \subseteq Clients
  /\ sessions \in 0 .. MaxSessions /\ spoiled \in BOOLEAN
  /\ sent \subseteq Signals /\ heard \in sent \cup {Nothing}

DaemonTyped == ProcessType /\ TerminalType /\ BlockedType /\ ToldType /\ OthersTyped

\* What the io thread is in the middle of: a client's terminal has gone by then.
HandlerFits ==
  /\ blocked.next # "none" => blocked.client \in Clients
  /\ blocked.next \in {"start", "leave", "other"} => terminal[blocked.client] = NoTerminal
  /\ blocked.next = "start" => told[blocked.client] = {}

\* The processes that were forked are the first ones, two a session at most, and
\* the descriptor of the one that is waited for is closed.
ProcessesFit ==
  /\ \E n \in 0 .. 2 * (sessions - Pending) : Forked = 1 .. n
  /\ masters \subseteq Forked
  /\ \A c \in Clients : Live(c) => terminal[c].pid \in Forked \cup {0}
  /\ blocked.waits \in (Forked \ masters) \cup {0}

\* What OneLeftPerSession counts; a session that has not begun has left nothing.
LeftFit ==
  /\ Cardinality(Unreaped \ Owned) <= sessions - Pending + Cardinality(sent)
  /\ Cardinality(masters \ Owned) <= sessions - Pending

\* Nobody remembers the second descriptor of some of those that were not set up.
StraysFit == strays \in Nat /\ refused \in Nat /\ strays <= refused

\* The terminal of a client that waits to be told: it has one process, that is not
\* waited for yet, and nothing is in progress over it once its end was told.
PoliteClient(c) ==
  /\ Live(c) =>
       /\ terminal[c].pid = terminal[c].stream /\ terminal[c].pid # 0
       /\ process[terminal[c].pid] \in {"runs", "ended"}
       /\ "ended" \in told[c] =>
            /\ terminal[c].reading = "none" /\ ~terminal[c].writing
            /\ process[terminal[c].pid] = "ended"
  /\ "success" \in told[c] =>
       Live(c) \/ (blocked.next \in {"leave", "other"} /\ blocked.client = c)

\* The process that is waited for has ended, and is no client's any more.
WaitIsShort ==
  blocked.waits # 0 =>
    /\ process[blocked.waits] = "ended"
    /\ \A c \in Clients : Live(c) => terminal[c].pid # blocked.waits

NoneShared ==
  \A c, d \in Clients : Live(c) /\ Live(d) /\ c # d => terminal[c].pid # terminal[d].pid

NothingAborted == late = {} /\ (blocked.terminal # NoTerminal => ~InProgress(blocked.terminal))

\* What is so while every client waits to be told, and no call fails.
PoliteFits ==
  ~spoiled =>
    /\ status # "dead"
    /\ \A c \in Clients : PoliteClient(c)
    /\ NoneShared /\ WaitIsShort /\ NothingAborted

DaemonInv ==
  DaemonTyped /\ HandlerFits /\ ProcessesFit /\ LeftFit /\ StraysFit /\ PoliteFits

(* The next process is the one after the last that was forked, and there is *)
(* room for both of a session that has not begun.                           *)
LEMMA NextIsFresh ==
  ASSUME DaemonTyped, ProcessesFit
  PROVE  /\ NextProcess \in Nat \ {0} /\ Forked = 1 .. NextProcess - 1
         /\ NextProcess - 1 <= 2 * (sessions - Pending)
         /\ blocked.next = "start" =>
              {NextProcess, NextProcess + 1} \subseteq Processes
<1>1. PICK n \in 0 .. 2 * (sessions - Pending) : Forked = 1 .. n
  BY DEF ProcessesFit
<1>2. n \in Nat /\ sessions \in 0 .. MaxSessions /\ MaxSessions \in Nat /\ Pending \in {0, 1}
  BY MaxSessionsAssumption DEF DaemonTyped, OthersTyped, Pending
<1>3. Cardinality(1 .. n) = n
  BY <1>2, FS_Interval
<1>4. NextProcess = n + 1
  BY <1>1, <1>3 DEF NextProcess, Forked
<1>5. blocked.next = "start" => Pending = 1
  BY DEF Pending
<1>6. QED
  BY <1>1, <1>2, <1>4, <1>5 DEF Processes

(* What the operators of ShellSession are of.                               *)
LEMMA TerminalsTyped ==
  /\ Blank \in Terminal
  /\ \A p \in Processes : Made(p) \in Terminal
  /\ \A t \in Terminal : t.pid \in 0 .. 2 * MaxSessions
  /\ Free \in [waits : 0 .. 2 * MaxSessions, terminal : Terminal \cup {NoTerminal},
                 client : Clients \cup {NoTerminal},
                 next : {"none", "start", "fail", "leave", "other"}]
<1>. FALSE \in BOOLEAN
  OBVIOUS
<1>. QED
  BY MaxSessionsAssumption DEF Blank, Made, Free, Terminal, Processes

(* The io thread is in its loop: it waits for nothing and has nothing to    *)
(* come back to (blocked = Free).                                           *)
LEMMA IdleIsFree ==
  ASSUME Idle
  PROVE  /\ status = "up" /\ Pending = 0
         /\ blocked.waits = 0 /\ blocked.terminal = NoTerminal
         /\ blocked.client = NoTerminal /\ blocked.next = "none"
BY DEF Idle, Free, Pending

(* A terminal's end leaves the types (~freebsd_terminal).                   *)
LEMMA DestroyTyped ==
  ASSUME DaemonTyped, NEW c \in Clients, Live(c),
         NEW next \in {"none", "start", "fail", "leave", "other"}, Destroy(c, next)
  PROVE  /\ TerminalType' /\ BlockedType'
         /\ blocked'.waits = terminal[c].pid /\ blocked'.terminal = terminal[c]
         /\ blocked'.client = c /\ blocked'.next = next
         /\ terminal' = [terminal EXCEPT ![c] = NoTerminal]
<1>1. terminal[c] \in Terminal
  BY DEF DaemonTyped, TerminalType, Live
<1>2. QED
  BY <1>1, TerminalsTyped DEF Destroy, DaemonTyped, TerminalType, BlockedType

(* The beginning of a session that goes on leaves the types (start_session).*)
LEMMA StartTyped ==
  ASSUME DaemonTyped, HandlerFits, ProcessesFit, StartForks
  PROVE  ProcessType' /\ TerminalType' /\ BlockedType' /\ ToldType' /\ OthersTyped'
<1>. DEFINE c == blocked.client  p == NextProcess
<1>1. c \in Clients /\ blocked.next = "start"
  BY DEF StartForks, StartGoesOn, Continues, HandlerFits
<1>2. p \in Processes /\ p + 1 \in Processes
  BY <1>1, NextIsFresh
<1>3. Made(p) \in Terminal /\ Made(p + 1) \in Terminal /\ Blank \in Terminal
      /\ Made(p + 1) = [pid |-> p + 1, stream |-> p + 1, reading |-> "none", writing |-> FALSE]
  BY <1>2, TerminalsTyped DEF Made
<1>4. [Made(p + 1) EXCEPT !.reading = "posted"] \in Terminal
  BY <1>3 DEF Terminal
<1>5. SetUp(c, p) \/ SetUpFails(c, p)
  BY DEF StartForks, StartGoesOn, Begin
<1>6. UNCHANGED <<status, connected, sessions, sent, heard>> /\ StreamsClose
  BY DEF StartForks, StartGoesOn
<1>7. late' \subseteq Clients
  BY <1>1, <1>6 DEF StreamsClose, DaemonTyped, OthersTyped
<1>8. CASE SetUp(c, p)
  <2>1. ProcessType'
    BY <1>2, <1>8 DEF SetUp, DaemonTyped, ProcessType
  <2>2. TerminalType'
    BY <1>1, <1>4, <1>8 DEF SetUp, DaemonTyped, TerminalType
  <2>3. BlockedType'
    BY <1>8, TerminalsTyped DEF SetUp, BlockedType
  <2>4. ToldType'
    BY <1>1, <1>8 DEF SetUp, Tell, DaemonTyped, ToldType
  <2>5. OthersTyped'
    BY <1>6, <1>7, <1>8 DEF SetUp, DaemonTyped, OthersTyped
  <2>6. QED
    BY <2>1, <2>2, <2>3, <2>4, <2>5
<1>9. CASE SetUpFails(c, p)
  <2>1. PICK failure \in Failures(p) : SetUpFails(c, p)!(failure)
    BY <1>9 DEF SetUpFails
  <2>2. failure.leaves \in Terminal /\ failure.waits \in {0, p}
    BY <1>3 DEF Failures
  <2>3. ProcessType'
    BY <2>1, <2>2 DEF DaemonTyped, ProcessType
  <2>4. TerminalType'
    BY <1>1, <2>1, <2>2 DEF DaemonTyped, TerminalType
  <2>5. BlockedType'
    BY <1>1, <1>2, <2>1, <2>2, TerminalsTyped DEF BlockedType, Processes
  <2>6. QED
    BY <1>6, <1>7, <2>1, <2>3, <2>4, <2>5 DEF DaemonTyped, ToldType, OthersTyped
<1>. QED
  BY <1>5, <1>8, <1>9

(* Every step leaves the types.                                             *)
LEMMA StepsTyped ==
  ASSUME DaemonTyped, HandlerFits, ProcessesFit, DaemonNext
  PROVE  DaemonTyped'
<1>. USE DEF host, daemon, client, sessionHistory, mainvars
<1>. ProcessType /\ TerminalType /\ BlockedType /\ ToldType /\ OthersTyped
  BY DEF DaemonTyped
<1>1. ASSUME NEW p \in Processes, ProcessEnds(p), UNCHANGED mainvars
      PROVE  DaemonTyped'
  <2>1. ProcessType'
    BY <1>1 DEF ProcessEnds, ProcessType
  <2>2. QED
    BY <1>1, <2>1 DEF ProcessEnds, DaemonTyped, TerminalType, BlockedType, ToldType,
       OthersTyped
<1>2. ASSUME Reap, UNCHANGED mainvars PROVE DaemonTyped'
  <2>1. ProcessType'
    BY <1>2 DEF Reap, ProcessType
  <2>2. BlockedType'
    BY <1>2, MaxSessionsAssumption DEF Reap, BlockedType
  <2>3. QED
    BY <1>2, <2>1, <2>2 DEF Reap, DaemonTyped, TerminalType, ToldType, OthersTyped
<1>3. ASSUME FailureGoesOn, UNCHANGED mainvars PROVE DaemonTyped'
  BY <1>3, TerminalsTyped
  DEF FailureGoesOn, DaemonTyped, ProcessType, TerminalType, BlockedType, ToldType, OthersTyped
<1>4. ASSUME DropGoesOn, UNCHANGED mainvars PROVE DaemonTyped'
  <2>1. blocked.client \in Clients
    BY <1>4 DEF DropGoesOn, Continues, HandlerFits
  <2>2. BlockedType'
    BY <1>4, TerminalsTyped DEF DropGoesOn, BlockedType
  <2>3. ToldType'
    BY <1>4, <2>1 DEF DropGoesOn, ToldType
  <2>4. OthersTyped'
    BY <1>4, <2>1 DEF DropGoesOn, StreamsClose, OthersTyped
  <2>5. QED
    BY <1>4, <2>2, <2>3, <2>4 DEF DropGoesOn, DaemonTyped, ProcessType, TerminalType
<1>5. ASSUME NEW c \in Clients, StartSession(c), UNCHANGED mainvars PROVE DaemonTyped'
  <2>1. ToldType'
    BY <1>5 DEF StartSession, ToldType
  <2>2. spoiled' \in BOOLEAN
    BY <1>5 DEF StartSession, TooEarly, OthersTyped
  <2>3. OthersTyped'
    BY <1>5, <2>2, MaxSessionsAssumption DEF StartSession, OthersTyped
  <2>4. TerminalType' /\ BlockedType'
    <3>1. CASE Live(c)
      BY <1>5, <3>1, DestroyTyped DEF StartSession, Live
    <3>2. CASE ~Live(c)
      <4>1. blocked' = [Free EXCEPT !.client = c, !.next = "start"] /\ UNCHANGED terminal
        BY <1>5, <3>2 DEF StartSession, Live
      <4>2. QED
        BY <4>1, TerminalsTyped DEF TerminalType, BlockedType
    <3>3. QED
      BY <3>1, <3>2
  <2>5. QED
    BY <1>5, <2>1, <2>3, <2>4 DEF StartSession, DaemonTyped, ProcessType
<1>6. ASSUME NEW c \in Clients, Feed(c), UNCHANGED mainvars PROVE DaemonTyped'
  <2>1. TerminalType'
    BY <1>6, TRUE \in BOOLEAN DEF Feed, TerminalType, Terminal
  <2>2. OthersTyped'
    BY <1>6 DEF Feed, TooEarly, OthersTyped
  <2>3. QED
    BY <1>6, <2>1, <2>2 DEF Feed, DaemonTyped, ProcessType, BlockedType, ToldType
<1>7. ASSUME NEW c \in Clients, Resize(c), UNCHANGED mainvars PROVE DaemonTyped'
  BY <1>7
  DEF Resize, TooEarly, DaemonTyped, ProcessType, TerminalType, BlockedType, ToldType,
      OthersTyped
<1>8. ASSUME NEW c \in Clients, OrderOther(c) \/ Leave(c), UNCHANGED mainvars
      PROVE  DaemonTyped'
  <2>1. PICK next \in {"leave", "other"} : DropSession(c, next)
    BY <1>8 DEF OrderOther, Leave
  <2>2. spoiled' \in BOOLEAN
    BY <2>1 DEF DropSession, TooEarly, OthersTyped
  <2>3. OthersTyped'
    BY <1>8, <2>2 DEF OrderOther, Leave, OthersTyped
  <2>4. TerminalType' /\ BlockedType'
    <3>1. CASE Live(c)
      BY <2>1, <3>1, DestroyTyped DEF DropSession, Live
    <3>2. CASE ~Live(c)
      <4>1. blocked' = [Free EXCEPT !.client = c, !.next = next] /\ UNCHANGED terminal
        BY <2>1, <3>2 DEF DropSession, Live
      <4>2. QED
        BY <4>1, TerminalsTyped DEF TerminalType, BlockedType
    <3>3. QED
      BY <3>1, <3>2
  <2>5. QED
    BY <1>8, <2>3, <2>4 DEF OrderOther, Leave, DaemonTyped, ProcessType, ToldType
<1>9. ASSUME NEW c \in Clients, Posted(c), UNCHANGED mainvars PROVE DaemonTyped'
  <2>1. TerminalType'
    BY <1>9 DEF Posted, TerminalType, Terminal
  <2>2. BlockedType'
    BY <1>9 DEF Posted, BlockedType, Terminal
  <2>3. QED
    BY <1>9, <2>1, <2>2 DEF Posted, DaemonTyped, ProcessType, ToldType, OthersTyped
<1>10. ASSUME NEW c \in Clients, ReadEnd(c), UNCHANGED mainvars PROVE DaemonTyped'
  <2>1. TerminalType'
    BY <1>10 DEF ReadEnd, Waiting, TerminalType, Terminal
  <2>2. ToldType'
    BY <1>10 DEF ReadEnd, Tell, ToldType
  <2>3. QED
    BY <1>10, <2>1, <2>2 DEF ReadEnd, DaemonTyped, ProcessType, BlockedType, OthersTyped
<1>11. ASSUME NEW c \in Clients, FeedCompletes(c), UNCHANGED mainvars PROVE DaemonTyped'
  <2>1. TerminalType'
    BY <1>11, FALSE \in BOOLEAN DEF FeedCompletes, TerminalType, Terminal
  <2>2. QED
    BY <1>11, <2>1 DEF FeedCompletes, DaemonTyped, ProcessType, BlockedType, ToldType,
       OthersTyped
<1>12. ASSUME NEW c \in Clients,
              ReadOutput(c) \/ LateCallback(c), UNCHANGED mainvars
       PROVE  DaemonTyped'
  BY <1>12
  DEF ReadOutput, LateCallback, shellvars, DaemonTyped, ProcessType, TerminalType,
      BlockedType, ToldType, OthersTyped
<1>13. ASSUME StartForks PROVE DaemonTyped'
  BY <1>13, StartTyped DEF DaemonTyped
<1>14. ASSUME NEW s \in Signals, Signal(s) PROVE DaemonTyped'
  <2>1. BlockedType'
    BY <1>14, MaxSessionsAssumption DEF Signal, BlockedType
  <2>2. QED
    BY <1>14, <2>1
    DEF Signal, DaemonTyped, ProcessType, TerminalType, ToldType, OthersTyped
<1>15. ASSUME NEW s \in Signals, Dispatch(s) PROVE DaemonTyped'
  BY <1>15
  DEF Dispatch, shellvars, DaemonTyped, ProcessType, TerminalType, BlockedType, ToldType,
      OthersTyped
<1>16. ASSUME NEW c \in Clients, Accept(c) PROVE DaemonTyped'
  BY <1>16
  DEF Accept, Connect, DaemonTyped, ProcessType, TerminalType, BlockedType, ToldType,
      OthersTyped
<1>17. ASSUME AcceptFails \/ ContainerStarts \/ ContainerEnds \/ RunReturns
       PROVE  DaemonTyped'
  BY <1>17
  DEF AcceptFails, ContainerStarts, ContainerEnds, RunReturns, shellvars, DaemonTyped,
      ProcessType, TerminalType, BlockedType, ToldType, OthersTyped
<1>18. QED
  BY <1>1, <1>2, <1>3, <1>4, <1>5, <1>6, <1>7, <1>8, <1>9, <1>10, <1>11, <1>12, <1>13,
     <1>14,
     <1>15, <1>16, <1>17
  DEF DaemonNext, ShellNext, RunPosted

\* Nobody gains or loses a process, a descriptor or a session.
Calm ==
  /\ Forked' = Forked /\ Unreaped' = Unreaped
  /\ UNCHANGED <<masters, sessions, sent>>
  /\ Pending' = Pending /\ blocked'.waits = blocked.waits
  /\ \A c \in Clients : Live(c)' = Live(c) /\ (Live(c) => terminal'[c].pid = terminal[c].pid)

LEMMA CalmOwns ==
  ASSUME Calm
  PROVE  Owned' = Owned
<1>1. \A c \in Clients : Live(c)' = Live(c) /\ (Live(c) => terminal'[c].pid = terminal[c].pid)
  BY DEF Calm
<1>2. {terminal[c].pid : c \in {d \in Clients : Live(d)}}'
        = {terminal[c].pid : c \in {d \in Clients : Live(d)}}
  BY <1>1
<1>3. QED
  BY <1>2 DEF Calm, Owned

LEMMA CalmFits ==
  ASSUME ProcessesFit, LeftFit, Calm
  PROVE  ProcessesFit' /\ LeftFit'
<1>1. ProcessesFit'
  BY DEF Calm, ProcessesFit
<1>2. LeftFit'
  BY CalmOwns DEF Calm, LeftFit
<1>3. QED
  BY <1>1, <1>2

\* The steps that are about processes and sessions.
Weighty ==
  \/ /\ Reap \/ \E c \in Clients : StartSession(c) \/ OrderOther(c) \/ Leave(c)
     /\ UNCHANGED mainvars
  \/ StartForks
  \/ \E s \in Signals : Signal(s)

LEMMA OthersAreCalm ==
  ASSUME DaemonTyped, DaemonNext
  PROVE  Calm \/ Weighty
<1>. USE DEF host, daemon, client, sessionHistory, mainvars
<1>. ProcessType /\ TerminalType /\ BlockedType /\ ToldType /\ OthersTyped
  BY DEF DaemonTyped
<1>1. ASSUME NEW c \in Clients, NEW t \in Terminal, Live(c),
             t.pid = terminal[c].pid, terminal' = [terminal EXCEPT ![c] = t]
      PROVE  \A d \in Clients :
               Live(d)' = Live(d) /\ (Live(d) => terminal'[d].pid = terminal[d].pid)
  BY <1>1, NoTerminalAssumption DEF TerminalType, Live
<1>2. ASSUME UNCHANGED terminal
      PROVE  \A d \in Clients :
               Live(d)' = Live(d) /\ (Live(d) => terminal'[d].pid = terminal[d].pid)
  BY <1>2 DEF Live
<1>3. ASSUME UNCHANGED process PROVE Forked' = Forked /\ Unreaped' = Unreaped
  BY <1>3 DEF Forked, Unreaped
<1>4. ASSUME UNCHANGED blocked PROVE Pending' = Pending /\ blocked'.waits = blocked.waits
  BY <1>4 DEF Pending
<1>5. ASSUME NEW p \in Processes, ProcessEnds(p), UNCHANGED mainvars PROVE Calm
  <2>1. Forked' = Forked /\ Unreaped' = Unreaped
    BY <1>5 DEF ProcessEnds, ProcessType, Forked, Unreaped
  <2>2. QED
    BY <1>2, <1>4, <1>5, <2>1 DEF ProcessEnds, Calm
<1>6. ASSUME FailureGoesOn \/ DropGoesOn, UNCHANGED mainvars PROVE Calm
  <2>1. Pending' = Pending /\ blocked'.waits = blocked.waits
    BY <1>6 DEF FailureGoesOn, DropGoesOn, Continues, Free, Pending
  <2>2. QED
    BY <1>2, <1>3, <1>6, <2>1 DEF FailureGoesOn, DropGoesOn, Calm
<1>7. ASSUME NEW c \in Clients, Feed(c), UNCHANGED mainvars PROVE Calm
  <2>1. \A d \in Clients : Live(d)' = Live(d) /\ (Live(d) => terminal'[d].pid = terminal[d].pid)
    <3>1. CASE UNCHANGED terminal
      BY <1>2, <3>1
    <3>2. CASE terminal[c] # NoTerminal /\ terminal' = [terminal EXCEPT ![c].writing = TRUE]
      <4>1. [terminal[c] EXCEPT !.writing = TRUE] \in Terminal
        BY <3>2, TRUE \in BOOLEAN DEF TerminalType, Terminal
      <4>2. [terminal[c] EXCEPT !.writing = TRUE].pid = terminal[c].pid
        BY <3>2 DEF TerminalType, Terminal
      <4>3. terminal' = [terminal EXCEPT ![c] = [terminal[c] EXCEPT !.writing = TRUE]]
        BY <3>2
      <4>4. QED
        BY <1>1, <3>2, <4>1, <4>2, <4>3 DEF Live
    <3>3. QED
      BY <1>7, <3>1, <3>2 DEF Feed
  <2>2. QED
    BY <1>3, <1>4, <1>7, <2>1 DEF Feed, Calm
<1>8. ASSUME NEW c \in Clients, Posted(c), UNCHANGED mainvars PROVE Calm
  <2>1. \A d \in Clients : Live(d)' = Live(d) /\ (Live(d) => terminal'[d].pid = terminal[d].pid)
    <3>1. CASE UNCHANGED terminal
      BY <1>2, <3>1
    <3>2. CASE terminal[c] # NoTerminal /\ terminal' = [terminal EXCEPT ![c].reading = "waiting"]
      <4>1. [terminal[c] EXCEPT !.reading = "waiting"] \in Terminal
        BY <3>2 DEF TerminalType, Terminal
      <4>2. [terminal[c] EXCEPT !.reading = "waiting"].pid = terminal[c].pid
        BY <3>2 DEF TerminalType, Terminal
      <4>3. terminal' = [terminal EXCEPT ![c] = [terminal[c] EXCEPT !.reading = "waiting"]]
        BY <3>2
      <4>4. QED
        BY <1>1, <3>2, <4>1, <4>2, <4>3 DEF Live
    <3>3. QED
      BY <1>8, <3>1, <3>2 DEF Posted
  <2>2. Pending' = Pending /\ blocked'.waits = blocked.waits
    BY <1>8 DEF Posted, Pending, BlockedType
  <2>3. QED
    BY <1>3, <1>8, <2>1, <2>2 DEF Posted, Calm
<1>9. ASSUME NEW c \in Clients, ReadEnd(c), UNCHANGED mainvars PROVE Calm
  <2>. DEFINE t == [terminal[c] EXCEPT !.reading = "none", !.writing = FALSE]
  <2>1. t \in Terminal /\ Live(c) /\ t.pid = terminal[c].pid
    BY <1>9, FALSE \in BOOLEAN DEF ReadEnd, Waiting, TerminalType, Terminal, Live
  <2>2. terminal' = [terminal EXCEPT ![c] = t]
    BY <1>9 DEF ReadEnd
  <2>3. \A d \in Clients : Live(d)' = Live(d) /\ (Live(d) => terminal'[d].pid = terminal[d].pid)
    BY <1>1, <2>1, <2>2
  <2>4. QED
    BY <1>3, <1>4, <1>9, <2>3 DEF ReadEnd, Calm
<1>10. ASSUME NEW c \in Clients, FeedCompletes(c), UNCHANGED mainvars PROVE Calm
  <2>1. [terminal[c] EXCEPT !.writing = FALSE] \in Terminal /\ Live(c)
        /\ [terminal[c] EXCEPT !.writing = FALSE].pid = terminal[c].pid
    BY <1>10, FALSE \in BOOLEAN DEF FeedCompletes, TerminalType, Terminal, Live
  <2>2. terminal' = [terminal EXCEPT ![c] = [terminal[c] EXCEPT !.writing = FALSE]]
    BY <1>10 DEF FeedCompletes
  <2>3. \A d \in Clients : Live(d)' = Live(d) /\ (Live(d) => terminal'[d].pid = terminal[d].pid)
    BY <1>1, <2>1, <2>2
  <2>4. QED
    BY <1>3, <1>4, <1>10, <2>3 DEF FeedCompletes, Calm
<1>11. ASSUME NEW c \in Clients, Resize(c) \/ ReadOutput(c) \/ LateCallback(c),
              UNCHANGED mainvars
       PROVE  Calm
  BY <1>2, <1>3, <1>4, <1>11 DEF Resize, ReadOutput, LateCallback, shellvars, Calm
<1>12. ASSUME \/ \E s \in Signals : Dispatch(s)
              \/ \E c \in Clients : Accept(c)
              \/ AcceptFails \/ ContainerStarts \/ ContainerEnds \/ RunReturns
       PROVE  Calm
  BY <1>2, <1>3, <1>4, <1>12
  DEF Dispatch, Accept, Connect, AcceptFails, ContainerStarts, ContainerEnds,
      RunReturns, shellvars, Calm
<1>13. QED
  BY <1>5, <1>6, <1>7, <1>8, <1>9, <1>10, <1>11, <1>12 DEF DaemonNext, ShellNext,
     RunPosted, Weighty

(* The sets that are counted are finite.                                    *)
LEMMA CountedAreFinite ==
  ASSUME DaemonTyped, ProcessesFit
  PROVE  /\ IsFiniteSet(Unreaped \ Owned) /\ IsFiniteSet(masters \ Owned) /\ IsFiniteSet(sent)
         /\ Cardinality(Unreaped \ Owned) \in Nat /\ Cardinality(masters \ Owned) \in Nat
         /\ Cardinality(sent) \in Nat
         /\ sessions \in Nat /\ sessions - Pending \in Nat
<1>1. IsFiniteSet(Processes)
  BY FS_Interval, MaxSessionsAssumption DEF Processes
<1>2. Unreaped \ Owned \in SUBSET Processes /\ masters \ Owned \in SUBSET Processes
  BY DEF Unreaped, ProcessesFit, Forked
<1>3. IsFiniteSet(Signals)
  <2>1. IsFiniteSet({"SIGINT"} \cup {"SIGTERM"})
    BY FS_Singleton, FS_AddElement
  <2>2. {"SIGINT", "SIGTERM"} = {"SIGINT"} \cup {"SIGTERM"}
    OBVIOUS
  <2>3. QED
    BY <2>1, <2>2 DEF Signals
<1>4. sent \in SUBSET Signals
  BY DEF DaemonTyped, OthersTyped
<1>5. IsFiniteSet(Unreaped \ Owned) /\ IsFiniteSet(masters \ Owned) /\ IsFiniteSet(sent)
  BY <1>1, <1>2, <1>3, <1>4, FS_Subset
<1>6. sessions \in Nat /\ sessions - Pending \in Nat
  BY MaxSessionsAssumption DEF DaemonTyped, OthersTyped, Pending, ProcessesFit
<1>7. QED
  BY <1>5, <1>6, FS_CardinalityType

LEMMA OneMoreAtMost ==
  ASSUME NEW S, IsFiniteSet(S), NEW x, NEW T \in SUBSET (S \cup {x})
  PROVE  Cardinality(T) <= Cardinality(S) + 1
<1>1. IsFiniteSet(S \cup {x}) /\ Cardinality(S \cup {x}) <= Cardinality(S) + 1
      /\ Cardinality(S) \in Nat
  BY FS_AddElement, FS_CardinalityType
<1>2. IsFiniteSet(T) /\ Cardinality(T) <= Cardinality(S \cup {x})
  BY <1>1, FS_Subset
<1>3. Cardinality(T) \in Nat /\ Cardinality(S \cup {x}) \in Nat
  BY <1>1, <1>2, FS_CardinalityType
<1>4. QED
  BY <1>1, <1>2, <1>3

(* A step that lets go of nothing leaves no more behind.                    *)
LEMMA NoneLeft ==
  ASSUME DaemonTyped, ProcessesFit, LeftFit, UNCHANGED sent,
         sessions' - Pending' = sessions - Pending,
         (Unreaped \ Owned)' \subseteq Unreaped \ Owned,
         (masters \ Owned)' \subseteq masters \ Owned
  PROVE  LeftFit'
<1>1. Cardinality((Unreaped \ Owned)') <= Cardinality(Unreaped \ Owned)
      /\ Cardinality((masters \ Owned)') <= Cardinality(masters \ Owned)
  BY CountedAreFinite, FS_Subset
<1>2. Cardinality((Unreaped \ Owned)') \in Nat /\ Cardinality((masters \ Owned)') \in Nat
  BY CountedAreFinite, FS_Subset, FS_CardinalityType
<1>3. Cardinality((Unreaped \ Owned)') = Cardinality(Unreaped \ Owned)'
      /\ Cardinality((masters \ Owned)') = Cardinality(masters \ Owned)'
  OBVIOUS
<1>4. QED
  BY <1>1, <1>2, <1>3, CountedAreFinite DEF LeftFit

(* waitpid returns (clean).                                                 *)
LEMMA ReapFits ==
  ASSUME DaemonTyped, ProcessesFit, LeftFit, Reap,
         UNCHANGED mainvars
  PROVE  ProcessesFit' /\ LeftFit'
<1>. DEFINE w == blocked.waits
<1>1. w \in Forked \ masters /\ w \in Processes
  BY DEF Reap, ProcessesFit, Forked
<1>2. blocked' = [blocked EXCEPT !.waits = 0] /\ blocked'.waits = 0 /\ Pending' = Pending
  BY DEF Reap, DaemonTyped, BlockedType, Pending
<1>3. Forked' = Forked
  BY <1>1 DEF Reap, DaemonTyped, ProcessType, Forked
<1>4. Unreaped' \subseteq Unreaped \ {w}
  BY <1>1 DEF Reap, DaemonTyped, ProcessType, Unreaped
<1>5. UNCHANGED <<masters, terminal, sessions, sent>>
  BY DEF Reap, sessionHistory, mainvars
<1>6. Owned \ {w} \subseteq Owned'
  BY <1>2, <1>5 DEF Owned, Live
<1>7. ProcessesFit'
  BY <1>2, <1>3, <1>5 DEF ProcessesFit, Live
<1>8. QED
  BY <1>1, <1>2, <1>4, <1>5, <1>6, <1>7, NoneLeft

(* A signal that comes in the middle of a wait leaves a process.            *)
LEMMA SignalFits ==
  ASSUME DaemonTyped, ProcessesFit, LeftFit,
         NEW s \in Signals, Signal(s)
  PROVE  ProcessesFit' /\ LeftFit'
<1>1. UNCHANGED <<process, masters, terminal, sessions>> /\ sent' = sent \cup {s} /\ s \notin sent
  BY DEF Signal, host, sessionHistory
<1>2. Forked' = Forked /\ Unreaped' = Unreaped
  BY <1>1 DEF Forked, Unreaped
<1>3. Pending' = Pending /\ blocked'.waits \in {0, blocked.waits}
  BY DEF Signal, DaemonTyped, BlockedType, Pending
<1>4. Owned \ {blocked.waits} \subseteq Owned'
  BY <1>1 DEF Owned, Live
<1>5. ProcessesFit'
  BY <1>1, <1>2, <1>3 DEF ProcessesFit, Live
<1>6. Cardinality(sent)' = Cardinality(sent) + 1
  BY <1>1, CountedAreFinite, FS_AddElement
<1>7. Cardinality((Unreaped \ Owned)') <= Cardinality(Unreaped \ Owned) + 1
      /\ Cardinality((Unreaped \ Owned)') \in Nat
  <2>1. (Unreaped \ Owned)' \in SUBSET ((Unreaped \ Owned) \cup {blocked.waits})
    BY <1>2, <1>4
  <2>2. IsFiniteSet((Unreaped \ Owned) \cup {blocked.waits})
    BY CountedAreFinite, FS_AddElement
  <2>3. IsFiniteSet((Unreaped \ Owned)')
    BY <2>1, <2>2, FS_Subset
  <2>4. QED
    BY <2>1, <2>3, CountedAreFinite, OneMoreAtMost, FS_CardinalityType
<1>8. Cardinality((masters \ Owned)') <= Cardinality(masters \ Owned)
      /\ Cardinality((masters \ Owned)') \in Nat
  <2>1. (masters \ Owned)' \subseteq masters \ Owned
    BY <1>1, <1>3, <1>4 DEF ProcessesFit
  <2>2. QED
    BY <2>1, CountedAreFinite, FS_Subset, FS_CardinalityType
<1>9. Cardinality((Unreaped \ Owned)') = Cardinality(Unreaped \ Owned)'
      /\ Cardinality((masters \ Owned)') = Cardinality(masters \ Owned)'
  OBVIOUS
<1>10. LeftFit'
  BY <1>1, <1>3, <1>6, <1>7, <1>8, <1>9, CountedAreFinite DEF LeftFit
<1>11. QED
  BY <1>5, <1>10

(* A terminal's end is a wait for its process, whose descriptor is closed   *)
(* (~freebsd_terminal, clean).                                              *)
LEMMA DestroyFits ==
  ASSUME DaemonTyped, ProcessesFit, LeftFit,
         Idle, NEW c \in Clients, Live(c),
         NEW next \in {"none", "start", "fail", "leave", "other"}, Destroy(c, next),
         UNCHANGED <<process, sent>>, sessions' \in Nat,
         sessions' - Pending' = sessions - Pending
  PROVE  ProcessesFit' /\ LeftFit'
<1>1. /\ blocked'.waits = terminal[c].pid
      /\ terminal' = [terminal EXCEPT ![c] = NoTerminal]
  BY DestroyTyped
<1>2. PICK closed \in ClosedByNumber(terminal[c]) : masters' = masters \ closed
  <2>1. CASE \E closed \in ClosedByNumber(terminal[c]) : masters' = masters \ closed
    BY <2>1
  <2>2. CASE terminal[c].pid \notin masters \cup {0} /\ UNCHANGED masters
    <3>1. {} \in ClosedByNumber(terminal[c])
      BY <2>2 DEF ClosedByNumber
    <3>2. masters' = masters \ {}
      BY <2>2
    <3>3. QED
      BY <3>1, <3>2
  <2>3. QED
    BY <2>1, <2>2 DEF Destroy, CloseMaster
<1>3. terminal[c].pid \in Forked \cup {0}
  BY DEF ProcessesFit
<1>4. terminal[c].pid \notin masters'
  BY <1>2, <1>3 DEF ClosedByNumber, ProcessesFit, Forked, Processes
<1>5. Forked' = Forked /\ Unreaped' = Unreaped
  BY DEF Forked, Unreaped
<1>6. \A d \in Clients : Live(d)' => Live(d) /\ terminal'[d] = terminal[d]
  BY <1>1 DEF Live, DaemonTyped, TerminalType
<1>7. \A d \in Clients : Live(d) /\ d # c => Live(d)' /\ terminal'[d] = terminal[d]
  BY <1>1 DEF Live, DaemonTyped, TerminalType
<1>8. Owned \ {0} \subseteq Owned'
  BY <1>1, <1>7, IdleIsFree DEF Owned
<1>9. ProcessesFit'
  BY <1>1, <1>2, <1>3, <1>4, <1>5, <1>6 DEF ProcessesFit
<1>10. 0 \notin Unreaped /\ 0 \notin masters
  BY MaxSessionsAssumption DEF Unreaped, ProcessesFit, Forked, Processes
<1>11. (Unreaped \ Owned)' \subseteq Unreaped \ Owned /\ (masters \ Owned)' \subseteq masters \ Owned
  BY <1>2, <1>5, <1>8, <1>10
<1>12. QED
  BY <1>9, <1>11, NoneLeft

(* So does an order that ends a session to begin another, or something else,*)
(* or a client that leaves; a session that is to begin is counted when it   *)
(* does.                                                                    *)
LEMMA EndsFit ==
  ASSUME DaemonTyped, ProcessesFit, LeftFit,
         NEW c \in Clients, StartSession(c) \/ OrderOther(c) \/ Leave(c),
         UNCHANGED mainvars
  PROVE  ProcessesFit' /\ LeftFit'
<1>. Idle /\ UNCHANGED <<process, sent>> /\ sessions \in Nat
  BY DEF StartSession, OrderOther, Leave, mainvars, DaemonTyped, OthersTyped
<1>1. PICK next \in {"start", "leave", "other"} :
         /\ sessions' = IF next = "start" THEN sessions + 1 ELSE sessions
         /\ IF Live(c) THEN Destroy(c, next)
            ELSE /\ blocked' = [Free EXCEPT !.client = c, !.next = next]
                 /\ UNCHANGED <<masters, terminal>>
  BY DEF StartSession, OrderOther, Leave, DropSession, Live
<1>2. blocked'.next = next
  <2>1. CASE Live(c)
    BY <1>1, <2>1, DestroyTyped
  <2>2. CASE ~Live(c)
    BY <1>1, <2>2 DEF Free
  <2>3. QED
    BY <2>1, <2>2
<1>3. sessions' - Pending' = sessions - Pending /\ sessions' \in Nat
  BY <1>1, <1>2, IdleIsFree DEF Pending
<1>4. CASE Live(c)
  BY <1>1, <1>3, <1>4, DestroyFits
<1>5. CASE ~Live(c)
  <2>1. blocked'.waits = 0 /\ UNCHANGED <<masters, terminal>>
    BY <1>1, <1>5 DEF Free
  <2>2. Forked' = Forked /\ Unreaped' = Unreaped /\ Owned' = Owned
    BY <2>1, IdleIsFree DEF Forked, Unreaped, Owned, Live
  <2>3. ProcessesFit'
    BY <1>3, <2>1, <2>2 DEF ProcessesFit, Live
  <2>4. QED
    BY <1>3, <2>1, <2>2, <2>3, NoneLeft
<1>6. QED
  BY <1>4, <1>5

(* A session that begins leaves one process and one descriptor at most,     *)
(* whether or not it can be set up (start_session, initialize).             *)
LEMMA StartFits ==
  ASSUME DaemonTyped, HandlerFits,
         ProcessesFit, LeftFit, StartForks
  PROVE  ProcessesFit' /\ LeftFit'
<1>0. /\ blocked.client \in Clients /\ blocked.next = "start" /\ blocked.waits = 0
      /\ terminal[blocked.client] = NoTerminal /\ UNCHANGED <<sessions, sent>>
  BY DEF StartForks, StartGoesOn, Continues, HandlerFits
<1>. PICK c \in Clients : c = blocked.client
  BY <1>0
<1>. PICK p : p = NextProcess
  OBVIOUS
<1>1. /\ blocked.next = "start" /\ blocked.waits = 0
      /\ ~Live(c) /\ UNCHANGED <<sessions, sent>>
  BY <1>0 DEF Live
<1>2. /\ p \in Nat \ {0} /\ Forked = 1 .. p - 1 /\ p - 1 <= 2 * (sessions - 1)
      /\ p \in Processes /\ p + 1 \in Processes
  BY <1>1, NextIsFresh DEF Pending
<1>3. sessions \in Nat \ {0}
  BY <1>2 DEF DaemonTyped, OthersTyped
<1>4. PICK forks \in {{}, {p}, {p, p + 1}}, pid \in {0, p, p + 1} :
        /\ process' = [q \in Processes |-> IF q \in forks THEN "runs" ELSE process[q]]
        /\ blocked'.waits \in {0, pid} /\ Pending' = 0
        /\ masters' = masters \cup (forks \ {blocked'.waits})
        /\ terminal'[c].pid = pid /\ terminal'[c] \in Terminal
        /\ \A d \in Clients \ {c} : terminal'[d] = terminal[d]
        /\ pid \in forks \cup {0}
        /\ forks \ {pid} \in {{}, {p}, {p + 1}}
  <2>0. /\ Made(p) \in Terminal /\ Made(p + 1) \in Terminal /\ Blank \in Terminal
        /\ Made(p) = [pid |-> p, stream |-> p, reading |-> "none", writing |-> FALSE]
        /\ Made(p + 1) = [pid |-> p + 1, stream |-> p + 1, reading |-> "none", writing |-> FALSE]
    BY <1>2, TerminalsTyped DEF Made
  <2>1. CASE SetUp(c, p)
    <3>1. process' = [q \in Processes |-> IF q \in {p, p + 1} THEN "runs" ELSE process[q]]
      BY <1>2, <2>1 DEF SetUp, DaemonTyped, ProcessType
    <3>2. blocked'.waits = 0 /\ Pending' = 0
      BY <2>1 DEF SetUp, Free, Pending
    <3>3. masters' = masters \cup ({p, p + 1} \ {blocked'.waits})
      BY <1>2, <2>1, <3>2 DEF SetUp
    <3>4. /\ [Made(p + 1) EXCEPT !.reading = "posted"] \in Terminal
          /\ [Made(p + 1) EXCEPT !.reading = "posted"].pid = p + 1
      BY <2>0 DEF Terminal
    <3>5. /\ terminal'[c].pid = p + 1 /\ terminal'[c] \in Terminal
          /\ \A d \in Clients \ {c} : terminal'[d] = terminal[d]
      BY <1>1, <2>1, <3>4 DEF SetUp, DaemonTyped, TerminalType
    <3>6. {p, p + 1} \ {p + 1} = {p}
      BY <1>2
    <3>7. QED
      BY <3>1, <3>2, <3>3, <3>5, <3>6
  <2>2. CASE SetUpFails(c, p)
    <3>1. PICK failure \in Failures(p) : SetUpFails(c, p)!(failure)
      BY <2>2 DEF SetUpFails
    <3>2. /\ failure.leaves \in Terminal /\ failure.waits \in {0, failure.leaves.pid}
          /\ failure.forks \in {{}, {p}, {p, p + 1}} /\ failure.leaves.pid \in {0, p}
          /\ failure.leaves.pid \in failure.forks \cup {0}
          /\ failure.forks \ {failure.leaves.pid} \in {{}, {p}, {p + 1}}
      <4>1. CASE failure.waits = 0 /\ failure.leaves = Blank
        BY <1>2, <2>0, <3>1, <4>1 DEF Failures, Blank
      <4>2. CASE failure.waits = 0 /\ failure.leaves = Made(p)
        BY <1>2, <2>0, <3>1, <4>2 DEF Failures, Blank
      <4>3. CASE failure.waits = p
        <5>1. failure.forks = {p, p + 1} /\ failure.leaves = Made(p) /\ failure.waits = p
          BY <1>2, <3>1, <4>3 DEF Failures
        <5>2. {p, p + 1} \ {p} = {p + 1}
          BY <1>2
        <5>3. QED
          BY <2>0, <5>1, <5>2
      <4>4. QED
        BY <3>1, <4>1, <4>2, <4>3 DEF Failures
    <3>3. blocked'.waits = failure.waits /\ Pending' = 0
      BY <3>1 DEF Free, Pending
    <3>4. /\ terminal'[c] = failure.leaves
          /\ \A d \in Clients \ {c} : terminal'[d] = terminal[d]
      BY <1>1, <3>1 DEF DaemonTyped, TerminalType
    <3>5. QED
      BY <3>1, <3>2, <3>3, <3>4
  <2>3. QED
    BY <2>1, <2>2 DEF StartForks, StartGoesOn, Begin
<1>5. Forked' = Forked \cup forks
  BY <1>2, <1>4 DEF Forked
<1>6. Unreaped' = Unreaped \cup forks
  BY <1>2, <1>4 DEF Unreaped
<1>7. \A d \in Clients \ {c} : Live(d)' = Live(d)
  BY <1>4 DEF Live
<1>8. Live(c)'
  BY <1>4, NoTerminalAssumption DEF Live
<1>9. \E n \in 0 .. 2 * (sessions - Pending)' : Forked' = 1 .. n
  <2>1. (sessions - Pending)' = sessions
    BY <1>1, <1>3, <1>4
  <2>2. CASE forks = {}
    BY <1>2, <1>3, <1>5, <2>1, <2>2
  <2>3. CASE forks = {p}
    <3>1. Forked' = 1 .. p
      BY <1>2, <1>5, <2>3
    <3>2. QED
      BY <1>2, <1>3, <2>1, <3>1
  <2>4. CASE forks = {p, p + 1}
    <3>1. Forked' = 1 .. p + 1
      BY <1>2, <1>5, <2>4
    <3>2. QED
      BY <1>2, <1>3, <2>1, <3>1
  <2>5. QED
    BY <1>4, <2>2, <2>3, <2>4
<1>10. ProcessesFit'
  <2>1. p \notin masters /\ p + 1 \notin masters /\ 0 \notin masters
    BY <1>2 DEF ProcessesFit
  <2>2. masters' \subseteq Forked'
    BY <1>4, <1>5 DEF ProcessesFit
  <2>3. \A d \in Clients : Live(d)' => terminal'[d].pid \in Forked' \cup {0}
    BY <1>4, <1>5, <1>7 DEF ProcessesFit
  <2>4. blocked'.waits \in (Forked' \ masters') \cup {0}
    BY <1>2, <1>4, <1>5, <2>1
  <2>5. QED
    BY <1>9, <2>2, <2>3, <2>4 DEF ProcessesFit
<1>11. Owned \cup {pid} \subseteq Owned' \cup {0}
  <2>1. \A d \in Clients : Live(d) => Live(d)' /\ terminal'[d] = terminal[d]
    BY <1>1, <1>4, <1>7
  <2>2. {terminal[d].pid : d \in {e \in Clients : Live(e)}} \subseteq Owned'
    BY <2>1 DEF Owned
  <2>3. pid \in Owned'
    BY <1>1, <1>4, <1>8 DEF Owned
  <2>4. QED
    BY <1>1, <2>2, <2>3 DEF Owned
<1>12. 0 \notin Unreaped' /\ 0 \notin masters'
  BY <1>2, <1>4, <1>6, <1>10 DEF Unreaped, ProcessesFit, Forked, Processes
<1>13. PICK x \in {p, p + 1} :
         /\ (Unreaped \ Owned)' \subseteq (Unreaped \ Owned) \cup {x}
         /\ (masters \ Owned)' \subseteq (masters \ Owned) \cup {x}
  <2>1. PICK x \in {p, p + 1} : forks \ {pid} \subseteq {x}
    BY <1>4
  <2>2. (Unreaped \ Owned)' \subseteq (Unreaped \ Owned) \cup {x}
    BY <1>6, <1>11, <1>12, <2>1
  <2>3. (masters \ Owned)' \subseteq (masters \ Owned) \cup {x}
    BY <1>4, <1>11, <1>12, <2>1
  <2>4. QED
    BY <2>2, <2>3
<1>14. /\ Cardinality((Unreaped \ Owned)') <= Cardinality(Unreaped \ Owned) + 1
       /\ Cardinality((masters \ Owned)') <= Cardinality(masters \ Owned) + 1
  BY <1>13, CountedAreFinite, OneMoreAtMost
<1>15. /\ Cardinality((Unreaped \ Owned)') \in Nat
       /\ Cardinality((masters \ Owned)') \in Nat
  <2>1. /\ IsFiniteSet((Unreaped \ Owned) \cup {x}) /\ IsFiniteSet((masters \ Owned) \cup {x})
    BY CountedAreFinite, FS_AddElement
  <2>2. QED
    BY <1>13, <2>1, FS_Subset, FS_CardinalityType
<1>16. /\ Cardinality((Unreaped \ Owned)') = Cardinality(Unreaped \ Owned)'
       /\ Cardinality((masters \ Owned)') = Cardinality(masters \ Owned)'
       /\ Cardinality(sent)' = Cardinality(sent)
  BY <1>1
<1>17. LeftFit'
  BY <1>1, <1>3, <1>4, <1>14, <1>15, <1>16, CountedAreFinite DEF LeftFit, Pending
<1>18. QED
  BY <1>10, <1>17

(* Every step leaves the io thread with something it can come back to.      *)
LEMMA HandlerStep ==
  ASSUME DaemonTyped, HandlerFits,
         ProcessesFit, DaemonNext
  PROVE  HandlerFits'
<1>. USE DEF host, daemon, client, sessionHistory, mainvars
<1>. ProcessType /\ TerminalType /\ BlockedType /\ ToldType /\ OthersTyped
  BY DEF DaemonTyped
<1>1. CASE Reap
  BY <1>1 DEF Reap, HandlerFits, BlockedType
<1>2. CASE FailureGoesOn \/ DropGoesOn
  BY <1>2 DEF FailureGoesOn, DropGoesOn, Free, HandlerFits
<1>3. ASSUME NEW c \in Clients, StartSession(c) PROVE HandlerFits'
  <2>1. told'[c] = {} /\ Idle
    BY <1>3 DEF StartSession, ToldType
  <2>2. blocked'.client = c /\ blocked'.next = "start" /\ terminal'[c] = NoTerminal
    <3>1. CASE Live(c)
      <4>1. Destroy(c, "start")
        BY <1>3, <3>1 DEF StartSession, Live
      <4>2. QED
        BY <3>1, <4>1, DestroyTyped DEF TerminalType
    <3>2. CASE ~Live(c)
      BY <1>3, <3>2 DEF StartSession, Free, Live
    <3>3. QED
      BY <3>1, <3>2
  <2>3. QED
    BY <2>1, <2>2 DEF HandlerFits
<1>4. ASSUME NEW c \in Clients, OrderOther(c) \/ Leave(c) PROVE HandlerFits'
  <2>1. PICK next \in {"leave", "other"} : DropSession(c, next)
    BY <1>4 DEF OrderOther, Leave
  <2>2. blocked'.client = c /\ blocked'.next = next /\ terminal'[c] = NoTerminal
    <3>1. CASE Live(c)
      BY <2>1, <3>1, DestroyTyped DEF DropSession, Live, TerminalType
    <3>2. CASE ~Live(c)
      BY <2>1, <3>2 DEF DropSession, Free, Live
    <3>3. QED
      BY <3>1, <3>2
  <2>3. QED
    BY <2>2 DEF HandlerFits
<1>5. ASSUME NEW c \in Clients,
             Feed(c) \/ Resize(c) \/ ReadOutput(c) \/ ReadEnd(c) \/ FeedCompletes(c)
      PROVE  HandlerFits'
  <2>1. Idle /\ UNCHANGED blocked
    BY <1>5
    DEF Feed, Resize, ReadOutput, ReadEnd, FeedCompletes, Waiting, shellvars
  <2>2. QED
    BY <2>1, IdleIsFree DEF HandlerFits
<1>6. ASSUME NEW c \in Clients, Posted(c) PROVE HandlerFits'
  <2>1. blocked'.next = blocked.next /\ blocked'.client = blocked.client /\ UNCHANGED told
    BY <1>6 DEF Posted, BlockedType
  <2>2. \A d \in Clients : terminal[d] = NoTerminal => terminal'[d] = NoTerminal
    BY <1>6 DEF Posted, TerminalType
  <2>3. QED
    BY <2>1, <2>2 DEF HandlerFits
<1>7. CASE StartForks
  <2>1. CASE SetUp(blocked.client, NextProcess)
    BY <2>1 DEF SetUp, Free, HandlerFits
  <2>2. CASE SetUpFails(blocked.client, NextProcess)
    <3>1. blocked'.next = "none" \/ (blocked'.next = "fail" /\ blocked'.client = blocked.client)
      BY <2>2 DEF SetUpFails, Free
    <3>2. blocked.client \in Clients
      BY <1>7 DEF StartForks, StartGoesOn, Continues, HandlerFits
    <3>3. QED
      BY <3>1, <3>2 DEF HandlerFits
  <2>3. QED
    BY <1>7, <2>1, <2>2 DEF StartForks, StartGoesOn, Begin
<1>8. ASSUME NEW s \in Signals, Signal(s) PROVE HandlerFits'
  BY <1>8 DEF Signal, HandlerFits, BlockedType
<1>9. ASSUME UNCHANGED <<blocked, terminal, told>> PROVE HandlerFits'
  BY <1>9 DEF HandlerFits
<1>10. ASSUME NEW p \in Processes, ProcessEnds(p) PROVE HandlerFits'
  BY <1>9, <1>10 DEF ProcessEnds
<1>11. ASSUME NEW c \in Clients, LateCallback(c) \/ Accept(c) PROVE HandlerFits'
  BY <1>9, <1>11 DEF LateCallback, Accept, Connect
<1>12. ASSUME \/ \E s \in Signals : Dispatch(s)
              \/ AcceptFails \/ ContainerStarts \/ ContainerEnds \/ RunReturns
       PROVE  HandlerFits'
  BY <1>9, <1>12
  DEF Dispatch, AcceptFails, ContainerStarts, ContainerEnds, RunReturns, shellvars
<1>13. QED
  BY <1>1, <1>2, <1>3, <1>4, <1>5, <1>6, <1>7, <1>8, <1>10, <1>11, <1>12 DEF
     DaemonNext, ShellNext, RunPosted

(* A session that cannot be set up leaves one stray at most (setup_pipe).   *)
LEMMA StraysStep ==
  ASSUME StraysFit, DaemonNext
  PROVE  StraysFit'
<1>1. CASE StartForks
  <2>1. CASE SetUp(blocked.client, NextProcess)
    BY <2>1 DEF SetUp, StraysFit
  <2>2. CASE SetUpFails(blocked.client, NextProcess)
    <3>1. PICK failure \in Failures(NextProcess) :
            strays' = strays + failure.strays /\ refused' = refused + 1
      BY <2>2 DEF SetUpFails
    <3>2. failure.strays \in 0 .. 1
      BY DEF Failures
    <3>3. QED
      BY <3>1, <3>2 DEF StraysFit
  <2>3. QED
    BY <1>1, <2>1, <2>2 DEF StartForks, StartGoesOn, Begin
<1>2. ASSUME NEW c \in Clients, NEW next, Destroy(c, next)
      PROVE  strays' = strays \/ (strays > 0 /\ strays' = strays - 1)
  BY <1>2 DEF Destroy, CloseMaster
<1>3. ASSUME NEW c \in Clients, StartSession(c) \/ OrderOther(c) \/ Leave(c)
      PROVE  StraysFit'
  <2>1. UNCHANGED strays \/ \E next \in {"start", "leave", "other"} : Destroy(c, next)
    BY <1>3 DEF StartSession, OrderOther, Leave, DropSession
  <2>2. UNCHANGED refused
    BY <1>3 DEF StartSession, OrderOther, Leave
  <2>3. QED
    BY <1>2, <2>1, <2>2 DEF StraysFit
<1>4. ASSUME ~StartForks,
             ~\E c \in Clients : StartSession(c) \/ OrderOther(c) \/ Leave(c)
      PROVE  UNCHANGED <<strays, refused>>
  BY <1>4
  DEF DaemonNext, ShellNext, RunPosted, ProcessEnds, Reap, FailureGoesOn, DropGoesOn, Feed,
      Resize, Posted, ReadOutput, ReadEnd, FeedCompletes, LateCallback, Signal, Dispatch,
      Accept, Connect, AcceptFails, ContainerStarts, ContainerEnds, RunReturns, shellvars,
      host, sessionHistory
<1>5. QED
  BY <1>1, <1>3, <1>4 DEF StraysFit

(* The end of a session whose client was told of it, or of none: the process*)
(* that is waited for has ended, and no callback is aborted (start_session, *)
(* and the end of a handler).                                               *)
LEMMA PoliteEnd ==
  ASSUME DaemonTyped, ProcessesFit, PoliteFits,
         ~spoiled, Idle, NEW c \in Clients, NEW next \in {"start", "leave", "other"},
         IF Live(c) THEN Destroy(c, next) /\ "ended" \in told[c]
         ELSE /\ blocked' = [Free EXCEPT !.client = c, !.next = next]
              /\ UNCHANGED <<masters, terminal>>,
         told' = told \/ told' = [told EXCEPT ![c] = {}], next = "start" => told'[c] = {},
         UNCHANGED <<process, status, late>>
  PROVE  PoliteFits'
<1>. ProcessType /\ TerminalType /\ BlockedType /\ ToldType
  BY DEF DaemonTyped
<1>1. blocked'.client = c /\ blocked'.next = next
      /\ terminal' = [terminal EXCEPT ![c] = NoTerminal]
  <2>1. CASE Live(c)
    BY <2>1, DestroyTyped
  <2>2. CASE ~Live(c)
    BY <2>2 DEF Free, Live, TerminalType
  <2>3. QED
    BY <2>1, <2>2
<1>2. \A d \in Clients : d # c =>
        terminal'[d] = terminal[d] /\ Live(d)' = Live(d) /\ told'[d] = told[d]
  BY <1>1 DEF Live, TerminalType, ToldType
<1>3. ~Live(c)'
  BY <1>1 DEF Live, TerminalType
<1>4. /\ status # "dead" /\ NoneShared /\ NothingAborted
      /\ \A d \in Clients : PoliteClient(d)
  BY DEF PoliteFits
<1>5. ASSUME NEW d \in Clients PROVE PoliteClient(d)'
  <2>1. CASE d = c
    <3>1. "success" \in told'[c] => next \in {"leave", "other"}
      OBVIOUS
    <3>2. QED
      BY <1>1, <1>3, <2>1, <3>1 DEF PoliteClient
  <2>2. CASE d # c
    BY <1>2, <1>4, <2>2, IdleIsFree DEF PoliteClient
  <2>3. QED
    BY <2>1, <2>2
<1>6. NoneShared'
  BY <1>2, <1>3, <1>4 DEF NoneShared
<1>7. WaitIsShort' /\ NothingAborted'
  <2>1. CASE Live(c)
    <3>1. blocked'.waits = terminal[c].pid /\ blocked'.terminal = terminal[c]
      BY <2>1, DestroyTyped
    <3>2. /\ process[terminal[c].pid] = "ended" /\ terminal[c].reading = "none"
          /\ ~terminal[c].writing
      BY <1>4, <2>1 DEF PoliteClient
    <3>3. WaitIsShort'
      BY <1>2, <1>3, <1>4, <2>1, <3>1, <3>2 DEF WaitIsShort, NoneShared
    <3>4. NothingAborted'
      BY <1>4, <3>1, <3>2 DEF NothingAborted, InProgress
    <3>5. QED
      BY <3>3, <3>4
  <2>2. CASE ~Live(c)
    BY <1>4, <2>2 DEF Free, WaitIsShort, NothingAborted
  <2>3. QED
    BY <2>1, <2>2
<1>8. QED
  BY <1>4, <1>5, <1>6, <1>7 DEF PoliteFits

(* A session that is set up has a process of its own (initialize).          *)
LEMMA PoliteStart ==
  ASSUME DaemonTyped, HandlerFits,
         ProcessesFit, PoliteFits, StartForks, ~spoiled'
  PROVE  PoliteFits'
<1>. ProcessType /\ TerminalType /\ BlockedType /\ ToldType
  BY DEF DaemonTyped
<1>0. /\ blocked.client \in Clients /\ blocked.next = "start" /\ blocked.waits = 0
      /\ told[blocked.client] = {} /\ UNCHANGED status
  BY DEF StartForks, StartGoesOn, Continues, HandlerFits
<1>. PICK c \in Clients : c = blocked.client
  BY <1>0
<1>. PICK p : p = NextProcess
  OBVIOUS
<1>1. SetUp(c, p) /\ ~spoiled /\ StreamsClose
  BY DEF StartForks, StartGoesOn, Begin, SetUp, SetUpFails
<1>2. p \in Nat \ {0} /\ Forked = 1 .. p - 1 /\ p \in Processes /\ p + 1 \in Processes
  BY <1>0, NextIsFresh
<1>3. /\ status # "dead" /\ NoneShared /\ NothingAborted
      /\ \A d \in Clients : PoliteClient(d)
  BY <1>1 DEF PoliteFits
<1>4. blocked' = Free /\ blocked'.waits = 0 /\ blocked'.terminal = NoTerminal
  BY <1>1 DEF SetUp, Free
<1>5. NothingAborted'
  BY <1>1, <1>3, <1>4 DEF NothingAborted, StreamsClose
<1>6. /\ [Made(p + 1) EXCEPT !.reading = "posted"] \in Terminal
      /\ [Made(p + 1) EXCEPT !.reading = "posted"].pid = p + 1
      /\ [Made(p + 1) EXCEPT !.reading = "posted"].stream = p + 1
      /\ ~[Made(p + 1) EXCEPT !.reading = "posted"].writing
  <2>1. Made(p + 1) = [pid |-> p + 1, stream |-> p + 1, reading |-> "none", writing |-> FALSE]
        /\ Made(p + 1) \in Terminal
    BY <1>2, TerminalsTyped DEF Made
  <2>2. QED
    BY <2>1 DEF Terminal
<1>7. /\ terminal'[c] \in Terminal /\ terminal'[c].pid = p + 1 /\ terminal'[c].stream = p + 1
      /\ ~terminal'[c].writing
      /\ \A d \in Clients : d # c => terminal'[d] = terminal[d] /\ told'[d] = told[d]
      /\ told'[c] = {"success"}
  BY <1>0, <1>1, <1>6 DEF SetUp, Tell, TerminalType, ToldType
<1>8. Live(c)' /\ \A d \in Clients : d # c => Live(d)' = Live(d)
  BY <1>7, NoTerminalAssumption DEF Live
<1>9. \A q \in Forked : process'[q] = process[q]
  BY <1>1, <1>2 DEF SetUp, ProcessType, Forked
<1>10. process'[p + 1] = "runs"
  BY <1>1, <1>2 DEF SetUp, ProcessType
<1>11. \A d \in Clients : Live(d) => terminal[d].pid \in Forked
  BY <1>3 DEF PoliteClient, ProcessesFit
<1>12. ASSUME NEW d \in Clients PROVE PoliteClient(d)'
  <2>1. CASE d = c
    BY <1>2, <1>7, <1>8, <1>10, <2>1 DEF PoliteClient
  <2>2. CASE d # c
    <3>1. "success" \in told[d] => Live(d)
      BY <1>0, <1>3 DEF PoliteClient
    <3>2. Live(d) => process'[terminal[d].pid] = process[terminal[d].pid]
      BY <1>9, <1>11
    <3>3. QED
      BY <1>3, <1>7, <1>8, <2>2, <3>1, <3>2 DEF PoliteClient
  <2>3. QED
    BY <2>1, <2>2
<1>13. NoneShared'
  <2>1. \A d \in Clients : Live(d) => terminal[d].pid # p + 1
    BY <1>2, <1>11
  <2>2. QED
    BY <1>3, <1>7, <1>8, <2>1 DEF NoneShared
<1>14. WaitIsShort'
  BY <1>4 DEF WaitIsShort
<1>15. QED
  BY <1>0, <1>3, <1>5, <1>12, <1>13, <1>14 DEF PoliteFits

(* Every step leaves polite clients what they wait for.                     *)
LEMMA PoliteStep ==
  ASSUME DaemonTyped, HandlerFits,
         ProcessesFit, PoliteFits, DaemonNext
  PROVE  PoliteFits'
<1>. SUFFICES ASSUME ~spoiled' PROVE PoliteFits'
  BY DEF PoliteFits
<1>. USE DEF host, daemon, client, sessionHistory, mainvars
<1>. ProcessType /\ TerminalType /\ BlockedType /\ ToldType /\ OthersTyped
  BY DEF DaemonTyped
<1>0. CASE ~spoiled
  <2>0. /\ status # "dead" /\ NoneShared /\ WaitIsShort /\ NothingAborted
        /\ \A c \in Clients : PoliteClient(c)
    BY <1>0 DEF PoliteFits
  <2>1. ASSUME NEW p \in Processes, ProcessEnds(p) PROVE PoliteFits'
    <3>1. /\ process[p] = "runs" /\ process'[p] = "ended"
          /\ \A q \in Processes : q # p => process'[q] = process[q]
      BY <2>1 DEF ProcessEnds, ProcessType
    <3>2. UNCHANGED <<masters, status, terminal, blocked, late, told>>
      BY <2>1 DEF ProcessEnds
    <3>3. ASSUME NEW c \in Clients PROVE PoliteClient(c)'
      <4>1. Live(c) => terminal[c].pid \in Processes
        BY <2>0 DEF PoliteClient, ProcessesFit, Forked
      <4>2. QED
        BY <2>0, <3>1, <3>2, <4>1 DEF PoliteClient, Live
    <3>4. WaitIsShort'
      BY <2>0, <3>1, <3>2 DEF WaitIsShort, Live, ProcessesFit, Forked
    <3>5. QED
      BY <2>0, <3>2, <3>3, <3>4 DEF PoliteFits, NoneShared, NothingAborted, Live
  <2>2. CASE Reap
    <3>1. /\ blocked.waits # 0 /\ blocked'.waits = 0 /\ blocked'.next = blocked.next
          /\ blocked'.client = blocked.client /\ blocked'.terminal = blocked.terminal
          /\ UNCHANGED <<status, terminal, late, told>>
      BY <2>2 DEF Reap, BlockedType
    <3>2. \A q \in Processes : q # blocked.waits => process'[q] = process[q]
      BY <2>2 DEF Reap, ProcessType
    <3>3. ASSUME NEW c \in Clients PROVE PoliteClient(c)'
      <4>1. Live(c) => terminal[c].pid \in Processes /\ terminal[c].pid # blocked.waits
        BY <2>0, <3>1 DEF PoliteClient, WaitIsShort, ProcessesFit, Forked
      <4>2. QED
        BY <2>0, <3>1, <3>2, <4>1 DEF PoliteClient, Live
    <3>4. QED
      BY <2>0, <3>1, <3>3 DEF PoliteFits, NoneShared, NothingAborted, WaitIsShort, Live
  <2>3. CASE FailureGoesOn
    BY <2>0, <2>3
    DEF FailureGoesOn, Continues, Free, PoliteFits, NoneShared, NothingAborted, WaitIsShort,
        PoliteClient, Live
  <2>4. CASE DropGoesOn
    <3>1. /\ blocked'.waits = 0 /\ blocked'.terminal = NoTerminal
          /\ UNCHANGED <<process, status, terminal>>
          /\ told' = [told EXCEPT ![blocked.client] = {}]
      BY <2>4 DEF DropGoesOn, Free
    <3>2. late' = late
      BY <2>0, <2>4 DEF DropGoesOn, StreamsClose, NothingAborted
    <3>3. ASSUME NEW c \in Clients PROVE PoliteClient(c)'
      <4>1. CASE c = blocked.client
        <5>1. told'[c] = {}
          BY <3>1, <4>1 DEF ToldType
        <5>2. QED
          BY <2>0, <3>1, <5>1 DEF PoliteClient, Live
      <4>2. CASE c # blocked.client
        <5>1. told'[c] = told[c]
          BY <3>1, <4>2 DEF ToldType
        <5>2. QED
          BY <2>0, <3>1, <4>2, <5>1 DEF PoliteClient, Live
      <4>3. QED
        BY <4>1, <4>2
    <3>4. QED
      BY <2>0, <3>1, <3>2, <3>3 DEF PoliteFits, NoneShared, NothingAborted,
         WaitIsShort, Live
  <2>5. ASSUME NEW c \in Clients, StartSession(c) PROVE PoliteFits'
    <3>1. /\ Idle /\ UNCHANGED <<process, status, late>> /\ told' = [told EXCEPT ![c] = {}]
          /\ IF Live(c) THEN Destroy(c, "start") /\ "ended" \in told[c]
             ELSE /\ blocked' = [Free EXCEPT !.client = c, !.next = "start"]
                  /\ UNCHANGED <<masters, terminal>>
      BY <2>5 DEF StartSession, TooEarly, Live
    <3>2. told'[c] = {}
      BY <3>1 DEF ToldType
    <3>3. QED
      BY <1>0, <3>1, <3>2, PoliteEnd
  <2>6. ASSUME NEW c \in Clients, OrderOther(c) \/ Leave(c) PROVE PoliteFits'
    <3>1. PICK next \in {"leave", "other"} : DropSession(c, next)
      BY <2>6 DEF OrderOther, Leave
    <3>2. /\ Idle /\ UNCHANGED <<process, status, late, told>>
          /\ IF Live(c) THEN Destroy(c, next) /\ "ended" \in told[c]
             ELSE /\ blocked' = [Free EXCEPT !.client = c, !.next = next]
                  /\ UNCHANGED <<masters, terminal>>
      BY <2>6, <3>1 DEF OrderOther, Leave, DropSession, TooEarly, Live
    <3>3. QED
      BY <1>0, <3>2, PoliteEnd
  <2>7. ASSUME UNCHANGED <<process, terminal, blocked, late, told>>, status' # "dead"
        PROVE  PoliteFits'
    BY <2>0, <2>7 DEF PoliteFits, NoneShared, NothingAborted, WaitIsShort,
       PoliteClient, Live
  <2>16. ASSUME NEW c \in Clients, NEW t \in Terminal, Live(c),
                t.pid = terminal[c].pid, t.stream = terminal[c].stream,
                "ended" \in told[c] => t.reading = "none" /\ ~t.writing,
                terminal' = [terminal EXCEPT ![c] = t],
                UNCHANGED <<process, status, blocked, late, told>>
         PROVE  PoliteFits'
    <3>1. terminal'[c] = t /\ \A d \in Clients : d # c => terminal'[d] = terminal[d]
      BY <2>16 DEF TerminalType
    <3>2. \A d \in Clients : Live(d)' = Live(d) /\ terminal'[d].pid = terminal[d].pid
      BY <2>16, <3>1, NoTerminalAssumption DEF Live
    <3>3. ASSUME NEW d \in Clients PROVE PoliteClient(d)'
      <4>1. CASE d = c
        BY <2>0, <2>16, <3>1, <3>2, <4>1 DEF PoliteClient
      <4>2. CASE d # c
        BY <2>0, <2>16, <3>1, <3>2, <4>2 DEF PoliteClient
      <4>3. QED
        BY <4>1, <4>2
    <3>4. QED
      BY <2>0, <2>16, <3>2, <3>3 DEF PoliteFits, NoneShared, NothingAborted, WaitIsShort
  <2>8. ASSUME NEW c \in Clients, Feed(c) \/ Resize(c) PROVE PoliteFits'
    <3>1. "success" \in told[c] /\ Idle
      BY <2>8 DEF Feed, Resize, TooEarly
    <3>2. Live(c) /\ terminal[c].pid # 0
      BY <2>0, <3>1, IdleIsFree DEF PoliteClient
    <3>3. terminal[c] \notin {NoTerminal, Blank} /\ terminal[c] \in Terminal
      BY <3>2 DEF Live, Blank, TerminalType
    <3>4. CASE UNCHANGED terminal
      BY <2>0, <2>7, <2>8, <3>3, <3>4 DEF Feed, Resize
    <3>5. CASE terminal' # terminal
      <4>1. /\ process[terminal[c].stream] = "runs"
            /\ terminal' = [terminal EXCEPT ![c].writing = TRUE]
            /\ UNCHANGED <<process, status, blocked, late, told>>
        BY <2>8, <3>3, <3>5 DEF Feed, Resize
      <4>2. "ended" \notin told[c]
        BY <2>0, <3>2, <4>1 DEF PoliteClient
      <4>. DEFINE t == [terminal[c] EXCEPT !.writing = TRUE]
      <4>3. t \in Terminal /\ t.pid = terminal[c].pid /\ t.stream = terminal[c].stream
        BY <3>3, TRUE \in BOOLEAN DEF Terminal
      <4>4. terminal' = [terminal EXCEPT ![c] = t]
        BY <4>1
      <4>. HIDE DEF t
      <4>5. QED
        BY <2>16, <3>2, <4>1, <4>2, <4>3, <4>4
    <3>6. QED
      BY <3>4, <3>5
  <2>9. ASSUME NEW c \in Clients, ReadOutput(c) \/ LateCallback(c)
        PROVE  PoliteFits'
    <3>1. ~LateCallback(c)
      BY <2>0 DEF LateCallback, NothingAborted
    <3>3. QED
      BY <2>0, <2>7, <2>9, <3>1 DEF ReadOutput, shellvars
  <2>17. ASSUME NEW c \in Clients, FeedCompletes(c) PROVE PoliteFits'
    <3>. DEFINE t == [terminal[c] EXCEPT !.writing = FALSE]
    <3>1. Live(c) /\ terminal[c] \in Terminal
          /\ UNCHANGED <<process, status, blocked, late, told>>
      BY <2>17 DEF FeedCompletes, Live, TerminalType
    <3>2. t \in Terminal /\ t.pid = terminal[c].pid /\ t.stream = terminal[c].stream
          /\ t.reading = terminal[c].reading /\ ~t.writing
      BY <3>1, FALSE \in BOOLEAN DEF Terminal
    <3>3. terminal' = [terminal EXCEPT ![c] = t]
      BY <2>17 DEF FeedCompletes
    <3>4. "ended" \in told[c] => terminal[c].reading = "none"
      BY <2>0, <3>1 DEF PoliteClient
    <3>. HIDE DEF t
    <3>5. QED
      BY <2>16, <3>1, <3>2, <3>3, <3>4
  <2>10. ASSUME NEW c \in Clients, ReadEnd(c) PROVE PoliteFits'
    <3>1. /\ Live(c) /\ UNCHANGED <<process, status, blocked, late>>
          /\ terminal[c] \in Terminal
      BY <2>10 DEF ReadEnd, Waiting, Live, TerminalType
    <3>2. process[terminal[c].pid] = "ended"
      BY <2>0, <2>10, <3>1 DEF ReadEnd, PoliteClient
    <3>3. terminal' = [terminal EXCEPT ![c].reading = "none", ![c].writing = FALSE]
      BY <2>10 DEF ReadEnd
    <3>4. /\ terminal'[c] \in Terminal /\ terminal'[c].pid = terminal[c].pid
          /\ terminal'[c].stream = terminal[c].stream /\ terminal'[c].reading = "none"
          /\ ~terminal'[c].writing
          /\ \A d \in Clients : d # c => terminal'[d] = terminal[d]
      BY <3>1, <3>3 DEF TerminalType, Terminal
    <3>5. \A d \in Clients : Live(d)' = Live(d)
      BY <3>1, <3>4, NoTerminalAssumption DEF Live
    <3>6. \A d \in Clients : terminal'[d].pid = terminal[d].pid
      BY <3>4
    <3>7. ASSUME NEW d \in Clients PROVE PoliteClient(d)'
      <4>1. CASE d = c
        BY <2>0, <3>1, <3>2, <3>4, <3>5, <4>1 DEF PoliteClient
      <4>2. CASE d # c
        <5>1. told'[d] = told[d]
          BY <2>10, <4>2 DEF ReadEnd, Tell, ToldType
        <5>2. QED
          BY <2>0, <3>1, <3>4, <3>5, <4>2, <5>1 DEF PoliteClient
      <4>3. QED
        BY <4>1, <4>2
    <3>8. QED
      BY <2>0, <3>1, <3>5, <3>6, <3>7 DEF PoliteFits, NoneShared, NothingAborted,
         WaitIsShort
  <2>11. ASSUME NEW c \in Clients, Posted(c) PROVE PoliteFits'
    <3>1. /\ Live(c) /\ terminal[c].reading = "posted" /\ terminal[c] \in Terminal
          /\ terminal' = [terminal EXCEPT ![c].reading = "waiting"]
          /\ UNCHANGED <<process, status, blocked, late, told>>
      BY <2>0, <2>11 DEF Posted, NothingAborted, InProgress, Live, TerminalType
    <3>2. /\ terminal'[c] \in Terminal /\ terminal'[c].pid = terminal[c].pid
          /\ terminal'[c].stream = terminal[c].stream
          /\ terminal'[c].writing = terminal[c].writing
          /\ \A d \in Clients : d # c => terminal'[d] = terminal[d]
      BY <3>1 DEF TerminalType, Terminal
    <3>3. \A d \in Clients : Live(d)' = Live(d) /\ terminal'[d].pid = terminal[d].pid
      BY <3>1, <3>2, NoTerminalAssumption DEF Live
    <3>4. ASSUME NEW d \in Clients PROVE PoliteClient(d)'
      <4>1. CASE d = c
        BY <2>0, <3>1, <3>2, <3>3, <4>1 DEF PoliteClient
      <4>2. CASE d # c
        BY <2>0, <3>1, <3>2, <3>3, <4>2 DEF PoliteClient
      <4>3. QED
        BY <4>1, <4>2
    <3>5. QED
      BY <2>0, <3>1, <3>3, <3>4 DEF PoliteFits, NoneShared, NothingAborted, WaitIsShort
  <2>12. CASE StartForks
    BY <2>12, PoliteStart
  <2>13. ASSUME NEW s \in Signals, Signal(s) PROVE PoliteFits'
    <3>1. /\ blocked'.waits \in {0, blocked.waits} /\ blocked'.next = blocked.next
          /\ blocked'.client = blocked.client /\ blocked'.terminal = blocked.terminal
          /\ UNCHANGED <<process, status, terminal, late, told>>
      BY <2>13 DEF Signal, BlockedType
    <3>2. QED
      BY <2>0, <3>1 DEF PoliteFits, NoneShared, NothingAborted, WaitIsShort,
         PoliteClient, Live
  <2>14. ASSUME \/ \E s \in Signals : Dispatch(s)
                \/ \E c \in Clients : Accept(c)
                \/ AcceptFails \/ ContainerStarts \/ ContainerEnds \/ RunReturns
         PROVE  PoliteFits'
    BY <2>0, <2>7, <2>14
    DEF Dispatch, Accept, Connect, AcceptFails, ContainerStarts, ContainerEnds,
        RunReturns, shellvars
  <2>15. QED
    BY <2>1, <2>2, <2>3, <2>4, <2>5, <2>6, <2>8, <2>9, <2>10, <2>11, <2>12, <2>13, <2>14,
       <2>17
    DEF DaemonNext, ShellNext, RunPosted
<1>1. CASE spoiled
  <2>1. spoiled' = TRUE
    BY <1>1
    DEF DaemonNext, ShellNext, RunPosted, ProcessEnds, Reap, FailureGoesOn, DropGoesOn,
        StartSession, Destroy, TooEarly, Feed, Resize, OrderOther, Leave, DropSession, Posted,
        ReadOutput, ReadEnd, FeedCompletes, LateCallback, StartForks, StartGoesOn,
        Begin, SetUp, SetUpFails, Signal, Dispatch, Accept, Connect, AcceptFails,
        ContainerStarts, ContainerEnds, RunReturns, shellvars
  <2>2. QED
    BY <2>1
<1>2. QED
  BY <1>0, <1>1 DEF OthersTyped

LEMMA DaemonBegins ==
  ASSUME DaemonInit
  PROVE  DaemonInv
<1>. USE DEF DaemonInit, ShellInit
<1>1. DaemonTyped
  <2>1. BlockedType
    BY TerminalsTyped DEF BlockedType
  <2>2. spoiled \in BOOLEAN
    OBVIOUS
  <2>3. QED
    BY <2>1, <2>2, MaxSessionsAssumption DEF DaemonTyped, ProcessType, TerminalType,
       ToldType, OthersTyped
<1>2. Pending = 0 /\ blocked.waits = 0 /\ blocked.next = "none" /\ blocked.terminal = NoTerminal
  BY DEF Free, Pending
<1>3. Forked = {} /\ Unreaped = {} /\ \A c \in Clients : ~Live(c)
  BY DEF Forked, Unreaped, Live
<1>4. ProcessesFit
  <2>1. 0 \in 0 .. 2 * (sessions - Pending) /\ Forked = 1 .. 0
    BY <1>2, <1>3
  <2>2. QED
    BY <1>2, <1>3, <2>1 DEF ProcessesFit
<1>5. LeftFit
  <2>1. Unreaped \ Owned = {} /\ masters \ Owned = {} /\ sent = {}
    BY <1>3
  <2>2. QED
    BY <1>2, <2>1, FS_EmptySet DEF LeftFit
<1>6. HandlerFits /\ PoliteFits
  BY <1>2, <1>3 DEF HandlerFits, PoliteFits, NoneShared, WaitIsShort, NothingAborted,
     PoliteClient
<1>7. QED
  BY <1>1, <1>4, <1>5, <1>6 DEF DaemonInv, StraysFit

LEMMA DaemonGoesOn ==
  ASSUME DaemonInv, [DaemonNext]_(daemonvars)
  PROVE  DaemonInv'
<1>1. CASE DaemonNext
  <2>1. DaemonTyped' /\ HandlerFits' /\ StraysFit' /\ PoliteFits'
    BY <1>1, StepsTyped, HandlerStep, StraysStep, PoliteStep DEF DaemonInv
  <2>2. ProcessesFit' /\ LeftFit'
    <3>1. CASE Calm
      BY <3>1, CalmFits DEF DaemonInv
    <3>2. CASE Weighty
      BY <3>2, ReapFits, EndsFit, StartFits, SignalFits DEF Weighty, DaemonInv
    <3>3. QED
      BY <1>1, <3>1, <3>2, OthersAreCalm DEF DaemonInv
  <2>3. QED
    BY <2>1, <2>2 DEF DaemonInv
<1>2. CASE UNCHANGED daemonvars
  <2>. USE <1>2 DEF daemonvars, shellvars, host, daemon, client, sessionHistory, mainvars
  <2>1. DaemonTyped'
    BY DEF DaemonInv, DaemonTyped, ProcessType, TerminalType, BlockedType, ToldType,
       OthersTyped
  <2>2. Calm
    BY DEF Calm, Forked, Unreaped, Pending, Live
  <2>3. HandlerFits' /\ StraysFit' /\ PoliteFits'
    BY DEF DaemonInv, HandlerFits, StraysFit, PoliteFits, NoneShared, WaitIsShort, NothingAborted,
           PoliteClient, Live
  <2>4. QED
    BY <2>1, <2>2, <2>3, CalmFits DEF DaemonInv
<1>3. QED
  BY <1>1, <1>2

(* However many clients begin, feed and end sessions, with whatever calls   *)
(* that fail and signals that come between, the daemon's record of its      *)
(* terminals, processes and waits stays as DaemonInv says.                  *)
THEOREM DaemonInvariant ==
  DaemonSpec => []DaemonInv
<1>1. DaemonInit => DaemonInv
  BY DaemonBegins
<1>2. DaemonInv /\ [DaemonNext]_(daemonvars) => DaemonInv'
  BY DaemonGoesOn
<1>3. QED
  BY <1>1, <1>2, PTL DEF DaemonSpec

(* As long as no client acts before it was told that it may, and no call    *)
(* fails, the daemon lives, and its thread waits only for processes that    *)
(* have ended (shell_handler.cc, freebsd_terminal.cc).                      *)
THEOREM PoliteClientsAreServed ==
  DaemonSpec => []PoliteIsServed
<1>1. DaemonInv => PoliteIsServed
  BY DEF DaemonInv, PoliteFits, WaitIsShort, PoliteIsServed
<1>2. QED
  BY <1>1, DaemonInvariant, PTL

(* Each session leaves one process nobody waits for and one open descriptor *)
(* at most, one that fails another descriptor, and each signal one more     *)
(* process (freebsd_terminal::initialize, called twice, setup_pipe, clean). *)
THEOREM SessionsLeaveOne ==
  DaemonSpec => []OneLeftPerSession
<1>1. ASSUME DaemonInv PROVE OneLeftPerSession
  <2>. DaemonTyped /\ ProcessesFit /\ LeftFit /\ StraysFit
    BY <1>1 DEF DaemonInv
  <2>. DEFINE live == {t \in {terminal[c] : c \in Clients} : t # NoTerminal}
              owned == {t.pid : t \in live} \cup {blocked.waits}
  <2>1. DaemonTypeOK
    <3>1. PICK n \in Nat : Forked = 1 .. n
      BY MaxSessionsAssumption DEF ProcessesFit, DaemonTyped, OthersTyped, Pending
    <3>2. \A p \in Forked : 1 .. p \subseteq Forked
      BY <3>1
    <3>3. masters \cup {t.pid : t \in {terminal[c] : c \in Clients} \ {NoTerminal}}
            \subseteq Forked \cup {0}
      BY DEF ProcessesFit, Live
    <3>4. blocked.waits \in Forked \cup {0}
      BY DEF ProcessesFit
    <3>5. QED
      BY <3>2, <3>3, <3>4
      DEF DaemonTyped, ProcessType, TerminalType, ToldType, OthersTyped, StraysFit,
          DaemonTypeOK, Forked
  <2>2. owned = Owned
    BY DEF Owned, Live
  <2>3. /\ Cardinality(Unreaped \ owned) <= sessions + Cardinality(sent)
        /\ Cardinality(masters \ owned) + strays <= sessions + refused
    <3>1. /\ Cardinality(Unreaped \ Owned) <= sessions - Pending + Cardinality(sent)
          /\ Cardinality(masters \ Owned) <= sessions - Pending
      BY DEF LeftFit
    <3>2. Pending \in {0, 1}
      BY DEF Pending
    <3>3. /\ Cardinality(Unreaped \ Owned) <= sessions + Cardinality(sent)
          /\ Cardinality(masters \ Owned) + strays <= sessions + refused
      BY <3>1, <3>2, CountedAreFinite DEF StraysFit
    <3>4. Unreaped \ owned = Unreaped \ Owned /\ masters \ owned = masters \ Owned
      BY <2>2
    <3>5. QED
      BY <3>3, <3>4
  <2>4. QED
    BY <2>1, <2>3 DEF OneLeftPerSession, Unreaped
<1>2. QED
  BY <1>1, DaemonInvariant, PTL
=============================================================================
