------------------------- MODULE Installation_proofs ---------------------------
(***************************************************************************)
(* What Installation guarantees for any releases, files, connections and   *)
(* operators, with any number of kills and restarts.                       *)
(***************************************************************************)
EXTENDS Installation, TLAPS

(***************************************************************************)
(* The inductive invariant                                                 *)
(***************************************************************************)

Schema ==
  {"tables", "column", "alter", "marker", "plan", "migration", "script",
   "history"}

ConnectionType(x) ==
  /\ DOMAIN x = {"pc", "i"}
  /\ x.pc \in Schema \cup {"open", "refused"}
  /\ x.i \in Nat \ {0}
  /\ x.pc \in {"script", "history"} => x.i \in DOMAIN Plan[release]

BackingUp == {"backup", "copy", "verify"}
Restoring == {"restore", "restoring", "restored"}

CommandType(x) ==
  \/ /\ DOMAIN x = {"pc", "name"}
     /\ x.pc \in BackingUp /\ x.name \in Seconds
  \/ /\ DOMAIN x = {"pc", "name", "path", "sha"}
     /\ x.pc \in Restoring /\ x.name \in Seconds
     /\ x.path \in Paths \ {serving}

\* A file has the shape of its tables, and a row for at most every certificate.
Sound(content) ==
  /\ content \in Content
  /\ content.file = "database" => Len(content.issued) <= minted

Types ==
  /\ DOMAIN file = Paths /\ \A path \in Paths : Sound(file[path])
  /\ DOMAIN backup = Seconds /\ \A name \in Seconds : Sound(backup[name])
  /\ serving \in Paths /\ release \in Release
  /\ minted \in Nat /\ minted <= MaxIssued
  /\ DOMAIN conn = Connections
  /\ \A c \in Connections :
       \/ conn[c] = Closed
       \/ /\ ConnectionType(conn[c])
          /\ db # Missing
          /\ conn[c].pc # "tables" => db # Empty
  /\ DOMAIN op = Operators
  /\ \A o \in Operators : op[o] = Idle \/ CommandType(op[o])
  /\ DOMAIN pdf \subseteq 1..MaxIssued
  /\ \A number \in DOMAIN pdf : pdf[number] \in 1..minted
  /\ DOMAIN copied = Seconds
  /\ \A name \in Seconds :
       /\ DOMAIN copied[name] = {"begun", "contents"}
       /\ copied[name].begun \in Nat

\* How far the schema of a file is where a connection's bootstrap is.
Progress(x, d) ==
  /\ x.pc \in {"marker", "plan", "migration", "script", "history", "open"} =>
       d.status
  /\ x.pc \in {"plan", "migration", "script", "history", "open"} =>
       SchemaVersion[release] \in d.markers
  /\ x.pc \in {"tables", "column", "alter", "marker", "plan"} => x.i = 1
  /\ x.pc \in {"migration", "script", "history", "open"} =>
       /\ Known(d.applied) \subseteq Known(Plan[release])
       /\ \A j \in DOMAIN Plan[release] :
            j < x.i => Plan[release][j] \in Known(d.applied)
  /\ x.pc = "history" => Plan[release][x.i] \in d.effects
  /\ x.pc = "open" => x.i > Len(Plan[release])

\* What HistoryFollowsPlan says of one file.
Follows(content) ==
  content.file = "database" =>
    \E r \in Release :
      /\ Len(content.applied) <= Len(Plan[r])
      /\ content.applied = SubSeq(Plan[r], 1, Len(content.applied))
      /\ content.effects \in
           {Known(content.applied),
            {Plan[r][i] : i \in DOMAIN Plan[r] \cap 1..Len(content.applied) + 1}}

SchemaInv ==
  /\ \A c \in Connections : Progress(conn[c], db)
  /\ \A path \in Paths : Follows(file[path])
  /\ \A name \in Seconds : Follows(backup[name])

\* The PDFs that stand are what was answered.
NumbersInv ==
  \A a \in answered : a[1] \in DOMAIN pdf /\ a = <<a[1], pdf[a[1]]>>

\* Nobody names a backup after a second in which none was begun.
Unnamed(name) ==
  /\ \A o \in Operators : op[o].pc \in BackingUp => op[o].name # name
  /\ \A b \in evidence : b.kind = "backup" => b.name # name

\* One backup was begun in the second: there is no evidence before it is
\* verified, and then the evidence is of a copy that stands.
Described(name) ==
  /\ \A o, p \in Operators :
       /\ op[o].pc \in BackingUp /\ op[o].name = name
       /\ op[p].pc \in BackingUp /\ op[p].name = name
       => o = p
  /\ \A o \in Operators :
       op[o].pc \in BackingUp /\ op[o].name = name =>
         /\ \A b \in evidence : b.kind = "backup" => b.name # name
         /\ op[o].pc = "verify" =>
              /\ backup[name] # Missing
              /\ backup[name] \in copied[name].contents
  /\ \A b \in evidence :
       b.kind = "backup" /\ b.name = name =>
         /\ backup[name] = b.sha
         /\ b.sha \in copied[name].contents

BackupInv ==
  /\ \A name \in Seconds :
       /\ copied[name].begun = 0 => Unnamed(name)
       /\ copied[name].begun = 1 => Described(name)
  /\ \A o \in Operators : op[o].pc \in BackingUp => db # Missing

EvidenceNames ==
  \A b \in evidence : b.kind = "backup" => b.name \in Seconds

(***************************************************************************)
(* Plans and files                                                         *)
(***************************************************************************)

LEMMA PlanFacts ==
  /\ 1 \in Release
  /\ \A r \in Release :
       /\ Plan[r] \in Seq(Migration) /\ Len(Plan[r]) \in Nat
       /\ DOMAIN Plan[r] = 1..Len(Plan[r]) /\ 1 \in DOMAIN Plan[r]
       /\ \A i \in DOMAIN Plan[r] : Plan[r][i] \in Migration
<1>1. Plan \in Seq(Seq(Migration) \ {<<>>}) /\ Plan # <<>>
  BY InstallationAssumption
<1> HIDE DEF Migration
<1>2. Release = 1..Len(Plan) /\ Len(Plan) \in Nat /\ Len(Plan) # 0
  BY <1>1 DEF Release
<1>3. \A r \in Release : Plan[r] \in Seq(Migration) /\ Plan[r] # <<>>
  BY <1>1, <1>2
<1> QED
  BY <1>2, <1>3

\* What is neither missing nor empty is a database.
LEMMA DatabaseFields ==
  ASSUME NEW content \in Content, content # Missing, content # Empty
  PROVE  /\ content.file = "database"
         /\ DOMAIN content = {"file", "status", "markers", "effects",
                              "applied", "issued"}
         /\ content.status \in BOOLEAN
         /\ content.markers \subseteq {SchemaVersion[r] : r \in Release}
         /\ content.effects \subseteq Migration
         /\ content.applied \in Seq(Migration)
         /\ content.issued \in Seq(1..minted)
  BY DEF Content

LEMMA DatabaseBuilt ==
  ASSUME NEW content, content.file = "database",
         DOMAIN content = {"file", "status", "markers", "effects",
                           "applied", "issued"},
         content = [file |-> content.file, status |-> content.status,
                    markers |-> content.markers, effects |-> content.effects,
                    applied |-> content.applied, issued |-> content.issued],
         content.status \in BOOLEAN,
         content.markers \subseteq {SchemaVersion[r] : r \in Release},
         content.effects \subseteq Migration,
         content.applied \in Seq(Migration),
         content.issued \in Seq(1..minted),
         Len(content.issued) <= minted
  PROVE  Sound(content)
  BY DEF Sound, Content

LEMMA SeqGrows ==
  ASSUME NEW S, NEW T, S \subseteq T, NEW s \in Seq(S)
  PROVE  s \in Seq(T)
  OBVIOUS

\* A file stays sound while certificates are issued.
LEMMA SoundStands ==
  ASSUME minted \in Nat, minted' \in {minted, minted + 1},
         NEW content, Sound(content)
  PROVE  Sound(content)'
<1>1. CASE content \in {Missing, Empty}
  BY <1>1 DEF Sound, Content, Missing, Empty
<1>2. CASE content \notin {Missing, Empty}
  <2>1. content \in [file : {"database"}, status : BOOLEAN,
                     markers : SUBSET {SchemaVersion[r] : r \in Release},
                     effects : SUBSET Migration, applied : Seq(Migration),
                     issued : Seq(1..minted)]
    BY <1>2 DEF Sound, Content
  <2>2. 1..minted \subseteq 1..minted'
    OBVIOUS
  <2>3. content.issued \in Seq(1..minted)
    BY <2>1
  <2>4. content.issued \in Seq(1..minted')
    BY <2>2, <2>3
  <2>5. content \in [file : {"database"}, status : BOOLEAN,
                     markers : SUBSET {SchemaVersion[r] : r \in Release},
                     effects : SUBSET Migration, applied : Seq(Migration),
                     issued : Seq(1..minted')]
    BY <2>1, <2>4
  <2>6. Len(content.issued) <= minted'
    BY <1>2, <2>1, <2>3 DEF Sound
  <2> QED
    BY <2>5, <2>6 DEF Sound, Content
<1> QED
  BY <1>1, <1>2

(***************************************************************************)
(* The steps                                                               *)
(***************************************************************************)

Bootstraps(c) ==
  \/ Connect(c) \/ CreateTables(c) \/ ReadColumns(c) \/ AddColumn(c)
  \/ Mark(c) \/ CheckPlan(c) \/ NextMigration(c) \/ RunScript(c)
  \/ RecordMigration(c) \/ Close(c) \/ KillRequest(c)

Maintains(o) ==
  \/ \E name \in Seconds : BeginBackup(o, name)
  \/ CreateBackup(o) \/ CopyBackup(o) \/ FailBackup(o) \/ FinishBackup(o)
  \/ \E name \in Seconds, path \in Paths : BeginRestore(o, name, path)
  \/ CreateRestored(o) \/ CopyRestored(o) \/ FailRestore(o) \/ FinishRestore(o)
  \/ KillCommand(o)

LEMMA Steps ==
  ASSUME [Next]_vars
  PROVE  \/ \E c \in Connections : Bootstraps(c) \/ Issue(c)
         \/ \E o \in Operators : Maintains(o)
         \/ \E r \in Release, path \in Paths : Restart(r, path)
         \/ UNCHANGED vars
  BY DEF Next, Bootstraps, Maintains

\* A step of a connection's bootstrap leaves it as x and its file as content.
Leaves(c, x, content) ==
  /\ DOMAIN conn' = Connections /\ conn'[c] = x
  /\ \A other \in Connections : other # c => conn'[other] = conn[other]
  /\ DOMAIN file' = Paths /\ file'[serving] = content
  /\ \A path \in Paths : path # serving => file'[path] = file[path]

\* Of the schema of a database nothing is lost.
Extends(d, content) ==
  /\ content \notin {Missing, Empty}
  /\ d.status => content.status
  /\ d.markers \subseteq content.markers
  /\ d.effects \subseteq content.effects
  /\ Known(d.applied) \subseteq Known(content.applied)
  /\ Known(content.applied) \subseteq
       Known(d.applied) \cup Known(Plan[release])

\* Appending a migration to a history.
LEMMA KnownAppend ==
  ASSUME NEW applied \in Seq(Migration), NEW m
  PROVE  Known(Append(applied, m)) = Known(applied) \cup {m}
<1>1. applied \in Seq(Migration \cup {m})
  OBVIOUS
<1>2. /\ DOMAIN Append(applied, m) = 1..Len(applied) + 1
      /\ DOMAIN applied = 1..Len(applied) /\ Len(applied) \in Nat
      /\ \A i \in 1..Len(applied) : Append(applied, m)[i] = applied[i]
      /\ Append(applied, m)[Len(applied) + 1] = m
  BY <1>1
<1>3. 1..Len(applied) + 1 = 1..Len(applied) \cup {Len(applied) + 1}
  BY <1>2
<1> QED
  BY <1>2, <1>3 DEF Known

\* What every step of a bootstrap does to its connection and its file.
LEMMA BootstrapStep ==
  ASSUME Types, NEW c \in Connections, Bootstraps(c)
  PROVE  \E x, content :
           /\ Leaves(c, x, content)
           /\ UNCHANGED <<serving, release, served, maintained>>
           /\ \/ x = Closed
              \/ /\ ConnectionType(x)
                 /\ content # Missing
                 /\ x.pc # "tables" => content # Empty
           /\ Sound(content)
           /\ \/ content = db
              \/ db = Missing /\ content = Empty
              \/ db = Empty /\ content \notin {Missing, Empty}
              \/ db \notin {Missing, Empty} /\ Extends(db, content)
<1> DEFINE Shows(x, content) ==
             /\ Leaves(c, x, content)
             /\ UNCHANGED <<serving, release, served, maintained>>
             /\ \/ x = Closed
                \/ /\ ConnectionType(x)
                   /\ content # Missing
                   /\ x.pc # "tables" => content # Empty
             /\ Sound(content)
             /\ \/ content = db
                \/ db = Missing /\ content = Empty
                \/ db = Empty /\ content \notin {Missing, Empty}
                \/ db \notin {Missing, Empty} /\ Extends(db, content)
<1>1. PICK p : p = conn[c]
  OBVIOUS
<1>2. PICK d : d = db
  OBVIOUS
<1>3. /\ serving \in Paths /\ file[serving] = d /\ Sound(d)
      /\ DOMAIN conn = Connections /\ DOMAIN file = Paths
  BY <1>2 DEF Types, db
<1>4. p # Closed => /\ ConnectionType(p) /\ d # Missing
                    /\ p.pc # "tables" => d # Empty
  BY <1>1, <1>2 DEF Types
<1>5. Sound(Empty)
  BY DEF Sound, Content, Empty
<1>6. ASSUME UNCHANGED file, NEW x, conn' = [conn EXCEPT ![c] = x],
             \/ x = Closed
             \/ /\ ConnectionType(x) /\ d # Missing
                /\ x.pc # "tables" => d # Empty,
             UNCHANGED <<serving, release, served, maintained>>
      PROVE  Shows(x, d)
  <2>1. Leaves(c, x, d)
    BY <1>3, <1>6 DEF Leaves
  <2> QED
    BY <1>2, <1>3, <1>6, <2>1
<1>7. ASSUME NEW x, NEW content, Change(c, content, x),
             UNCHANGED <<serving, release, served, maintained>>
      PROVE  Leaves(c, x, content)
  BY <1>3, <1>7 DEF Leaves, Change
<1>8. d \notin {Missing, Empty} =>
        /\ d.file = "database"
        /\ DOMAIN d = {"file", "status", "markers", "effects", "applied",
                       "issued"}
        /\ d.status \in BOOLEAN
        /\ d.markers \subseteq {SchemaVersion[r] : r \in Release}
        /\ d.effects \subseteq Migration
        /\ d.applied \in Seq(Migration)
        /\ d.issued \in Seq(1..minted)
        /\ Len(d.issued) <= minted
  BY <1>3, DatabaseFields DEF Sound
<1>9. CASE Connect(c)
  <2>1. PICK x : x = Bootstrapping("tables", 1)
    OBVIOUS
  <2>2. ConnectionType(x) /\ x.pc = "tables"
    BY <2>1 DEF Bootstrapping, ConnectionType, Schema
  <2>3. PICK content : content = IF d = Missing THEN Empty ELSE d
    OBVIOUS
  <2>4. /\ conn' = [conn EXCEPT ![c] = x]
        /\ file' = [file EXCEPT ![serving] = content]
        /\ UNCHANGED <<serving, release, served, maintained>>
    BY <1>3, <1>9, <2>1, <2>3 DEF Connect
  <2>5. Leaves(c, x, content)
    BY <1>3, <2>4 DEF Leaves
  <2>6. content # Missing
    BY <2>3 DEF Missing, Empty
  <2> QED
    BY <1>2, <1>3, <1>5, <2>2, <2>3, <2>4, <2>5, <2>6
<1>10. CASE CreateTables(c)
  <2>1. PICK x : x = [p EXCEPT !.pc = "column"]
    OBVIOUS
  <2>2. p.pc = "tables" /\ p # Closed
    BY <1>1, <1>10 DEF CreateTables, Closed
  <2>3. ConnectionType(x)
    BY <1>4, <2>1, <2>2 DEF ConnectionType, Schema
  <2>4. CASE d = Empty
    <3>1. PICK content : content = Database(TRUE)
      OBVIOUS
    <3>2. Change(c, content, x) /\ UNCHANGED <<serving, release, served, maintained>>
      BY <1>1, <1>2, <1>10, <2>1, <2>4, <3>1 DEF CreateTables, Step
    <3>3. content.file = "database" /\ content \notin {Missing, Empty}
      BY <3>1 DEF Database, Missing, Empty
    <3>4. Sound(content)
      BY <3>1, DatabaseBuilt DEF Database, Sound, Content, Types
    <3> QED
      BY <1>2, <1>7, <2>3, <2>4, <3>2, <3>3, <3>4
  <2>5. CASE d # Empty
    <3>1. /\ UNCHANGED file /\ conn' = [conn EXCEPT ![c] = x]
          /\ UNCHANGED <<serving, release, served, maintained>>
      BY <1>1, <1>2, <1>10, <2>1, <2>5 DEF CreateTables, Step, Go
    <3> QED
      BY <1>4, <1>6, <2>2, <2>3, <2>5, <3>1
  <2> QED
    BY <2>4, <2>5
<1>11. CASE ReadColumns(c)
  <2>1. p.pc = "column" /\ p # Closed
    BY <1>1, <1>11 DEF ReadColumns, Closed
  <2>2. PICK x : x = [p EXCEPT !.pc = IF d.status THEN "marker" ELSE "alter"]
    OBVIOUS
  <2>3. ConnectionType(x)
    BY <1>4, <2>1, <2>2 DEF ConnectionType, Schema
  <2>4. /\ UNCHANGED file /\ conn' = [conn EXCEPT ![c] = x]
        /\ UNCHANGED <<serving, release, served, maintained>>
    BY <1>1, <1>2, <1>11, <2>2 DEF ReadColumns, Step, Go
  <2> QED
    BY <1>4, <1>6, <2>1, <2>3, <2>4
<1>12. ASSUME p # Closed, p.pc # "tables",
              Refuse(c), UNCHANGED <<serving, release, served, maintained>>
       PROVE  \E x, content : Shows(x, content)
  <2>1. PICK x : x = [p EXCEPT !.pc = "refused"]
    OBVIOUS
  <2>2. ConnectionType(x)
    BY <1>4, <1>12, <2>1 DEF ConnectionType, Schema
  <2>3. UNCHANGED file /\ conn' = [conn EXCEPT ![c] = x]
    BY <1>1, <1>12, <2>1 DEF Refuse, Step, Go
  <2> QED
    BY <1>4, <1>6, <1>12, <2>2, <2>3
<1>13. ASSUME p # Closed, p.pc # "tables", NEW pc \in Schema, NEW i \in Nat \ {0},
              pc \in {"script", "history"} => i \in DOMAIN Plan[release],
              NEW content, Change(c, content, [p EXCEPT !.pc = pc, !.i = i]),
              Sound(content), Extends(d, content),
              UNCHANGED <<serving, release, served, maintained>>
       PROVE  \E x : Shows(x, content)
  <2>1. PICK x : x = [p EXCEPT !.pc = pc, !.i = i]
    OBVIOUS
  <2>2. ConnectionType(x)
    BY <1>4, <1>13, <2>1 DEF ConnectionType
  <2>3. Leaves(c, x, content)
    BY <1>7, <1>13, <2>1
  <2> QED
    BY <1>2, <1>4, <1>13, <2>2, <2>3 DEF Extends
<1>14. CASE AddColumn(c)
  <2>1. /\ p.pc = "alter" /\ p # Closed
        /\ UNCHANGED <<serving, release, served, maintained>>
    BY <1>1, <1>14 DEF AddColumn, Closed
  <2>2. CASE d.status
    BY <1>2, <1>12, <1>14, <2>1, <2>2 DEF AddColumn
  <2>3. CASE ~ d.status
    <3>1. d \notin {Missing, Empty}
      BY <1>4, <2>1
    <3>2. PICK content : content = [d EXCEPT !.status = TRUE]
      OBVIOUS
    <3>3. /\ content.file = d.file /\ content.status = TRUE
          /\ content.markers = d.markers /\ content.effects = d.effects
          /\ content.applied = d.applied /\ content.issued = d.issued
          /\ content = [file |-> d.file, status |-> TRUE,
                        markers |-> d.markers, effects |-> d.effects,
                        applied |-> d.applied, issued |-> d.issued]
      BY <1>8, <3>1, <3>2
    <3>4. Sound(content)
      BY <1>8, <3>1, <3>3 DEF Sound, Content
    <3>5. Extends(d, content)
      BY <1>8, <3>1, <3>3 DEF Extends, Missing, Empty
    <3>6. Change(c, content, [p EXCEPT !.pc = "marker", !.i = p.i])
      <4>1. Change(c, content, [p EXCEPT !.pc = "marker"])
        BY <1>1, <1>2, <1>14, <2>3, <3>2 DEF AddColumn, Step
      <4>2. [p EXCEPT !.pc = "marker", !.i = p.i] = [p EXCEPT !.pc = "marker"]
        BY <1>4, <2>1 DEF ConnectionType
      <4> QED
        BY <4>1, <4>2
    <3> QED
      BY <1>4, <1>13, <2>1, <3>4, <3>5, <3>6 DEF ConnectionType, Schema
  <2> QED
    BY <2>2, <2>3
<1>15. CASE Mark(c)
  <2>1. /\ p.pc = "marker" /\ p # Closed
        /\ UNCHANGED <<serving, release, served, maintained>>
    BY <1>1, <1>15 DEF Mark, Closed
  <2>2. d \notin {Missing, Empty}
    BY <1>4, <2>1
  <2>3. PICK content :
          content = [d EXCEPT !.markers = d.markers \cup {SchemaVersion[release]}]
    OBVIOUS
  <2>4. /\ content.file = d.file /\ content.status = d.status
        /\ content.markers = d.markers \cup {SchemaVersion[release]}
        /\ content.effects = d.effects
        /\ content.applied = d.applied /\ content.issued = d.issued
        /\ content = [file |-> d.file, status |-> d.status,
                      markers |-> d.markers \cup {SchemaVersion[release]},
                      effects |-> d.effects,
                      applied |-> d.applied, issued |-> d.issued]
    BY <1>8, <2>2, <2>3
  <2>5. release \in Release
    BY DEF Types
  <2>6. Sound(content)
    BY <1>8, <2>2, <2>4, <2>5 DEF Sound, Content
  <2>7. Extends(d, content)
    BY <1>8, <2>2, <2>4 DEF Extends, Missing, Empty
  <2>8. Change(c, content, [p EXCEPT !.pc = "plan", !.i = p.i])
    <3>1. Change(c, content, [p EXCEPT !.pc = "plan"])
      BY <1>1, <1>2, <1>8, <1>15, <2>2, <2>3 DEF Mark, Step
    <3>2. [p EXCEPT !.pc = "plan", !.i = p.i] = [p EXCEPT !.pc = "plan"]
      BY <1>4, <2>1 DEF ConnectionType
    <3> QED
      BY <3>1, <3>2
  <2> QED
    BY <1>4, <1>13, <2>1, <2>6, <2>7, <2>8 DEF ConnectionType, Schema
<1>16. CASE CheckPlan(c)
  <2>1. /\ p.pc = "plan" /\ p # Closed
        /\ UNCHANGED <<serving, release, served, maintained>>
    BY <1>1, <1>16 DEF CheckPlan, Closed
  <2>2. PICK x : x = [p EXCEPT !.pc = "migration"]
    OBVIOUS
  <2>3. ConnectionType(x)
    BY <1>4, <2>1, <2>2 DEF ConnectionType, Schema
  <2>4. Refuse(c) \/ (UNCHANGED file /\ conn' = [conn EXCEPT ![c] = x])
    BY <1>1, <1>16, <2>2 DEF CheckPlan, Step, Go
  <2> QED
    BY <1>4, <1>6, <1>12, <2>1, <2>3, <2>4
<1>17. CASE NextMigration(c)
  <2>1. /\ p.pc = "migration" /\ p # Closed
        /\ UNCHANGED <<file, serving, release, served, maintained>>
    BY <1>1, <1>17 DEF NextMigration, Closed
  <2>2. PICK x : /\ conn' = [conn EXCEPT ![c] = x]
                 /\ \/ x = Bootstrapping("open", p.i)
                    \/ x = [p EXCEPT !.i = p.i + 1]
                    \/ /\ ~ p.i > Len(Plan[release])
                       /\ x = [p EXCEPT !.pc = "script"]
    BY <1>1, <1>3, <1>17 DEF NextMigration, Step
  <2>3. ~ p.i > Len(Plan[release]) => p.i \in DOMAIN Plan[release]
    BY <1>4, <2>1, PlanFacts DEF ConnectionType, Types
  <2>4. ConnectionType(x) /\ x.pc # "tables"
    BY <1>4, <2>1, <2>2, <2>3 DEF ConnectionType, Schema, Bootstrapping
  <2> QED
    BY <1>4, <1>6, <2>1, <2>2, <2>4
<1>18. CASE RunScript(c)
  <2>1. /\ p.pc = "script" /\ p # Closed
        /\ UNCHANGED <<serving, release, served, maintained>>
    BY <1>1, <1>18 DEF RunScript, Closed
  <2>2. PICK m : m = Plan[release][p.i]
    OBVIOUS
  <2>3. CASE m \in d.effects \ Repeatable
    BY <1>1, <1>2, <1>12, <1>18, <2>1, <2>2, <2>3 DEF RunScript
  <2>4. CASE m \notin d.effects \ Repeatable
    <3>1. d \notin {Missing, Empty}
      BY <1>4, <2>1
    <3>2. PICK content : content = [d EXCEPT !.effects = d.effects \cup {m}]
      OBVIOUS
    <3>3. /\ content.file = d.file /\ content.status = d.status
          /\ content.markers = d.markers
          /\ content.effects = d.effects \cup {m}
          /\ content.applied = d.applied /\ content.issued = d.issued
          /\ content = [file |-> d.file, status |-> d.status,
                        markers |-> d.markers,
                        effects |-> d.effects \cup {m},
                        applied |-> d.applied, issued |-> d.issued]
      BY <1>8, <3>1, <3>2
    <3>4. m \in Migration
      BY <1>4, <2>1, <2>2, PlanFacts DEF Types, ConnectionType
    <3>5. Sound(content)
      BY <1>8, <3>1, <3>3, <3>4 DEF Sound, Content
    <3>6. Extends(d, content)
      BY <1>8, <3>1, <3>3 DEF Extends, Missing, Empty
    <3>7. Change(c, content, [p EXCEPT !.pc = "history", !.i = p.i])
      <4>1. Change(c, content, [p EXCEPT !.pc = "history"])
        BY <1>1, <1>2, <1>8, <1>18, <2>2, <2>4, <3>1, <3>2 DEF RunScript, Step
      <4>2. [p EXCEPT !.pc = "history", !.i = p.i] = [p EXCEPT !.pc = "history"]
        BY <1>4, <2>1 DEF ConnectionType
      <4> QED
        BY <4>1, <4>2
    <3> QED
      BY <1>4, <1>13, <2>1, <3>5, <3>6, <3>7 DEF ConnectionType, Schema
  <2> QED
    BY <2>3, <2>4
<1>19. CASE RecordMigration(c)
  <2>1. /\ p.pc = "history" /\ p # Closed
        /\ UNCHANGED <<serving, release, served, maintained>>
    BY <1>1, <1>19 DEF RecordMigration, Closed
  <2>2. PICK m : m = Plan[release][p.i]
    OBVIOUS
  <2>3. CASE m \in Known(d.applied)
    BY <1>1, <1>2, <1>12, <1>19, <2>1, <2>2, <2>3 DEF RecordMigration
  <2>4. CASE m \notin Known(d.applied)
    <3>1. d \notin {Missing, Empty}
      BY <1>4, <2>1
    <3>2. PICK content : content = [d EXCEPT !.applied = Append(d.applied, m)]
      OBVIOUS
    <3>3. /\ content.file = d.file /\ content.status = d.status
          /\ content.markers = d.markers
          /\ content.effects = d.effects
          /\ content.applied = Append(d.applied, m)
          /\ content.issued = d.issued
          /\ content = [file |-> d.file, status |-> d.status,
                        markers |-> d.markers, effects |-> d.effects,
                        applied |-> Append(d.applied, m),
                        issued |-> d.issued]
      BY <1>8, <3>1, <3>2
    <3>4. m \in Migration /\ m \in Known(Plan[release])
      BY <1>4, <2>1, <2>2, PlanFacts DEF Types, ConnectionType, Known
    <3>5. Append(d.applied, m) \in Seq(Migration)
      BY <1>8, <3>1, <3>4
    <3>6. Sound(content)
      BY <1>8, <3>1, <3>3, <3>5 DEF Sound, Content
    <3>7. Extends(d, content)
      BY <1>8, <3>1, <3>3, <3>4, KnownAppend DEF Extends, Missing, Empty
    <3>8. Change(c, content, [p EXCEPT !.pc = "migration", !.i = p.i + 1])
      BY <1>1, <1>2, <1>8, <1>19, <2>2, <2>4, <3>1, <3>2
         DEF RecordMigration, Step
    <3>9. p.i + 1 \in Nat \ {0} /\ "migration" \in Schema
      BY <1>4, <2>1 DEF ConnectionType, Schema
    <3> QED
      BY <1>13, <2>1, <3>6, <3>7, <3>8, <3>9
  <2> QED
    BY <2>3, <2>4
<1>20. CASE Close(c) \/ KillRequest(c)
  <2>1. /\ UNCHANGED file /\ conn' = [conn EXCEPT ![c] = Closed]
        /\ UNCHANGED <<serving, release, served, maintained>>
    BY <1>20 DEF Close, KillRequest
  <2> QED
    BY <1>6, <2>1
<1> QED
  BY <1>9, <1>10, <1>11, <1>14, <1>15, <1>16, <1>17, <1>18, <1>19, <1>20
     DEF Bootstraps

\* A release adds a row to the file and a PDF, and closes its connection.
LEMMA IssueStep ==
  ASSUME Types, NEW c \in Connections, Issue(c)
  PROVE  \E content :
           /\ Leaves(c, Closed, content)
           /\ UNCHANGED <<serving, release, maintained>>
           /\ minted' = minted + 1 /\ minted < MaxIssued
           /\ Sound(content)'
           /\ db \notin {Missing, Empty} /\ Extends(db, content)
           /\ content.applied = db.applied /\ content.effects = db.effects
           /\ \E number \in 1..MaxIssued :
                /\ number \notin DOMAIN pdf
                /\ pdf' = With(pdf, number, minted + 1)
                /\ answered' = answered \cup {<<number, minted + 1>>}
<1>1. PICK p : p = conn[c]
  OBVIOUS
<1>2. PICK d : d = db
  OBVIOUS
<1>3. /\ serving \in Paths /\ file[serving] = d /\ Sound(d)
      /\ DOMAIN conn = Connections /\ DOMAIN file = Paths
      /\ minted \in Nat /\ MaxIssued \in Nat
  BY <1>2, InstallationAssumption DEF Types, db
<1>4. p.pc = "open" /\ p # Closed
  BY <1>1 DEF Issue, Closed
<1>5. d \notin {Missing, Empty}
  BY <1>1, <1>2, <1>4 DEF Types
<1>6. /\ d.file = "database"
      /\ DOMAIN d = {"file", "status", "markers", "effects", "applied",
                     "issued"}
      /\ d.status \in BOOLEAN
      /\ d.markers \subseteq {SchemaVersion[r] : r \in Release}
      /\ d.effects \subseteq Migration
      /\ d.applied \in Seq(Migration)
      /\ d.issued \in Seq(1..minted)
      /\ Len(d.issued) <= minted
  BY <1>3, <1>5, DatabaseFields DEF Sound
<1>7. PICK issued : issued = Append(d.issued, minted + 1)
  OBVIOUS
<1>8. issued \in Seq(1..minted + 1) /\ Len(issued) <= minted + 1
  <2>1. 1..minted \subseteq 1..minted + 1 /\ minted + 1 \in 1..minted + 1
    BY <1>3
  <2>2. d.issued \in Seq(1..minted + 1)
    BY <1>6, <2>1, SeqGrows
  <2> QED
    BY <1>3, <1>6, <1>7, <2>1, <2>2
<1>9. PICK content : content = [d EXCEPT !.issued = issued]
  OBVIOUS
<1>10. /\ content.file = d.file /\ content.status = d.status
       /\ content.markers = d.markers /\ content.effects = d.effects
       /\ content.applied = d.applied /\ content.issued = issued
       /\ content = [file |-> d.file, status |-> d.status,
                     markers |-> d.markers, effects |-> d.effects,
                     applied |-> d.applied, issued |-> issued]
  BY <1>6, <1>9
<1>11. /\ minted' = minted + 1 /\ minted < MaxIssued
       /\ UNCHANGED <<serving, release, maintained>>
       /\ conn' = [conn EXCEPT ![c] = Closed]
  BY DEF Issue
<1>12. file' = [file EXCEPT ![serving] = content]
  <2>1. file' = [file EXCEPT ![serving].issued = Append(@, minted + 1)]
    BY DEF Issue
  <2>2. file' = [file EXCEPT ![serving] =
                   [file[serving] EXCEPT !.issued =
                      Append(file[serving].issued, minted + 1)]]
    BY <2>1
  <2> QED
    BY <1>3, <1>7, <1>9, <2>2
<1>13. Sound(content)'
  BY <1>6, <1>8, <1>10, <1>11 DEF Sound, Content
<1>14. Extends(d, content)
  BY <1>6, <1>10 DEF Extends, Missing, Empty
<1>15. Leaves(c, Closed, content)
  BY <1>3, <1>11, <1>12 DEF Leaves
<1>16. PICK number : number = Len(d.issued) + 1
  OBVIOUS
<1>17. /\ number \in 1..MaxIssued /\ number \notin DOMAIN pdf
       /\ pdf' = With(pdf, number, minted + 1)
       /\ answered' = answered \cup {<<number, minted + 1>>}
  <2>1. number = NextNumber
    BY <1>2, <1>16 DEF NextNumber
  <2>2. number \in 1..MaxIssued
    BY <1>3, <1>6, <1>11, <1>16
  <2> QED
    BY <2>1, <2>2 DEF Issue
<1> QED
  BY <1>2, <1>5, <1>10, <1>11, <1>13, <1>14, <1>15, <1>17

\* Maintenance leaves the API and the file it serves alone; what it writes is
\* a copy or nothing.
Contents ==
  {file[path] : path \in Paths} \cup {backup[name] : name \in Seconds}
    \cup {Missing, Empty}

LEMMA MaintenanceStep ==
  ASSUME Types, NEW o \in Operators, Maintains(o)
  PROVE  /\ UNCHANGED <<serving, release, conn, served>>
         /\ DOMAIN file' = Paths /\ file'[serving] = file[serving]
         /\ \A path \in Paths : file'[path] \in Contents
         /\ DOMAIN backup' = Seconds
         /\ \A name \in Seconds : backup'[name] \in Contents
         /\ \E x : /\ op' = [op EXCEPT ![o] = x]
                   /\ x = Idle \/ CommandType(x)
         /\ DOMAIN copied' = Seconds
         /\ \A name \in Seconds : /\ DOMAIN copied'[name] = {"begun", "contents"}
                                  /\ copied'[name].begun \in Nat
<1> DEFINE Goal ==
      /\ UNCHANGED <<serving, release, conn, served>>
      /\ DOMAIN file' = Paths /\ file'[serving] = file[serving]
      /\ \A path \in Paths : file'[path] \in Contents
      /\ DOMAIN backup' = Seconds
      /\ \A name \in Seconds : backup'[name] \in Contents
      /\ \E x : /\ op' = [op EXCEPT ![o] = x]
                /\ x = Idle \/ CommandType(x)
      /\ DOMAIN copied' = Seconds
      /\ \A name \in Seconds : /\ DOMAIN copied'[name] = {"begun", "contents"}
                               /\ copied'[name].begun \in Nat
<1>1. PICK p : p = op[o]
  OBVIOUS
<1>2. /\ DOMAIN file = Paths /\ DOMAIN backup = Seconds
      /\ DOMAIN copied = Seconds /\ serving \in Paths
      /\ \A path \in Paths : file[path] \in Contents
      /\ \A name \in Seconds : backup[name] \in Contents
      /\ {Missing, Empty} \subseteq Contents
      /\ \A name \in Seconds : /\ DOMAIN copied[name] = {"begun", "contents"}
                               /\ copied[name].begun \in Nat
  BY DEF Types, Contents
<1>3. p = Idle \/ CommandType(p)
  BY <1>1 DEF Types
<1>4. /\ p.pc \in BackingUp =>
           /\ DOMAIN p = {"pc", "name"} /\ p.name \in Seconds
           /\ \A pc \in BackingUp : CommandType([p EXCEPT !.pc = pc])
      /\ p.pc \in Restoring =>
           /\ p.path \in Paths \ {serving} /\ p.name \in Seconds
           /\ \A pc \in Restoring : CommandType([p EXCEPT !.pc = pc])
  BY <1>3 DEF CommandType, BackingUp, Restoring, Idle
<1>5. ASSUME NEW name \in Seconds, BeginBackup(o, name) PROVE Goal
  <2>1. PICK x : x = [pc |-> "backup", name |-> name]
    OBVIOUS
  <2>2. CommandType(x)
    BY <2>1 DEF CommandType, BackingUp
  <2>3. op' = [op EXCEPT ![o] = x]
    BY <1>5, <2>1 DEF BeginBackup, Do
  <2>4. /\ DOMAIN copied' = Seconds
        /\ \A n \in Seconds : /\ DOMAIN copied'[n] = {"begun", "contents"}
                              /\ copied'[n].begun \in Nat
    BY <1>2, <1>5 DEF BeginBackup
  <2> QED
    BY <1>2, <1>5, <2>2, <2>3, <2>4 DEF BeginBackup
<1>6. CASE CreateBackup(o)
  BY <1>1, <1>2, <1>4, <1>6 DEF CreateBackup, Do, BackingUp
<1>7. CASE CopyBackup(o)
  <2>1. p.pc = "copy" /\ p.name \in Seconds
    BY <1>1, <1>4, <1>7 DEF CopyBackup, BackingUp
  <2>2. CommandType([p EXCEPT !.pc = "verify"])
    BY <1>4, <2>1 DEF BackingUp
  <2>3. op' = [op EXCEPT ![o] = [p EXCEPT !.pc = "verify"]]
    BY <1>1, <1>7 DEF CopyBackup, Do
  <2>4. /\ DOMAIN backup' = Seconds
        /\ \A name \in Seconds : backup'[name] \in Contents
    BY <1>1, <1>2, <1>7 DEF CopyBackup, db
  <2>5. /\ DOMAIN copied' = Seconds
        /\ \A name \in Seconds : /\ DOMAIN copied'[name] = {"begun", "contents"}
                                 /\ copied'[name].begun \in Nat
    BY <1>1, <1>2, <1>7, <2>1 DEF CopyBackup
  <2> QED
    BY <1>2, <1>7, <2>2, <2>3, <2>4, <2>5 DEF CopyBackup
<1>8. CASE FailBackup(o)
  BY <1>1, <1>2, <1>8 DEF FailBackup, Do
<1>9. CASE FinishBackup(o)
  BY <1>1, <1>2, <1>9 DEF FinishBackup, Do
<1>10. ASSUME NEW name \in Seconds, NEW path \in Paths,
              BeginRestore(o, name, path)
       PROVE  Goal
  <2>1. PICK x : x = [pc |-> "restore", name |-> name, path |-> path,
                      sha |-> backup[name]]
    OBVIOUS
  <2>2. CommandType(x)
    BY <1>10, <2>1 DEF BeginRestore, CommandType, Restoring
  <2> QED
    BY <1>2, <1>10, <2>1, <2>2 DEF BeginRestore, Do
<1>11. CASE CreateRestored(o)
  BY <1>1, <1>2, <1>4, <1>11 DEF CreateRestored, Do, Restoring
<1>12. CASE CopyRestored(o)
  BY <1>1, <1>2, <1>4, <1>12 DEF CopyRestored, Do, Restoring
<1>13. CASE FailRestore(o)
  BY <1>1, <1>2, <1>4, <1>13 DEF FailRestore, Do, Restoring
<1>14. CASE FinishRestore(o)
  BY <1>1, <1>2, <1>14 DEF FinishRestore, Do
<1>15. CASE KillCommand(o)
  BY <1>2, <1>15 DEF KillCommand, Do
<1> QED
  BY <1>5, <1>6, <1>7, <1>8, <1>9, <1>10, <1>11, <1>12, <1>13, <1>14, <1>15
     DEF Maintains

(***************************************************************************)
(* Types                                                                   *)
(***************************************************************************)

FilesType ==
  /\ DOMAIN file = Paths /\ \A path \in Paths : Sound(file[path])
  /\ DOMAIN backup = Seconds /\ \A name \in Seconds : Sound(backup[name])
  /\ serving \in Paths /\ release \in Release
  /\ minted \in Nat /\ minted <= MaxIssued
  /\ DOMAIN pdf \subseteq 1..MaxIssued
  /\ \A number \in DOMAIN pdf : pdf[number] \in 1..minted
  /\ DOMAIN copied = Seconds
  /\ \A name \in Seconds :
       /\ DOMAIN copied[name] = {"begun", "contents"}
       /\ copied[name].begun \in Nat

ConnectionsType ==
  /\ DOMAIN conn = Connections
  /\ \A c \in Connections :
       \/ conn[c] = Closed
       \/ /\ ConnectionType(conn[c])
          /\ db # Missing
          /\ conn[c].pc # "tables" => db # Empty

CommandsType ==
  /\ DOMAIN op = Operators
  /\ \A o \in Operators : op[o] = Idle \/ CommandType(op[o])

LEMMA TypesParts == Types <=> FilesType /\ ConnectionsType /\ CommandsType
  BY DEF Types, FilesType, ConnectionsType, CommandsType

\* Connections whose file is changed by another keep their types.
LEMMA OthersStayTyped ==
  ASSUME Types, NEW c \in Connections, NEW x, NEW content,
         Leaves(c, x, content), UNCHANGED <<serving, release>>,
         \/ x = Closed
         \/ /\ ConnectionType(x)
            /\ content # Missing
            /\ x.pc # "tables" => content # Empty,
         \/ content = db
         \/ db = Missing /\ content = Empty
         \/ db = Empty /\ content \notin {Missing, Empty}
         \/ db \notin {Missing, Empty} /\ content \notin {Missing, Empty}
  PROVE  ConnectionsType'
<1>1. db' = content /\ DOMAIN conn' = Connections
  BY DEF Leaves, db
<1>2. ASSUME NEW other \in Connections
      PROVE  \/ conn'[other] = Closed
             \/ /\ ConnectionType(conn[other])'
                /\ db' # Missing
                /\ conn'[other].pc # "tables" => db' # Empty
  <2>1. CASE other = c
    <3>1. conn'[other] = x
      BY <2>1 DEF Leaves
    <3> QED
      BY <1>1, <3>1 DEF ConnectionType
  <2>2. CASE other # c
    <3>1. conn'[other] = conn[other]
      BY <2>2 DEF Leaves
    <3>2. \/ conn[other] = Closed
          \/ /\ ConnectionType(conn[other])
             /\ db # Missing
             /\ conn[other].pc # "tables" => db # Empty
      BY DEF Types
    <3>3. ASSUME ConnectionType(conn[other])
          PROVE  ConnectionType(conn[other])'
      BY <3>1, <3>3 DEF ConnectionType
    <3> QED
      BY <1>1, <3>1, <3>2, <3>3
  <2> QED
    BY <2>1, <2>2
<1> QED
  BY <1>1, <1>2 DEF ConnectionsType

LEMMA CommandsStayTyped ==
  ASSUME Types, UNCHANGED serving,
         UNCHANGED op \/ \E o \in Operators : \E x :
                           /\ op' = [op EXCEPT ![o] = x]
                           /\ x = Idle \/ CommandType(x)
  PROVE  CommandsType'
<1>1. ASSUME NEW o \in Operators PROVE op'[o] = Idle \/ CommandType(op[o])'
  <2>1. PICK x : x = op'[o]
    OBVIOUS
  <2>2. x = Idle \/ CommandType(x)
    BY <2>1 DEF Types
  <2> QED
    BY <2>1, <2>2 DEF CommandType
<1> QED
  BY <1>1 DEF CommandsType, Types

LEMMA TypesStay ==
  ASSUME Types, [Next]_vars
  PROVE  Types'
<1>1. minted \in Nat
  BY DEF Types
<1>2. ASSUME NEW c \in Connections, Bootstraps(c) PROVE Types'
  <2>1. PICK x, content :
          /\ Leaves(c, x, content)
          /\ UNCHANGED <<serving, release, served, maintained>>
          /\ \/ x = Closed
             \/ /\ ConnectionType(x)
                /\ content # Missing
                /\ x.pc # "tables" => content # Empty
          /\ Sound(content)
          /\ \/ content = db
             \/ db = Missing /\ content = Empty
             \/ db = Empty /\ content \notin {Missing, Empty}
             \/ db \notin {Missing, Empty} /\ Extends(db, content)
    BY <1>2, BootstrapStep
  <2>2. UNCHANGED <<serving, release, pdf, minted, backup, op, copied>>
    BY <2>1 DEF served, maintained
  <2>3. ConnectionsType'
    BY <2>1, <2>2, OthersStayTyped DEF Extends
  <2>4. CommandsType'
    BY <2>2, CommandsStayTyped
  <2>5. \A path \in Paths : Sound(file[path])'
    <3>1. ASSUME NEW path \in Paths PROVE Sound(file[path])'
      <4>1. PICK new : new = file'[path]
        OBVIOUS
      <4>2. Sound(new)
        BY <2>1, <4>1 DEF Leaves, Types
      <4>3. Sound(new)'
        BY <1>1, <2>2, <4>2, SoundStands
      <4> QED
        BY <4>1, <4>3 DEF Sound, Content
    <3> QED
      BY <3>1
  <2>6. \A name \in Seconds : Sound(backup[name])'
    <3>1. ASSUME NEW name \in Seconds PROVE Sound(backup[name])'
      BY <2>2 DEF Types, Sound, Content
    <3> QED
      BY <3>1
  <2>7. FilesType'
    BY <2>1, <2>2, <2>5, <2>6 DEF FilesType, Leaves, Types
  <2>8. (Types <=> FilesType /\ ConnectionsType /\ CommandsType)'
    BY TypesParts, PTL
  <2> QED
    BY <2>3, <2>4, <2>7, <2>8
<1>3. ASSUME NEW c \in Connections, Issue(c) PROVE Types'
  <2>1. PICK content :
          /\ Leaves(c, Closed, content)
          /\ UNCHANGED <<serving, release, maintained>>
          /\ minted' = minted + 1 /\ minted < MaxIssued
          /\ Sound(content)'
          /\ db \notin {Missing, Empty} /\ Extends(db, content)
          /\ \E number \in 1..MaxIssued :
               /\ pdf' = With(pdf, number, minted + 1)
    BY <1>3, IssueStep
  <2>2. UNCHANGED <<backup, op, copied>>
    BY <2>1 DEF maintained
  <2>3. ConnectionsType'
    BY <2>1, OthersStayTyped DEF Extends
  <2>4. CommandsType'
    BY <2>1, <2>2, CommandsStayTyped
  <2>5. ASSUME NEW path \in Paths PROVE Sound(file[path])'
    <3>1. PICK new : new = file'[path]
      OBVIOUS
    <3>2. CASE path = serving
      BY <2>1, <3>1, <3>2 DEF Leaves, Sound, Content
    <3>3. CASE path # serving
      <4>1. Sound(new)
        BY <2>1, <3>1, <3>3 DEF Leaves, Types
      <4>2. Sound(new)'
        BY <1>1, <2>1, <4>1, SoundStands
      <4> QED
        BY <3>1, <4>2 DEF Sound, Content
    <3> QED
      BY <3>2, <3>3
  <2>6. ASSUME NEW name \in Seconds PROVE Sound(backup[name])'
    <3>1. PICK old : old = backup[name]
      OBVIOUS
    <3>2. Sound(old)'
      BY <1>1, <2>1, <3>1, SoundStands DEF Types
    <3>3. old = backup'[name]
      BY <2>2, <3>1
    <3> QED
      BY <3>2, <3>3 DEF Sound, Content
  <2>7. /\ DOMAIN pdf' \subseteq 1..MaxIssued
        /\ \A number \in DOMAIN pdf' : pdf'[number] \in 1..minted'
    BY <1>1, <2>1 DEF Types, With
  <2>8. minted' \in Nat /\ minted' <= MaxIssued
    BY <1>1, <2>1, InstallationAssumption
  <2>9. FilesType'
    BY <2>1, <2>2, <2>5, <2>6, <2>7, <2>8 DEF FilesType, Leaves, Types
  <2>10. (Types <=> FilesType /\ ConnectionsType /\ CommandsType)'
    BY TypesParts, PTL
  <2> QED
    BY <2>3, <2>4, <2>9, <2>10
<1>4. ASSUME NEW o \in Operators, Maintains(o) PROVE Types'
  <2>1. /\ UNCHANGED <<serving, release, conn, pdf, minted>>
        /\ DOMAIN file' = Paths /\ file'[serving] = file[serving]
        /\ \A path \in Paths : file'[path] \in Contents
        /\ DOMAIN backup' = Seconds
        /\ \A name \in Seconds : backup'[name] \in Contents
        /\ \E x : /\ op' = [op EXCEPT ![o] = x]
                  /\ x = Idle \/ CommandType(x)
        /\ DOMAIN copied' = Seconds
        /\ \A name \in Seconds : /\ DOMAIN copied'[name] = {"begun", "contents"}
                                 /\ copied'[name].begun \in Nat
    BY <1>4, MaintenanceStep DEF served
  <2>2. ASSUME NEW content \in Contents PROVE Sound(content)'
    <3>1. Sound(content)
      BY DEF Contents, Types, Sound, Content, Missing, Empty
    <3> QED
      BY <1>1, <2>1, <3>1, SoundStands
  <2>3. CommandsType'
    BY <2>1, CommandsStayTyped
  <2>4. ConnectionsType'
    BY <2>1 DEF ConnectionsType, ConnectionType, Types, db
  <2>5. ASSUME NEW path \in Paths PROVE Sound(file[path])'
    <3>1. PICK new \in Contents : new = file'[path]
      BY <2>1
    <3>2. Sound(new)'
      BY <2>2
    <3> QED
      BY <3>1, <3>2 DEF Sound, Content
  <2>6. ASSUME NEW name \in Seconds PROVE Sound(backup[name])'
    <3>1. PICK new \in Contents : new = backup'[name]
      BY <2>1
    <3>2. Sound(new)'
      BY <2>2
    <3> QED
      BY <3>1, <3>2 DEF Sound, Content
  <2>7. FilesType'
    BY <2>1, <2>5, <2>6 DEF FilesType, Types
  <2>8. (Types <=> FilesType /\ ConnectionsType /\ CommandsType)'
    BY TypesParts, PTL
  <2> QED
    BY <2>3, <2>4, <2>7, <2>8
<1>5. ASSUME NEW r \in Release, NEW path \in Paths, Restart(r, path)
      PROVE  Types'
  BY <1>5
     DEF Restart, Types, Sound, Content, served, maintained, CommandType, Idle
<1>6. CASE UNCHANGED vars
  BY <1>6
     DEF vars, Types, Sound, Content, ConnectionType, CommandType, db
<1> QED
  BY <1>2, <1>3, <1>4, <1>5, <1>6, Steps

LEMMA TypesHold == Spec => []Types
<1>1. Init => Types
  <2> SUFFICES ASSUME Init PROVE Types
    OBVIOUS
  <2>1. PICK first \in {Missing, Legacy} :
          file = [path \in Paths |-> IF path = Live THEN first ELSE Missing]
    BY DEF Init
  <2>2. Sound(Missing)
    BY DEF Sound, Content, Missing
  <2>3. Sound(Legacy)
    <3>1. Legacy.file = "database" /\ Legacy.issued = <<>>
      BY DEF Legacy, Database
    <3> QED
      BY <3>1, DatabaseBuilt DEF Legacy, Database, Sound, Content, Init
  <2>4. \A path \in Paths : Sound(file[path])
    BY <2>1, <2>2, <2>3
  <2> QED
    BY <2>1, <2>2, <2>4, PlanFacts, InstallationAssumption DEF Init, Types
<1>2. Types /\ [Next]_vars => Types'
  BY TypesStay
<1> QED
  BY <1>1, <1>2, PTL DEF Spec

\* Files are missing, empty or databases, a bootstrap past its first step has a
\* database under it, and every PDF is of a certificate that was issued, for any
\* files, releases, connections and commands.
THEOREM TypeCorrect == Spec => []TypeOK
<1>1. Types => TypeOK
  BY DEF Types, TypeOK, Sound
<1> QED
  BY <1>1, TypesHold, PTL

(***************************************************************************)
(* The schema                                                              *)
(***************************************************************************)

LEMMA Prefix ==
  ASSUME NEW S, NEW plan \in Seq(S), NEW n \in 0..Len(plan)
  PROVE  /\ SubSeq(plan, 1, n) \in Seq(S)
         /\ Len(SubSeq(plan, 1, n)) = n
         /\ \A k \in 1..n : SubSeq(plan, 1, n)[k] = plan[k]
  OBVIOUS

LEMMA IsPrefix ==
  ASSUME NEW S, NEW plan \in Seq(S), NEW s \in Seq(S),
         Len(s) <= Len(plan), \A k \in 1..Len(s) : s[k] = plan[k]
  PROVE  s = SubSeq(plan, 1, Len(s))
<1>1. SubSeq(plan, 1, Len(s)) \in Seq(S) /\ Len(SubSeq(plan, 1, Len(s))) = Len(s)
  OBVIOUS
<1>2. \A k \in 1..Len(s) : SubSeq(plan, 1, Len(s))[k] = s[k]
  OBVIOUS
<1> QED
  BY <1>1, <1>2

\* A migration the plan comes to that is not recorded is the next of the
\* history, whichever release the history is of; at most it ran already.
LEMMA NextInHistory ==
  ASSUME NEW r \in Release, NEW i \in DOMAIN Plan[r], NEW d,
         d.file = "database", d.applied \in Seq(Migration), Follows(d),
         Known(d.applied) \subseteq Known(Plan[r]),
         \A j \in DOMAIN Plan[r] : j < i => Plan[r][j] \in Known(d.applied),
         Plan[r][i] \notin Known(d.applied)
  PROVE  /\ Len(d.applied) = i - 1
         /\ \A k \in 1..i - 1 : d.applied[k] = Plan[r][k]
         /\ d.effects \in {Known(d.applied), Known(d.applied) \cup {Plan[r][i]}}
<1>1. PICK n \in Nat : n = Len(d.applied) /\ DOMAIN d.applied = 1..n
  OBVIOUS
<1>2. PICK s \in Release :
        /\ n <= Len(Plan[s])
        /\ d.applied = SubSeq(Plan[s], 1, n)
        /\ d.effects \in
             {Known(d.applied),
              {Plan[s][k] : k \in DOMAIN Plan[s] \cap 1..n + 1}}
  BY <1>1 DEF Follows
<1>3. /\ Plan[s] \in Seq(Migration) /\ DOMAIN Plan[s] = 1..Len(Plan[s])
      /\ DOMAIN Plan[r] = 1..Len(Plan[r])
      /\ Len(Plan[s]) \in Nat /\ Len(Plan[r]) \in Nat
  BY PlanFacts
<1>4. \A k \in 1..n : d.applied[k] = Plan[s][k] /\ k \in DOMAIN Plan[s]
  BY <1>1, <1>2, <1>3, Prefix
<1>5. \A k \in DOMAIN Plan[r] \cap DOMAIN Plan[s] : Plan[r][k] = Plan[s][k]
  BY PlansAssumption
<1>6. n < i
  <2> SUFFICES ASSUME i <= n PROVE FALSE
    BY <1>1, <1>3
  <2>1. i \in 1..n
    BY <1>1, <1>3
  <2>2. d.applied[i] = Plan[r][i]
    BY <1>4, <1>5, <2>1
  <2> QED
    BY <1>1, <2>1, <2>2 DEF Known
<1>7. n >= i - 1
  <2> SUFFICES ASSUME n + 1 < i PROVE FALSE
    BY <1>1, <1>3
  <2>1. n + 1 \in DOMAIN Plan[r]
    BY <1>1, <1>3
  <2>2. PICK k \in 1..n : d.applied[k] = Plan[r][n + 1]
    BY <1>1, <2>1 DEF Known
  <2>3. k \in DOMAIN Plan[r] \cap DOMAIN Plan[s]
    BY <1>1, <1>3, <1>4, <2>2
  <2>4. Plan[r][k] = Plan[r][n + 1]
    BY <1>4, <1>5, <2>2, <2>3
  <2>5. k = n + 1
    BY <2>1, <2>3, <2>4, PlansAssumption
  <2> QED
    BY <1>1, <2>2, <2>5
<1>8. n = i - 1
  BY <1>1, <1>3, <1>6, <1>7
<1>9. \A k \in 1..i - 1 : d.applied[k] = Plan[r][k]
  <2>1. \A k \in 1..n : k \in DOMAIN Plan[r]
    BY <1>1, <1>3, <1>8
  <2> QED
    BY <1>4, <1>5, <1>8, <2>1
<1>10. Known(d.applied) = {Plan[s][k] : k \in 1..n}
  BY <1>1, <1>4 DEF Known
<1>11. d.effects \in {Known(d.applied), Known(d.applied) \cup {Plan[r][i]}}
  <2>1. CASE n + 1 \in DOMAIN Plan[s]
    <3>1. DOMAIN Plan[s] \cap 1..n + 1 = 1..n \cup {n + 1}
      BY <1>1, <1>3, <2>1
    <3>2. Plan[s][n + 1] = Plan[r][i]
      BY <1>1, <1>3, <1>5, <1>8, <2>1
    <3> QED
      BY <1>2, <1>10, <3>1, <3>2
  <2>2. CASE n + 1 \notin DOMAIN Plan[s]
    <3>1. DOMAIN Plan[s] \cap 1..n + 1 = 1..n
      BY <1>1, <1>2, <1>3, <2>2
    <3> QED
      BY <1>2, <1>10, <3>1
  <2> QED
    BY <2>1, <2>2
<1> QED
  BY <1>1, <1>8, <1>9, <1>11

\* Running the next migration, or recording the one that ran, is a history too.
LEMMA HistoryGrows ==
  ASSUME NEW r \in Release, NEW i \in DOMAIN Plan[r], NEW d, NEW content,
         d.file = "database", d.applied \in Seq(Migration), Follows(d),
         Known(d.applied) \subseteq Known(Plan[r]),
         \A j \in DOMAIN Plan[r] : j < i => Plan[r][j] \in Known(d.applied),
         \/ /\ content.applied = d.applied
            /\ content.effects = d.effects \cup {Plan[r][i]}
         \/ /\ Plan[r][i] \notin Known(d.applied)
            /\ Plan[r][i] \in d.effects
            /\ content.applied = Append(d.applied, Plan[r][i])
            /\ content.effects = d.effects
  PROVE  Follows(content)
<1>1. /\ DOMAIN Plan[r] = 1..Len(Plan[r]) /\ Len(Plan[r]) \in Nat
      /\ Plan[r] \in Seq(Migration) /\ Plan[r][i] \in Migration
      /\ i \in 1..Len(Plan[r])
  BY PlanFacts
<1>2. CASE Plan[r][i] \in Known(d.applied)
  <2>1. content.applied = d.applied /\ content.effects = d.effects \cup {Plan[r][i]}
    BY <1>2
  <2>2. PICK s \in Release :
          /\ Len(d.applied) <= Len(Plan[s])
          /\ d.applied = SubSeq(Plan[s], 1, Len(d.applied))
          /\ d.effects \in
               {Known(d.applied),
                {Plan[s][k] : k \in DOMAIN Plan[s] \cap 1..Len(d.applied) + 1}}
    BY DEF Follows
  <2>3. /\ Plan[s] \in Seq(Migration) /\ DOMAIN Plan[s] = 1..Len(Plan[s])
        /\ Len(Plan[s]) \in Nat /\ Len(d.applied) \in Nat
        /\ DOMAIN d.applied = 1..Len(d.applied)
    BY PlanFacts
  <2>4. \A k \in 1..Len(d.applied) :
          d.applied[k] = Plan[s][k]
          /\ k \in DOMAIN Plan[s] \cap 1..Len(d.applied) + 1
    BY <2>2, <2>3, Prefix
  <2>5. Known(d.applied) \subseteq d.effects
    BY <2>2, <2>3, <2>4 DEF Known
  <2>6. content.effects = d.effects
    BY <1>2, <2>1, <2>5
  <2> QED
    BY <2>1, <2>2, <2>6 DEF Follows
<1>3. CASE Plan[r][i] \notin Known(d.applied)
  <2>1. /\ Len(d.applied) = i - 1
        /\ \A k \in 1..i - 1 : d.applied[k] = Plan[r][k]
        /\ d.effects \in {Known(d.applied), Known(d.applied) \cup {Plan[r][i]}}
    BY <1>3, NextInHistory
  <2>2. DOMAIN d.applied = 1..i - 1
    BY <2>1
  <2>3. Known(d.applied) = {Plan[r][k] : k \in 1..i - 1}
    BY <2>1, <2>2 DEF Known
  <2>4. CASE content.applied = d.applied
    <3>1. d.applied = SubSeq(Plan[r], 1, i - 1)
      <4>1. /\ Len(d.applied) <= Len(Plan[r])
            /\ \A k \in 1..Len(d.applied) : d.applied[k] = Plan[r][k]
        BY <1>1, <2>1
      <4>2. d.applied = SubSeq(Plan[r], 1, Len(d.applied))
        BY <1>1, <4>1, IsPrefix
      <4> QED
        BY <2>1, <4>2
    <3>2. content.effects = Known(d.applied) \cup {Plan[r][i]}
      <4>1. content.effects = d.effects \cup {Plan[r][i]}
        <5>1. d.applied # Append(d.applied, Plan[r][i])
          BY <1>1, <2>1
        <5> QED
          BY <2>4, <5>1
      <4> QED
        BY <2>1, <4>1
    <3>3. DOMAIN Plan[r] \cap 1..(i - 1) + 1 = 1..i - 1 \cup {i}
      BY <1>1
    <3>4. content.effects = {Plan[r][k] : k \in DOMAIN Plan[r] \cap 1..(i - 1) + 1}
      BY <2>3, <3>2, <3>3
    <3>5. Len(content.applied) = i - 1 /\ i - 1 <= Len(Plan[r])
      BY <1>1, <2>1, <2>4
    <3> QED
      BY <2>4, <3>1, <3>4, <3>5 DEF Follows
  <2>5. CASE content.applied # d.applied
    <3>1. /\ Plan[r][i] \in d.effects
          /\ content.applied = Append(d.applied, Plan[r][i])
          /\ content.effects = d.effects
      BY <2>5
    <3>2. content.applied \in Seq(Migration) /\ Len(content.applied) = i
      BY <1>1, <2>1, <3>1
    <3>3. \A k \in 1..i : content.applied[k] = Plan[r][k]
      BY <1>1, <2>1, <3>1
    <3>4. content.applied = SubSeq(Plan[r], 1, i)
      BY <1>1, <3>2, <3>3, IsPrefix
    <3>5. Known(content.applied) = Known(d.applied) \cup {Plan[r][i]}
      BY <1>1, <3>1, KnownAppend
    <3>6. content.effects = Known(content.applied)
      BY <1>3, <2>1, <3>1, <3>5
    <3>7. Len(content.applied) = i /\ i <= Len(Plan[r])
      BY <1>1, <3>2
    <3> QED
      BY <3>4, <3>6, <3>7 DEF Follows
  <2> QED
    BY <2>4, <2>5
<1> QED
  BY <1>2, <1>3

\* A file whose history is empty follows every plan.
LEMMA FreshFollows ==
  ASSUME NEW content, content.applied = <<>>, content.effects = {}
  PROVE  Follows(content)
<1>1. 1 \in Release /\ Plan[1] \in Seq(Migration) /\ Len(Plan[1]) \in Nat
  BY PlanFacts
<1>2. Known(<<>>) = {} /\ Len(<<>>) = 0
  BY DEF Known
<1>3. <<>> = SubSeq(Plan[1], 1, 0)
  BY <1>1
<1>4. /\ Len(content.applied) <= Len(Plan[1])
      /\ content.applied = SubSeq(Plan[1], 1, Len(content.applied))
      /\ content.effects \in
           {Known(content.applied),
            {Plan[1][i] : i \in DOMAIN Plan[1] \cap 1..Len(content.applied) + 1}}
  BY <1>1, <1>2, <1>3
<1> QED
  BY <1>1, <1>4 DEF Follows

\* A step of a bootstrap: from connection p on file d to x on content.
Moves(p, d, x, content) ==
  \/ x.pc \in {"closed", "refused"} /\ content = d
  \/ /\ x = Bootstrapping("tables", 1)
     /\ content = IF d = Missing THEN Empty ELSE d
  \/ /\ p.pc = "tables" /\ x = [p EXCEPT !.pc = "column"]
     /\ content = IF d = Empty THEN Database(TRUE) ELSE d
  \/ /\ p.pc = "column" /\ content = d
     /\ x = [p EXCEPT !.pc = IF d.status THEN "marker" ELSE "alter"]
  \/ /\ p.pc = "alter" /\ x = [p EXCEPT !.pc = "marker"]
     /\ content = [d EXCEPT !.status = TRUE]
  \/ /\ p.pc = "marker" /\ x = [p EXCEPT !.pc = "plan"]
     /\ content =
          [d EXCEPT !.markers = d.markers \cup {SchemaVersion[release]}]
  \/ /\ p.pc = "plan" /\ x = [p EXCEPT !.pc = "migration"] /\ content = d
     /\ Known(d.applied) \subseteq Known(Plan[release])
  \/ /\ p.pc = "migration" /\ content = d
     /\ \/ p.i > Len(Plan[release]) /\ x = Bootstrapping("open", p.i)
        \/ /\ Plan[release][p.i] \in Known(d.applied)
           /\ x = [p EXCEPT !.i = p.i + 1]
        \/ x = [p EXCEPT !.pc = "script"]
  \/ /\ p.pc = "script" /\ x = [p EXCEPT !.pc = "history"]
     /\ content = [d EXCEPT !.effects = d.effects \cup {Plan[release][p.i]}]
  \/ /\ p.pc = "history" /\ x = [p EXCEPT !.pc = "migration", !.i = p.i + 1]
     /\ Plan[release][p.i] \notin Known(d.applied)
     /\ content = [d EXCEPT !.applied = Append(d.applied, Plan[release][p.i])]

LEMMA BootstrapMoves ==
  ASSUME Types, NEW c \in Connections, Bootstraps(c)
  PROVE  Moves(conn[c], db, conn'[c], file'[serving])
<1>1. PICK p : p = conn[c]
  OBVIOUS
<1>2. PICK d : d = db
  OBVIOUS
<1>3. /\ serving \in Paths /\ file[serving] = d
      /\ DOMAIN conn = Connections /\ DOMAIN file = Paths
  BY <1>2 DEF Types, db
<1>4. p # Closed => ConnectionType(p) /\ DOMAIN p = {"pc", "i"}
  BY <1>1 DEF Types, ConnectionType
<1>5. PICK x : x = conn'[c]
  OBVIOUS
<1>6. PICK content : content = file'[serving]
  OBVIOUS
<1>7. ASSUME Refuse(c), p # Closed PROVE Moves(p, d, x, content)
  BY <1>1, <1>3, <1>4, <1>5, <1>6, <1>7 DEF Refuse, Go, Step, Moves
<1>8. CASE Connect(c)
  <2>1. /\ x = Bootstrapping("tables", 1)
        /\ content = IF d = Missing THEN Empty ELSE d
    BY <1>3, <1>5, <1>6, <1>8 DEF Connect
  <2> QED
    BY <1>1, <1>2, <1>5, <1>6, <2>1 DEF Moves
<1>9. CASE CreateTables(c)
  <2>1. /\ p.pc = "tables" /\ x = [p EXCEPT !.pc = "column"]
        /\ content = IF d = Empty THEN Database(TRUE) ELSE d
    BY <1>1, <1>2, <1>3, <1>5, <1>6, <1>9 DEF CreateTables, Change, Go, Step
  <2> QED
    BY <1>1, <1>2, <1>5, <1>6, <2>1 DEF Moves
<1>10. CASE ReadColumns(c)
  <2>1. /\ p.pc = "column" /\ content = d
        /\ x = [p EXCEPT !.pc = IF d.status THEN "marker" ELSE "alter"]
    BY <1>1, <1>2, <1>3, <1>5, <1>6, <1>10 DEF ReadColumns, Go, Step
  <2> QED
    BY <1>1, <1>2, <1>5, <1>6, <2>1 DEF Moves
<1>11. CASE AddColumn(c)
  <2>1. p.pc = "alter" /\ p # Closed
    BY <1>1, <1>11 DEF AddColumn, Closed
  <2>2. \/ Refuse(c)
        \/ /\ x = [p EXCEPT !.pc = "marker"]
           /\ content = [d EXCEPT !.status = TRUE]
    BY <1>1, <1>2, <1>3, <1>5, <1>6, <1>11 DEF AddColumn, Change, Step
  <2> QED
    BY <1>1, <1>2, <1>5, <1>6, <1>7, <2>1, <2>2 DEF Moves
<1>12. CASE Mark(c)
  <2>1. /\ p.pc = "marker" /\ x = [p EXCEPT !.pc = "plan"]
        /\ content =
             [d EXCEPT !.markers = d.markers \cup {SchemaVersion[release]}]
    <3>1. d \notin {Missing, Empty}
      BY <1>1, <1>2, <1>12 DEF Types, Mark, Closed
    <3>2. DOMAIN d = {"file", "status", "markers", "effects", "applied",
                      "issued"}
      BY <1>3, <3>1, DatabaseFields DEF Types, Sound
    <3> QED
      BY <1>1, <1>2, <1>3, <1>5, <1>6, <1>12, <3>2 DEF Mark, Change, Step
  <2> QED
    BY <1>1, <1>2, <1>5, <1>6, <2>1 DEF Moves
<1>13. CASE CheckPlan(c)
  <2>1. p.pc = "plan" /\ p # Closed
    BY <1>1, <1>13 DEF CheckPlan, Closed
  <2>2. \/ Refuse(c)
        \/ /\ x = [p EXCEPT !.pc = "migration"] /\ content = d
           /\ Known(d.applied) \subseteq Known(Plan[release])
    BY <1>1, <1>2, <1>3, <1>5, <1>6, <1>13 DEF CheckPlan, Go, Step
  <2> QED
    BY <1>1, <1>2, <1>5, <1>6, <1>7, <2>1, <2>2 DEF Moves
<1>14. CASE NextMigration(c)
  <2>1. /\ p.pc = "migration" /\ content = d
        /\ \/ p.i > Len(Plan[release]) /\ x = Bootstrapping("open", p.i)
           \/ /\ Plan[release][p.i] \in Known(d.applied)
              /\ x = [p EXCEPT !.i = p.i + 1]
           \/ x = [p EXCEPT !.pc = "script"]
    BY <1>1, <1>2, <1>3, <1>5, <1>6, <1>14 DEF NextMigration, Step
  <2> QED
    BY <1>1, <1>2, <1>5, <1>6, <2>1 DEF Moves
<1>15. ASSUME p.pc \in {"script", "history"}
       PROVE  /\ p # Closed
              /\ DOMAIN d = {"file", "status", "markers", "effects", "applied",
                             "issued"}
  <2>1. p # Closed
    BY <1>15 DEF Closed
  <2>2. d \notin {Missing, Empty}
    BY <1>1, <1>2, <1>15, <2>1 DEF Types
  <2> QED
    BY <1>3, <2>1, <2>2, DatabaseFields DEF Types, Sound
<1>16. CASE RunScript(c)
  <2>1. p.pc = "script"
    BY <1>1, <1>16 DEF RunScript
  <2>2. PICK m : m = Plan[release][p.i]
    OBVIOUS
  <2>3. \/ Refuse(c)
        \/ Change(c, [d EXCEPT !.effects = d.effects \cup {m}],
                  [p EXCEPT !.pc = "history"])
    BY <1>1, <1>2, <1>15, <1>16, <2>1, <2>2 DEF RunScript, Step
  <2>4. \/ Refuse(c)
        \/ /\ x = [p EXCEPT !.pc = "history"]
           /\ content = [d EXCEPT !.effects = d.effects \cup {m}]
    BY <1>3, <1>5, <1>6, <2>3 DEF Change
  <2> QED
    BY <1>1, <1>2, <1>5, <1>6, <1>7, <1>15, <2>1, <2>2, <2>4 DEF Moves
<1>17. CASE RecordMigration(c)
  <2>1. p.pc = "history"
    BY <1>1, <1>17 DEF RecordMigration
  <2>2. PICK m : m = Plan[release][p.i]
    OBVIOUS
  <2>3. \/ Refuse(c)
        \/ /\ m \notin Known(d.applied)
           /\ Change(c, [d EXCEPT !.applied = Append(d.applied, m)],
                     [p EXCEPT !.pc = "migration", !.i = p.i + 1])
    BY <1>1, <1>2, <1>4, <1>15, <1>17, <2>1, <2>2 DEF RecordMigration, Step
  <2>4. \/ Refuse(c)
        \/ /\ x = [p EXCEPT !.pc = "migration", !.i = p.i + 1]
           /\ m \notin Known(d.applied)
           /\ content = [d EXCEPT !.applied = Append(d.applied, m)]
    BY <1>3, <1>5, <1>6, <2>3 DEF Change
  <2> QED
    BY <1>1, <1>2, <1>5, <1>6, <1>7, <1>15, <2>1, <2>2, <2>4 DEF Moves
<1>18. CASE Close(c) \/ KillRequest(c)
  <2>1. x.pc = "closed" /\ content = d
    BY <1>2, <1>3, <1>5, <1>6, <1>18 DEF Close, KillRequest, Closed, db
  <2> QED
    BY <1>1, <1>2, <1>5, <1>6, <2>1 DEF Moves
<1> QED
  BY <1>8, <1>9, <1>10, <1>11, <1>12, <1>13, <1>14, <1>16, <1>17, <1>18
     DEF Bootstraps

\* A move keeps what the connection has of its schema, and the history.
LEMMA MoveKeepsSchema ==
  ASSUME release \in Release, NEW p, NEW d, NEW x, NEW content,
         Moves(p, d, x, content), Progress(p, d), Follows(d),
         p = Closed \/ ConnectionType(p),
         p # Closed /\ p.pc # "tables" => d \notin {Missing, Empty},
         Sound(d)
  PROVE  Progress(x, content) /\ Follows(content)
<1>0. /\ Plan[release] \in Seq(Migration) /\ Len(Plan[release]) \in Nat
      /\ DOMAIN Plan[release] = 1..Len(Plan[release])
  BY PlanFacts
<1>1. p # Closed => /\ DOMAIN p = {"pc", "i"} /\ p.i \in Nat \ {0}
                    /\ p.pc \in {"script", "history"} =>
                         p.i \in DOMAIN Plan[release]
  BY DEF ConnectionType
<1>2. p # Closed /\ p.pc # "tables" =>
        /\ DOMAIN d = {"file", "status", "markers", "effects", "applied",
                       "issued"}
        /\ d.file = "database" /\ d.applied \in Seq(Migration)
  BY DatabaseFields DEF Sound
<1>3. p.pc # "closed" => p # Closed
  BY DEF Closed
<1>4. CASE x.pc \in {"closed", "refused"} /\ content = d
  BY <1>4 DEF Progress
<1>5. CASE /\ x = Bootstrapping("tables", 1)
           /\ content = IF d = Missing THEN Empty ELSE d
  BY <1>5 DEF Bootstrapping, Progress, Follows, Empty
<1>6. CASE /\ p.pc = "tables" /\ x = [p EXCEPT !.pc = "column"]
           /\ content = IF d = Empty THEN Database(TRUE) ELSE d
  <2>1. Progress(x, content)
    BY <1>1, <1>3, <1>6 DEF Progress
  <2>2. Follows(Database(TRUE))
    BY FreshFollows DEF Database
  <2> QED
    BY <1>6, <2>1, <2>2
<1>7. CASE /\ p.pc = "column" /\ content = d
           /\ x = [p EXCEPT !.pc = IF d.status THEN "marker" ELSE "alter"]
  BY <1>1, <1>3, <1>7 DEF Progress
<1>8. CASE /\ p.pc = "alter" /\ x = [p EXCEPT !.pc = "marker"]
           /\ content = [d EXCEPT !.status = TRUE]
  BY <1>1, <1>2, <1>3, <1>8 DEF Progress, Follows
<1>9. CASE /\ p.pc = "marker" /\ x = [p EXCEPT !.pc = "plan"]
           /\ content =
                [d EXCEPT !.markers = d.markers \cup {SchemaVersion[release]}]
  BY <1>1, <1>2, <1>3, <1>9 DEF Progress, Follows
<1>10. CASE /\ p.pc = "plan" /\ x = [p EXCEPT !.pc = "migration"]
            /\ content = d
            /\ Known(d.applied) \subseteq Known(Plan[release])
  BY <1>0, <1>1, <1>3, <1>10 DEF Progress
<1>11. CASE /\ p.pc = "migration" /\ content = d
            /\ \/ p.i > Len(Plan[release]) /\ x = Bootstrapping("open", p.i)
               \/ /\ Plan[release][p.i] \in Known(d.applied)
                  /\ x = [p EXCEPT !.i = p.i + 1]
               \/ x = [p EXCEPT !.pc = "script"]
  <2>1. p.pc = "migration" /\ content = d
    BY <1>11
  <2>2. CASE p.i > Len(Plan[release]) /\ x = Bootstrapping("open", p.i)
    BY <1>1, <1>3, <2>1, <2>2 DEF Progress, Bootstrapping
  <2>3. CASE /\ Plan[release][p.i] \in Known(d.applied)
             /\ x = [p EXCEPT !.i = p.i + 1]
    <3>1. x.pc = "migration" /\ x.i = p.i + 1 /\ p.i \in Nat
      BY <1>1, <1>3, <2>1, <2>3
    <3>2. \A j \in DOMAIN Plan[release] : j < x.i => j < p.i \/ j = p.i
      BY <1>0, <3>1
    <3> QED
      BY <2>1, <2>3, <3>1, <3>2 DEF Progress
  <2>4. CASE x = [p EXCEPT !.pc = "script"]
    BY <1>1, <1>3, <2>1, <2>4 DEF Progress
  <2> QED
    BY <1>11, <2>2, <2>3, <2>4
<1>12. CASE /\ p.pc = "script" /\ x = [p EXCEPT !.pc = "history"]
            /\ content = [d EXCEPT !.effects = d.effects \cup {Plan[release][p.i]}]
  <2>1. /\ x.pc = "history" /\ x.i = p.i /\ p.i \in DOMAIN Plan[release]
        /\ content.applied = d.applied /\ content.status = d.status
        /\ content.markers = d.markers
        /\ content.effects = d.effects \cup {Plan[release][p.i]}
    BY <1>1, <1>2, <1>3, <1>12
  <2>2. Progress(x, content)
    BY <1>12, <2>1 DEF Progress
  <2>3. Follows(content)
    BY <1>2, <1>3, <1>12, <2>1, HistoryGrows DEF Progress
  <2> QED
    BY <2>2, <2>3
<1>13. CASE /\ p.pc = "history"
            /\ x = [p EXCEPT !.pc = "migration", !.i = p.i + 1]
            /\ Plan[release][p.i] \notin Known(d.applied)
            /\ content =
                 [d EXCEPT !.applied = Append(d.applied, Plan[release][p.i])]
  <2>1. /\ x.pc = "migration" /\ x.i = p.i + 1 /\ p.i \in DOMAIN Plan[release]
        /\ content.applied = Append(d.applied, Plan[release][p.i])
        /\ content.status = d.status /\ content.markers = d.markers
        /\ content.effects = d.effects
    BY <1>1, <1>2, <1>3, <1>13
  <2>2. Known(content.applied) = Known(d.applied) \cup {Plan[release][p.i]}
    BY <1>2, <1>3, <1>13, <2>1, KnownAppend
  <2>3. Progress(x, content)
    <3>1. Plan[release][p.i] \in Known(Plan[release])
      BY <2>1 DEF Known
    <3>2. \A j \in DOMAIN Plan[release] : j < x.i => j < p.i \/ j = p.i
      BY <1>0, <2>1
    <3> QED
      BY <1>13, <2>1, <2>2, <3>1, <3>2 DEF Progress
  <2>4. Follows(content)
    BY <1>2, <1>3, <1>13, <2>1, HistoryGrows, SMTT(30) DEF Progress
  <2> QED
    BY <2>3, <2>4
<1> QED
  BY <1>4, <1>5, <1>6, <1>7, <1>8, <1>9, <1>10, <1>11, <1>12, <1>13 DEF Moves

\* What a connection has of the schema is not taken from it by another.
LEMMA ProgressStands ==
  ASSUME NEW x, NEW d, NEW content, Progress(x, d), d \in Content,
         \/ x = Closed
         \/ /\ ConnectionType(x) /\ d # Missing
            /\ x.pc # "tables" => d # Empty,
         \/ content = d
         \/ d = Missing
         \/ d = Empty
         \/ Extends(d, content)
  PROVE  Progress(x, content)
<1>1. CASE content = d
  BY <1>1
<1>2. CASE x.pc \in {"closed", "tables"}
  BY <1>2 DEF Progress
<1>3. CASE x.pc \notin {"closed", "tables"} /\ Extends(d, content)
  <2>1. /\ d.status => content.status
        /\ d.markers \subseteq content.markers
        /\ d.effects \subseteq content.effects
        /\ Known(d.applied) \subseteq Known(content.applied)
        /\ Known(d.applied) \subseteq Known(Plan[release]) =>
             Known(content.applied) \subseteq Known(Plan[release])
    BY <1>3 DEF Extends
  <2> QED
    BY <2>1 DEF Progress
<1> QED
  BY <1>1, <1>2, <1>3 DEF Closed

LEMMA SchemaInit == Init => SchemaInv
<1> SUFFICES ASSUME Init PROVE SchemaInv
  OBVIOUS
<1>1. PICK first \in {Missing, Legacy} :
        file = [path \in Paths |-> IF path = Live THEN first ELSE Missing]
  BY DEF Init
<1>2. Follows(Missing)
  BY DEF Follows, Missing
<1>3. Follows(Legacy)
  BY FreshFollows DEF Legacy, Database
<1>4. \A x : x = Closed => Progress(x, db)
  BY DEF Progress, Closed
<1> QED
  BY <1>1, <1>2, <1>3, <1>4 DEF Init, SchemaInv

LEMMA SchemaStays ==
  ASSUME Types, SchemaInv, [Next]_vars
  PROVE  SchemaInv'
<1>1. /\ \A c \in Connections : Progress(conn[c], db)
      /\ \A path \in Paths : Follows(file[path])
      /\ \A name \in Seconds : Follows(backup[name])
  BY DEF SchemaInv
<1>2. /\ db \in Content /\ serving \in Paths /\ release \in Release
      /\ \A c \in Connections :
           \/ conn[c] = Closed
           \/ /\ ConnectionType(conn[c]) /\ db # Missing
              /\ conn[c].pc # "tables" => db # Empty
  BY DEF Types, Sound, db
<1>3. ASSUME NEW c \in Connections, NEW x, NEW content, Leaves(c, x, content),
             UNCHANGED <<serving, release, backup>>,
             Progress(x, content), Follows(content),
             content = db \/ db = Missing \/ db = Empty \/ Extends(db, content)
      PROVE  SchemaInv'
  <2>1. db' = content
    BY <1>3 DEF Leaves, db
  <2>2. ASSUME NEW other \in Connections PROVE Progress(conn[other], db)'
    <3>1. PICK y : y = conn'[other]
      OBVIOUS
    <3>2. Progress(y, content)
      BY <1>1, <1>2, <1>3, <3>1, ProgressStands DEF Leaves
    <3> QED
      BY <1>3, <2>1, <3>1, <3>2 DEF Progress
  <2>3. ASSUME NEW path \in Paths PROVE Follows(file[path])'
    <3>1. Follows(file'[path])
      BY <1>1, <1>3 DEF Leaves
    <3> QED
      BY <3>1 DEF Follows
  <2>4. ASSUME NEW name \in Seconds PROVE Follows(backup[name])'
    BY <1>1, <1>3 DEF Follows
  <2> QED
    BY <2>2, <2>3, <2>4 DEF SchemaInv
<1>4. ASSUME NEW c \in Connections, Bootstraps(c) PROVE SchemaInv'
  <2>1. PICK x, content :
          /\ Leaves(c, x, content)
          /\ UNCHANGED <<serving, release, served, maintained>>
          /\ \/ content = db
             \/ db = Missing /\ content = Empty
             \/ db = Empty /\ content \notin {Missing, Empty}
             \/ db \notin {Missing, Empty} /\ Extends(db, content)
    BY <1>4, BootstrapStep
  <2>2. x = conn'[c] /\ content = file'[serving]
    BY <2>1 DEF Leaves
  <2>3. Moves(conn[c], db, x, content)
    BY <1>4, <2>2, BootstrapMoves
  <2>4. Progress(conn[c], db) /\ Follows(db) /\ Sound(db)
    BY <1>1, <1>2 DEF db, Types
  <2>5. /\ conn[c] = Closed \/ ConnectionType(conn[c])
        /\ conn[c] # Closed /\ conn[c].pc # "tables" =>
             db \notin {Missing, Empty}
    BY <1>2
  <2>6. Progress(x, content) /\ Follows(content)
    BY <1>2, <2>3, <2>4, <2>5, MoveKeepsSchema
  <2> QED
    BY <1>3, <2>1, <2>6 DEF maintained
<1>5. ASSUME NEW c \in Connections, Issue(c) PROVE SchemaInv'
  <2>1. PICK content :
          /\ Leaves(c, Closed, content)
          /\ UNCHANGED <<serving, release, maintained>>
          /\ Sound(content)'
          /\ Extends(db, content)
          /\ content.applied = db.applied /\ content.effects = db.effects
          /\ db \notin {Missing, Empty}
    BY <1>5, IssueStep
  <2>2. db.file = "database" /\ Follows(db)
    BY <1>1, <1>2, <2>1, DatabaseFields DEF db
  <2>3. Follows(content)
    BY <2>1, <2>2 DEF Follows
  <2>4. Progress(Closed, content)
    BY DEF Progress, Closed
  <2> QED
    BY <1>3, <2>1, <2>3, <2>4 DEF maintained
<1>6. ASSUME NEW o \in Operators, Maintains(o) PROVE SchemaInv'
  <2>1. /\ UNCHANGED <<serving, release, conn>>
        /\ file'[serving] = file[serving]
        /\ \A path \in Paths : file'[path] \in Contents
        /\ \A name \in Seconds : backup'[name] \in Contents
    BY <1>6, MaintenanceStep
  <2>2. \A content \in Contents : Follows(content)
    BY <1>1 DEF Contents, Follows, Missing, Empty
  <2>3. ASSUME NEW path \in Paths PROVE Follows(file[path])'
    <3>1. Follows(file'[path])
      BY <2>1, <2>2
    <3> QED
      BY <3>1 DEF Follows
  <2>4. ASSUME NEW name \in Seconds PROVE Follows(backup[name])'
    <3>1. Follows(backup'[name])
      BY <2>1, <2>2
    <3> QED
      BY <3>1 DEF Follows
  <2>5. ASSUME NEW c \in Connections PROVE Progress(conn[c], db)'
    BY <1>1, <2>1 DEF Progress, db
  <2> QED
    BY <2>3, <2>4, <2>5 DEF SchemaInv
<1>7. ASSUME NEW r \in Release, NEW path \in Paths, Restart(r, path)
      PROVE  SchemaInv'
  <2>1. UNCHANGED <<file, backup>> /\ \A c \in Connections : conn'[c] = Closed
    BY <1>7 DEF Restart, maintained
  <2>2. ASSUME NEW c \in Connections PROVE Progress(conn[c], db)'
    BY <2>1 DEF Progress, Closed
  <2>3. ASSUME NEW p \in Paths PROVE Follows(file[p])'
    BY <1>1, <2>1 DEF Follows
  <2>4. ASSUME NEW name \in Seconds PROVE Follows(backup[name])'
    BY <1>1, <2>1 DEF Follows
  <2> QED
    BY <2>2, <2>3, <2>4 DEF SchemaInv
<1>8. CASE UNCHANGED vars
  BY <1>1, <1>8 DEF vars, SchemaInv, Progress, Follows, db
<1> QED
  BY <1>4, <1>5, <1>6, <1>7, <1>8, Steps

LEMMA SchemaHolds == Spec => []SchemaInv
<1>1. Types /\ SchemaInv /\ [Next]_vars => SchemaInv'
  BY SchemaStays
<1> QED
  BY <1>1, SchemaInit, TypesHold, PTL DEF Spec

\* However many connections bootstrap the file together, are killed or refused
\* on the way, and whatever releases worked on it before: the schema under a
\* request is complete.
THEOREM OpenSchemaIsComplete == Spec => []OpenMeansComplete
<1>1. Types /\ SchemaInv => OpenMeansComplete
  <2> SUFFICES ASSUME Types, SchemaInv, NEW c \in Connections,
                      conn[c].pc = "open"
               PROVE  /\ db.status
                      /\ SchemaVersion[release] \in db.markers
                      /\ Known(db.applied) = Known(Plan[release])
    BY DEF OpenMeansComplete
  <2>1. Progress(conn[c], db)
    BY DEF SchemaInv
  <2>2. conn[c].i \in Nat /\ release \in Release
    BY DEF Types, ConnectionType, Closed
  <2>3. \A j \in DOMAIN Plan[release] : j < conn[c].i
    BY <2>1, <2>2, PlanFacts DEF Progress
  <2>4. Known(Plan[release]) \subseteq Known(db.applied)
    BY <2>1, <2>3 DEF Progress, Known
  <2> QED
    BY <2>1, <2>4 DEF Progress
<1> QED
  BY <1>1, TypesHold, SchemaHolds, PTL

\* The history of every file and every backup is the beginning of a release's
\* plan, with at most the next migration run and not recorded.
THEOREM HistoryIsAPlans == Spec => []HistoryFollowsPlan
<1>1. SchemaInv => HistoryFollowsPlan
  BY SMTT(30) DEF SchemaInv, HistoryFollowsPlan, Follows
<1> QED
  BY <1>1, SchemaHolds, PTL

(***************************************************************************)
(* Numbers                                                                 *)
(***************************************************************************)

\* Only a release touches numbers.
LEMMA OnlyIssueServes ==
  ASSUME Types, [Next]_vars
  PROVE  UNCHANGED served \/ \E c \in Connections : Issue(c)
<1>1. ASSUME NEW c \in Connections, Bootstraps(c) PROVE UNCHANGED served
  BY <1>1, BootstrapStep
<1>2. ASSUME NEW o \in Operators, Maintains(o) PROVE UNCHANGED served
  BY <1>2, MaintenanceStep
<1>3. ASSUME NEW r \in Release, NEW path \in Paths, Restart(r, path)
      PROVE  UNCHANGED served
  BY <1>3 DEF Restart
<1>4. UNCHANGED vars => UNCHANGED served
  BY DEF vars, served
<1> QED
  BY <1>1, <1>2, <1>3, <1>4, Steps

\* Whatever file the API is restarted on, an answered number belongs to one
\* certificate: its PDF is never removed from the directory.
THEOREM AnsweredNumbersStand == Spec => []NumbersStandAfterRestore
<1>1. Init => NumbersInv
  BY DEF Init, NumbersInv
<1>2. Types /\ NumbersInv /\ [Next]_vars => NumbersInv'
  <2> SUFFICES ASSUME Types, NumbersInv, [Next]_vars PROVE NumbersInv'
    OBVIOUS
  <2>1. CASE UNCHANGED served
    BY <2>1 DEF served, NumbersInv
  <2>2. ASSUME NEW c \in Connections, Issue(c) PROVE NumbersInv'
    <3>1. PICK number \in 1..MaxIssued :
            /\ number \notin DOMAIN pdf
            /\ pdf' = With(pdf, number, minted + 1)
            /\ answered' = answered \cup {<<number, minted + 1>>}
      BY <2>2, IssueStep
    <3>2. ASSUME NEW a \in answered
          PROVE  a[1] \in DOMAIN pdf' /\ a = <<a[1], pdf'[a[1]]>>
      BY <3>1 DEF NumbersInv, With
    <3>3. number \in DOMAIN pdf' /\ pdf'[number] = minted + 1
      BY <3>1 DEF With
    <3> QED
      BY <3>1, <3>2, <3>3 DEF NumbersInv
  <2> QED
    BY <2>1, <2>2, OnlyIssueServes
<1>3. NumbersInv => NumbersStandAfterRestore
  BY DEF NumbersInv, NumbersStandAfterRestore
<1> QED
  BY <1>1, <1>2, <1>3, TypesHold, PTL DEF Spec

(***************************************************************************)
(* Backups                                                                 *)
(***************************************************************************)

\* A step of a command that is on no backup of the second leaves what stands of
\* it.
LEMMA OtherBackupsStand ==
  ASSUME Types, NEW o \in Operators, NEW x, op' = [op EXCEPT ![o] = x],
         NEW name \in Seconds, x.pc \in BackingUp => x.name # name,
         backup'[name] = backup[name],
         copied'[name].contents = copied[name].contents,
         \A b \in evidence' :
           b.kind = "backup" /\ b.name = name => b \in evidence
  PROVE  /\ Unnamed(name) => Unnamed(name)'
         /\ Described(name) => Described(name)'
<1>1. DOMAIN op = Operators
  BY DEF Types
<1>2. \A p \in Operators :
        op'[p].pc \in BackingUp /\ op'[p].name = name => op'[p] = op[p]
  BY <1>1
<1>3. Unnamed(name) => Unnamed(name)'
  BY <1>2 DEF Unnamed
<1>4. Described(name) => Described(name)'
  BY <1>2 DEF Described
<1> QED
  BY <1>3, <1>4

\* The one command that is on the only backup of a second.
LEMMA Alone ==
  ASSUME Types, BackupInv, NEW o \in Operators, op[o].pc \in BackingUp,
         copied[op[o].name].begun \in {0, 1}
  PROVE  /\ op[o].name \in Seconds /\ copied[op[o].name].begun = 1
         /\ \A p \in Operators :
              op[p].pc \in BackingUp /\ op[p].name = op[o].name => p = o
         /\ \A b \in evidence : b.kind = "backup" => b.name # op[o].name
         /\ op[o].pc = "verify" =>
              /\ backup[op[o].name] # Missing
              /\ backup[op[o].name] \in copied[op[o].name].contents
<1>1. op[o].name \in Seconds
  BY DEF Types, CommandType, BackingUp, Restoring, Idle
<1>2. copied[op[o].name].begun # 0
  BY <1>1 DEF BackupInv, Unnamed
<1> QED
  BY <1>1, <1>2 DEF BackupInv, Described

LEMMA BackupInit == Init => BackupInv /\ EvidenceNames
  BY DEF Init, BackupInv, Unnamed, EvidenceNames, Idle, BackingUp

\* Each command keeps what stands of every second's backups.
LEMMA CommandKeepsBackups ==
  ASSUME Types, BackupInv, EvidenceNames, NEW o \in Operators, Maintains(o),
         NEW name \in Seconds
  PROVE  /\ (copied[name].begun = 0 => Unnamed(name))'
         /\ (copied[name].begun = 1 => Described(name))'
<1> DEFINE Goal == /\ (copied[name].begun = 0 => Unnamed(name))'
                   /\ (copied[name].begun = 1 => Described(name))'
<1>1. /\ DOMAIN op = Operators /\ DOMAIN backup = Seconds
      /\ DOMAIN copied = Seconds
      /\ DOMAIN copied[name] = {"begun", "contents"}
      /\ copied[name].begun \in Nat
  BY DEF Types
<1>2. /\ copied[name].begun = 0 => Unnamed(name)
      /\ copied[name].begun = 1 => Described(name)
  BY DEF BackupInv
<1>3. PICK p : p = op[o]
  OBVIOUS
<1>4. ASSUME NEW x, op' = [op EXCEPT ![o] = x],
             x.pc \in BackingUp => x.name # name,
             backup'[name] = backup[name], copied'[name] = copied[name],
             \A b \in evidence' :
               b.kind = "backup" /\ b.name = name => b \in evidence
      PROVE  Goal
  <2>1. /\ Unnamed(name) => Unnamed(name)'
        /\ Described(name) => Described(name)'
    BY <1>4, OtherBackupsStand
  <2> QED
    BY <1>2, <1>4, <2>1
<1>5. p.pc \in BackingUp => /\ p.name \in Seconds /\ p # Idle
                             /\ DOMAIN p = {"pc", "name"}
  BY <1>3 DEF Types, CommandType, BackingUp, Restoring, Idle
<1>6. ASSUME NEW second \in Seconds, BeginBackup(o, second) PROVE Goal
  <2>1. PICK x : x = [pc |-> "backup", name |-> second]
    OBVIOUS
  <2>2. /\ op' = [op EXCEPT ![o] = x] /\ op[o] = Idle
        /\ UNCHANGED <<backup, evidence>>
    BY <1>6, <2>1 DEF BeginBackup, Do
  <2>3. CASE second # name
    <3>1. copied'[name] = copied[name]
      BY <1>1, <1>6, <2>3 DEF BeginBackup
    <3> QED
      BY <1>4, <2>1, <2>2, <2>3, <3>1
  <2>4. CASE second = name
    <3>1. copied'[name].begun = copied[name].begun + 1
      BY <1>1, <1>6, <2>4 DEF BeginBackup
    <3>2. ASSUME copied[name].begun = 0 PROVE Described(name)'
      <4>1. Unnamed(name)
        BY <1>2, <3>2
      <4>2. \A q \in Operators :
              op'[q].pc \in BackingUp /\ op'[q].name = name => q = o
        BY <1>1, <2>2, <4>1 DEF Unnamed
      <4>3. op'[o].pc # "verify"
        BY <1>1, <2>1, <2>2
      <4> QED
        BY <2>2, <4>1, <4>2, <4>3 DEF Unnamed, Described
    <3> QED
      BY <1>1, <3>1, <3>2
  <2> QED
    BY <2>3, <2>4
\* A step of the only backup of the second.
<1>7. ASSUME p.pc \in BackingUp, p.name = name, copied[name].begun \in {0, 1},
             NEW x, op' = [op EXCEPT ![o] = x],
             copied'[name].begun = copied[name].begun,
             \/ x = Idle
             \/ /\ x.pc = "copy" /\ UNCHANGED evidence
             \/ /\ x.pc = "verify" /\ UNCHANGED evidence
                /\ backup'[name] # Missing
                /\ backup'[name] \in copied'[name].contents,
             \A b \in evidence' :
               b.kind = "backup" /\ b.name = name =>
                 \/ b \in evidence
                 \/ /\ backup'[name] = b.sha
                    /\ b.sha \in copied'[name].contents
      PROVE  Goal
  <2>1. /\ copied[name].begun = 1
        /\ \A q \in Operators :
             op[q].pc \in BackingUp /\ op[q].name = name => q = o
        /\ \A b \in evidence : b.kind = "backup" => b.name # name
    BY <1>3, <1>7, Alone
  <2>2. \A q \in Operators :
          op'[q].pc \in BackingUp /\ op'[q].name = name => q = o
    BY <1>1, <1>7, <2>1
  <2>3. op'[o] = x
    BY <1>1, <1>7
  <2>4. Idle.pc \notin BackingUp
    BY DEF Idle, BackingUp
  <2>5. Described(name)'
    BY <1>7, <2>1, <2>2, <2>3, <2>4 DEF Described
  <2> QED
    BY <1>7, <2>1, <2>5
<1>8. ASSUME copied[name].begun \notin {0, 1},
             copied'[name].begun = copied[name].begun
      PROVE  Goal
  BY <1>8
<1>9. CASE CreateBackup(o)
  <2>1. /\ p.pc = "backup" /\ UNCHANGED <<evidence, copied>>
        /\ op' = [op EXCEPT ![o] = [p EXCEPT !.pc = "copy"]]
        /\ \A n \in Seconds : n # p.name => backup'[n] = backup[n]
    BY <1>1, <1>3, <1>9 DEF CreateBackup, Do
  <2>2. PICK x : x = [p EXCEPT !.pc = "copy"]
    OBVIOUS
  <2>3. p.pc \in BackingUp /\ x.name = p.name /\ x.pc = "copy"
    BY <1>5, <2>1, <2>2 DEF BackingUp
  <2>4. CASE p.name # name
    BY <1>4, <2>1, <2>2, <2>3, <2>4
  <2>5. CASE p.name = name
    BY <1>7, <1>8, <2>1, <2>2, <2>3, <2>5
  <2> QED
    BY <2>4, <2>5
<1>10. CASE CopyBackup(o)
  <2>1. /\ p.pc = "copy" /\ UNCHANGED evidence
        /\ op' = [op EXCEPT ![o] = [p EXCEPT !.pc = "verify"]]
        /\ backup' = [backup EXCEPT ![p.name] = db]
        /\ copied' = [copied EXCEPT ![p.name].contents = @ \cup {db}]
    BY <1>3, <1>10 DEF CopyBackup, Do
  <2>2. PICK x : x = [p EXCEPT !.pc = "verify"]
    OBVIOUS
  <2>3. p.pc \in BackingUp /\ x.name = p.name /\ x.pc = "verify"
    BY <1>5, <2>1, <2>2 DEF BackingUp
  <2>4. db # Missing
    BY <1>3, <2>3 DEF BackupInv
  <2>5. CASE p.name # name
    <3>1. backup'[name] = backup[name] /\ copied'[name] = copied[name]
      BY <1>1, <2>1, <2>5
    <3> QED
      BY <1>4, <2>1, <2>2, <2>3, <2>5, <3>1
  <2>6. CASE p.name = name
    <3>1. /\ copied'[name].begun = copied[name].begun
          /\ copied'[name].contents = copied[name].contents \cup {db}
          /\ backup'[name] = db
      BY <1>1, <2>1, <2>6
    <3> QED
      BY <1>7, <1>8, <2>1, <2>2, <2>3, <2>4, <2>6, <3>1
  <2> QED
    BY <2>5, <2>6
<1>11. CASE FailBackup(o)
  <2>1. /\ p.pc = "copy" /\ UNCHANGED <<evidence, copied>>
        /\ op' = [op EXCEPT ![o] = Idle]
        /\ \A n \in Seconds : n # p.name => backup'[n] = backup[n]
    BY <1>1, <1>3, <1>11 DEF FailBackup, Do
  <2>2. p.pc \in BackingUp /\ Idle.pc \notin BackingUp
    BY <2>1 DEF BackingUp, Idle
  <2>3. CASE p.name # name
    BY <1>4, <2>1, <2>2, <2>3
  <2>4. CASE p.name = name
    BY <1>7, <1>8, <2>1, <2>2, <2>4
  <2> QED
    BY <2>3, <2>4
<1>12. CASE FinishBackup(o)
  <2>1. /\ p.pc = "verify" /\ UNCHANGED <<backup, copied>>
        /\ op' = [op EXCEPT ![o] = Idle]
        /\ evidence' = IF backup[p.name] = Missing THEN evidence
                       ELSE evidence \cup {[kind |-> "backup", name |-> p.name,
                                            sha |-> backup[p.name]]}
    BY <1>3, <1>12 DEF FinishBackup, Do
  <2>2. p.pc \in BackingUp /\ Idle.pc \notin BackingUp
    BY <2>1 DEF BackingUp, Idle
  <2>3. CASE p.name # name
    <3>1. \A b \in evidence' : b.name = name => b \in evidence
      BY <2>1, <2>3
    <3> QED
      BY <1>4, <2>1, <2>2, <2>3, <3>1
  <2>4. CASE p.name = name /\ copied[name].begun \in {0, 1}
    <3>1. backup[name] \in copied[name].contents
      BY <1>3, <2>1, <2>2, <2>4, Alone
    <3>2. \A b \in evidence' :
            \/ b \in evidence
            \/ b.sha = backup[name]
      BY <2>1, <2>4
    <3> QED
      BY <1>7, <2>1, <2>2, <2>4, <3>1, <3>2
  <2> QED
    BY <1>8, <2>1, <2>3, <2>4
<1>13. ASSUME NEW x, op' = [op EXCEPT ![o] = x], x.pc \notin BackingUp,
              UNCHANGED <<backup, copied>>,
              \A b \in evidence' : b.kind = "backup" => b \in evidence
       PROVE  Goal
  BY <1>4, <1>13
<1>14. ASSUME NEW pc \in Restoring, p.pc \in Restoring,
              op' = [op EXCEPT ![o] = [p EXCEPT !.pc = pc]],
              UNCHANGED <<backup, evidence, copied>>
       PROVE  Goal
  <2>1. PICK x : x = [p EXCEPT !.pc = pc]
    OBVIOUS
  <2>2. DOMAIN p = {"pc", "name", "path", "sha"}
    BY <1>3, <1>14 DEF Types, CommandType, BackingUp, Restoring, Idle
  <2>3. x.pc \notin BackingUp
    BY <1>14, <2>1, <2>2 DEF BackingUp, Restoring
  <2> QED
    BY <1>13, <1>14, <2>1, <2>3
<1>15. ASSUME NEW second \in Seconds, NEW path \in Paths,
              BeginRestore(o, second, path)
       PROVE  Goal
  <2>1. PICK x : x = [pc |-> "restore", name |-> second, path |-> path,
                      sha |-> backup[second]]
    OBVIOUS
  <2>2. x.pc \notin BackingUp
    BY <2>1 DEF BackingUp
  <2> QED
    BY <1>13, <1>15, <2>1, <2>2 DEF BeginRestore, Do
<1>16. CASE CreateRestored(o)
  BY <1>3, <1>14, <1>16 DEF CreateRestored, Do, Restoring
<1>17. CASE CopyRestored(o)
  BY <1>3, <1>14, <1>17 DEF CopyRestored, Do, Restoring
<1>18. Idle.pc \notin BackingUp
  BY DEF Idle, BackingUp
<1>19. CASE FailRestore(o) \/ KillCommand(o)
  BY <1>13, <1>18, <1>19 DEF FailRestore, KillCommand, Do
<1>20. CASE FinishRestore(o)
  <2>1. PICK r : /\ r.kind = "restore" /\ evidence' = evidence \cup {r}
                 /\ UNCHANGED <<backup, copied>>
                 /\ op' = [op EXCEPT ![o] = Idle]
    BY <1>20 DEF FinishRestore, Do
  <2> QED
    BY <1>13, <1>18, <2>1
<1> QED
  BY <1>6, <1>9, <1>10, <1>11, <1>12, <1>15, <1>16, <1>17, <1>19, <1>20
     DEF Maintains

\* Nothing but a command touches what is maintained, and the file that is
\* served does not go away under a backup.
LEMMA BackupStays ==
  ASSUME Types, BackupInv, EvidenceNames, [Next]_vars
  PROVE  BackupInv' /\ EvidenceNames'
<1>1. ASSUME UNCHANGED maintained, db # Missing => db' # Missing
      PROVE  BackupInv' /\ EvidenceNames'
  <2>1. UNCHANGED <<backup, op, evidence, copied>>
    BY <1>1 DEF maintained
  <2>2. \A o \in Operators : op'[o].pc \in BackingUp => db' # Missing
    BY <1>1, <2>1 DEF BackupInv
  <2>3. \A name \in Seconds :
          /\ copied'[name].begun = 0 => Unnamed(name)'
          /\ copied'[name].begun = 1 => Described(name)'
    BY <2>1 DEF BackupInv, Unnamed, Described
  <2>4. EvidenceNames'
    BY <2>1 DEF EvidenceNames
  <2> QED
    BY <2>2, <2>3, <2>4 DEF BackupInv
<1>2. ASSUME NEW c \in Connections, Bootstraps(c)
      PROVE  BackupInv' /\ EvidenceNames'
  <2>1. PICK x, content :
          /\ Leaves(c, x, content)
          /\ UNCHANGED <<serving, release, served, maintained>>
          /\ \/ content = db
             \/ db = Missing /\ content = Empty
             \/ db = Empty /\ content \notin {Missing, Empty}
             \/ db \notin {Missing, Empty} /\ Extends(db, content)
    BY <1>2, BootstrapStep
  <2>2. db' = content
    BY <2>1 DEF Leaves, db
  <2>3. db # Missing => db' # Missing
    BY <2>1, <2>2 DEF Extends
  <2> QED
    BY <1>1, <2>1, <2>3
<1>3. ASSUME NEW c \in Connections, Issue(c)
      PROVE  BackupInv' /\ EvidenceNames'
  <2>1. PICK content :
          /\ Leaves(c, Closed, content)
          /\ UNCHANGED <<serving, release, maintained>>
          /\ Extends(db, content)
    BY <1>3, IssueStep
  <2>2. db' = content
    BY <2>1 DEF Leaves, db
  <2>3. db' # Missing
    BY <2>1, <2>2 DEF Extends
  <2> QED
    BY <1>1, <2>1, <2>3
<1>4. ASSUME NEW o \in Operators, Maintains(o)
      PROVE  BackupInv' /\ EvidenceNames'
  <2>1. \A name \in Seconds :
          /\ copied'[name].begun = 0 => Unnamed(name)'
          /\ copied'[name].begun = 1 => Described(name)'
    BY <1>4, CommandKeepsBackups
  <2>2. \A other \in Operators : op'[other].pc \in BackingUp => db' # Missing
    <3>1. db' = db
      BY <1>4, MaintenanceStep DEF db
    <3>2. \/ db # Missing
          \/ \A other \in Operators :
               op'[other].pc \in BackingUp => op[other].pc \in BackingUp
      <4>1. ASSUME NEW name \in Seconds, BeginBackup(o, name)
            PROVE  db # Missing
        BY <4>1 DEF BeginBackup
      <4>2. CASE CreateBackup(o) \/ CopyBackup(o)
        BY <4>2 DEF CreateBackup, CopyBackup, BackingUp, BackupInv
      <4>3. ASSUME NEW x, op' = [op EXCEPT ![o] = x], x.pc \notin BackingUp
            PROVE  \A other \in Operators :
                     op'[other].pc \in BackingUp => op[other].pc \in BackingUp
        BY <4>3 DEF Types
      <4>4. CASE \/ FailBackup(o) \/ FinishBackup(o) \/ FailRestore(o)
                 \/ FinishRestore(o) \/ KillCommand(o)
        <5>1. op' = [op EXCEPT ![o] = Idle]
          BY <4>4 DEF FailBackup, FinishBackup, FailRestore, FinishRestore,
                      KillCommand, Do
        <5>2. Idle.pc \notin BackingUp
          BY DEF Idle, BackingUp
        <5> QED
          BY <4>3, <5>1, <5>2
      <4>5. ASSUME NEW name \in Seconds, NEW path \in Paths,
                   BeginRestore(o, name, path)
            PROVE  \A other \in Operators :
                     op'[other].pc \in BackingUp => op[other].pc \in BackingUp
        <5>1. PICK x : x = [pc |-> "restore", name |-> name, path |-> path,
                            sha |-> backup[name]]
          OBVIOUS
        <5>2. x.pc \notin BackingUp
          BY <5>1 DEF BackingUp
        <5> QED
          BY <4>3, <4>5, <5>1, <5>2 DEF BeginRestore, Do
      <4>6. CASE CreateRestored(o) \/ CopyRestored(o)
        <5>1. PICK pc \in {"restoring", "restored"} :
                /\ op' = [op EXCEPT ![o] = [op[o] EXCEPT !.pc = pc]]
                /\ op[o].pc \in Restoring
          BY <4>6 DEF CreateRestored, CopyRestored, Do, Restoring
        <5>2. DOMAIN op[o] = {"pc", "name", "path", "sha"}
          BY <5>1 DEF Types, CommandType, BackingUp, Restoring, Idle
        <5>3. PICK x : x = [op[o] EXCEPT !.pc = pc]
          OBVIOUS
        <5>4. x.pc \notin BackingUp
          BY <5>2, <5>3 DEF BackingUp
        <5> QED
          BY <4>3, <5>1, <5>3, <5>4
      <4> QED
        BY <1>4, <4>1, <4>2, <4>4, <4>5, <4>6 DEF Maintains
    <3> QED
      BY <3>1, <3>2 DEF BackupInv
  <2>3. EvidenceNames'
    <3>1. CASE UNCHANGED evidence
      BY <3>1 DEF EvidenceNames
    <3>2. CASE FinishBackup(o)
      <4>1. op[o].name \in Seconds
        BY <3>2 DEF FinishBackup, Types, CommandType, BackingUp, Restoring, Idle
      <4> QED
        BY <3>2, <4>1 DEF FinishBackup, EvidenceNames
    <3>3. CASE FinishRestore(o)
      BY <3>3 DEF FinishRestore, EvidenceNames
    <3> QED
      BY <1>4, <3>1, <3>2, <3>3
         DEF Maintains, BeginBackup, CreateBackup, CopyBackup, FailBackup,
             BeginRestore, CreateRestored, CopyRestored, FailRestore,
             KillCommand
  <2> QED
    BY <2>1, <2>2, <2>3 DEF BackupInv
<1>5. ASSUME NEW r \in Release, NEW path \in Paths, Restart(r, path)
      PROVE  BackupInv' /\ EvidenceNames'
  <2>1. UNCHANGED <<backup, op, evidence, copied>>
    BY <1>5 DEF Restart, maintained
  <2>2. \A o \in Operators : op'[o].pc \notin BackingUp
    BY <1>5, <2>1 DEF Restart, Idle, BackingUp
  <2>3. \A name \in Seconds :
          /\ copied'[name].begun = 0 => Unnamed(name)'
          /\ copied'[name].begun = 1 => Described(name)'
    BY <2>1 DEF BackupInv, Unnamed, Described
  <2>4. EvidenceNames'
    BY <2>1 DEF EvidenceNames
  <2> QED
    BY <2>2, <2>3, <2>4 DEF BackupInv
<1>6. CASE UNCHANGED vars
  <2>1. db' = db /\ UNCHANGED maintained
    BY <1>6 DEF vars, db, maintained
  <2> QED
    BY <1>1, <2>1
<1> QED
  BY <1>2, <1>3, <1>4, <1>5, <1>6, Steps

\* While one backup was begun in a second, its evidence is of the file that
\* stands, and a drill that passes restored a copy of the live database, with
\* any number of operators, kills and restarts.
THEOREM PassedDrillsRestoreCopies == Spec => []PassedDrillRestoresCopy
<1>1. Types /\ BackupInv /\ EvidenceNames /\ [Next]_vars
        => BackupInv' /\ EvidenceNames'
  BY BackupStays
<1>2. BackupInv /\ EvidenceNames => PassedDrillRestoresCopy
  BY DEF BackupInv, Described, EvidenceNames, PassedDrillRestoresCopy,
         DrillPassed
<1> QED
  BY <1>1, <1>2, BackupInit, TypesHold, PTL DEF Spec

=============================================================================
