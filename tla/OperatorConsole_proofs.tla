------------------------ MODULE OperatorConsole_proofs -------------------------
(***************************************************************************)
(* What the page shows and what a finished one-click run has done, for any *)
(* jobs, accounts and scripts, whatever is refused, lost or reloaded.      *)
(***************************************************************************)
EXTENDS OperatorConsole, FiniteSetTheorems, TLAPS

(***************************************************************************)
(* Types                                                                   *)
(***************************************************************************)

Anybody == Person \cup {"nobody"}

AnyJob == Jobs \cup {NoJob}

Fields ==
  [job : Jobs, window : Windows, points : TypedPoints, version : Version,
   person : Person, chosen : BOOLEAN, xlsx : AnyJob, pdf : AnyJob]

\* A job of the database.
Record ==
  [state : WorkflowState \cup {"none"},
   entered : [WorkflowState -> [by : Anybody, run : Nat]],
   plan : SUBSET Setpoints, source : AnyJob, reference : AnyJob,
   windows : SUBSET [id : Windows, point : Setpoints], previewed : BOOLEAN]

Phase == {"calling", "answered", "orphan", "finished"}

\* A script that is under way, or a one-click script that came to its end.
UnderWay ==
  [phase : Phase, button : DOMAIN Sequel \cup PageButtons, at : Nat,
   run : 1..MaxClicks, job : Jobs, window : Windows, points : TypedPoints,
   number : Numbers, version : Version, xlsx : AnyJob, pdf : AnyJob,
   person : Person, answer : Nat]

Placed(c) == c.at \in 1..Len(ScriptOf(c.button))

ScriptsType ==
  /\ script \in [Scripts -> UnderWay \cup {Idle}]
  /\ \A s \in Scripts : script[s] # Idle => Placed(script[s])

StoredType ==
  /\ db \in [Jobs -> Record]
  /\ owner \in [Windows \cup Numbers -> AnyJob]
  /\ approved \in [constants : SUBSET Version, budgets : SUBSET Version]

Types ==
  /\ page \in Fields
  /\ pill \in [Pill -> AnyJob]
  /\ local \in BOOLEAN /\ clicks \in 0..MaxClicks
  /\ ScriptsType
  /\ StoredType

(***************************************************************************)
(* Scripts                                                                 *)
(***************************************************************************)

LEMMA Joined ==
  ASSUME NEW C, NEW a \in Seq(C), NEW b \in Seq(C)
  PROVE  /\ Len(a \o b) = Len(a) + Len(b)
         /\ DOMAIN (a \o b) = 1..(Len(a) + Len(b))
         /\ \A k \in 1..Len(a) : (a \o b)[k] = a[k]
         /\ \A k \in (Len(a) + 1)..(Len(a) + Len(b)) :
              (a \o b)[k] = b[k - Len(a)]
  OBVIOUS

LEMMA OneClickCalls ==
  /\ Len(OneClick) = 19 /\ DOMAIN OneClick = 1..19
  /\ \A k \in 1..9 : OneClick[k] = OneClickFirst[k]
  /\ \A k \in 10..19 : OneClick[k] = OneClickLast[k - 9]
<1> DEFINE First == {OneClickFirst[k] : k \in 1..9}
           Last == {OneClickLast[k] : k \in 1..10}
           C == First \cup Last
<1>1. /\ OneClickFirst = [k \in 1..9 |-> OneClickFirst[k]]
      /\ Len(OneClickFirst) = 9
  BY DEF OneClickFirst
<1>2. /\ OneClickLast = [k \in 1..10 |-> OneClickLast[k]]
      /\ Len(OneClickLast) = 10
  BY DEF OneClickLast
<1>3. /\ \A k \in 1..9 : OneClickFirst[k] \in C
      /\ \A k \in 1..10 : OneClickLast[k] \in C
  OBVIOUS
<1> HIDE DEF C
<1>4. [k \in 1..9 |-> OneClickFirst[k]] \in Seq(C)
  BY <1>3
<1>5. [k \in 1..10 |-> OneClickLast[k]] \in Seq(C)
  BY <1>3
<1>6. OneClickFirst \in Seq(C) /\ OneClickLast \in Seq(C)
  BY <1>1, <1>2, <1>4, <1>5
<1>7. /\ Len(OneClick) = Len(OneClickFirst) + Len(OneClickLast)
      /\ DOMAIN OneClick = 1..(Len(OneClickFirst) + Len(OneClickLast))
      /\ \A k \in 1..Len(OneClickFirst) : OneClick[k] = OneClickFirst[k]
      /\ \A k \in (Len(OneClickFirst) + 1)..(Len(OneClickFirst) + Len(OneClickLast)) :
           OneClick[k] = OneClickLast[k - Len(OneClickFirst)]
  BY <1>6, Joined DEF OneClick
<1> QED
  BY <1>1, <1>2, <1>7, SMTT(30)

\* Each call of each script.
LEMMA Calls ==
  ASSUME NEW b \in DOMAIN Sequel \cup PageButtons
  PROVE  /\ Len(ScriptOf(b)) \in Nat \ {0}
         /\ DOMAIN ScriptOf(b) = 1..Len(ScriptOf(b))
         /\ b = "one_click" => ScriptOf(b) = OneClick
         /\ b = "upload_both" => ScriptOf(b) = UploadBoth
         /\ b = "approve_both" => ScriptOf(b) = ApproveBoth
         /\ b \in DOMAIN ButtonPill =>
              ScriptOf(b) = <<Call(b, "field", ButtonPill[b], TRUE)>>
         /\ b \in PageButtons \ DOMAIN ButtonPill =>
              ScriptOf(b) = <<Plain(b, "field")>>
<1>1. Len(UploadBoth) = 2 /\ Len(ApproveBoth) = 2
  BY DEF UploadBoth, ApproveBoth
<1>2. PageButtons \cap DOMAIN Sequel = {}
  BY DEF Sequel, PageButtons, SampleButtons
<1>3. DOMAIN ButtonPill \subseteq PageButtons
  BY DEF ButtonPill, PageButtons
<1>4. /\ DOMAIN Sequel = {"one_click", "upload_both", "approve_both"}
      /\ Sequel["one_click"] = OneClick
      /\ Sequel["upload_both"] = UploadBoth
      /\ Sequel["approve_both"] = ApproveBoth
  BY DEF Sequel
<1>5. b \in DOMAIN Sequel => ScriptOf(b) = Sequel[b]
  BY DEF ScriptOf
<1>6. b \in DOMAIN ButtonPill =>
        ScriptOf(b) = <<Call(b, "field", ButtonPill[b], TRUE)>>
  BY <1>2, <1>3 DEF ScriptOf
<1>7. b \in PageButtons \ DOMAIN ButtonPill =>
        ScriptOf(b) = <<Plain(b, "field")>>
  BY <1>2 DEF ScriptOf
<1>8. /\ b = "one_click" => ScriptOf(b) = OneClick
      /\ b = "upload_both" => ScriptOf(b) = UploadBoth
      /\ b = "approve_both" => ScriptOf(b) = ApproveBoth
  BY <1>4, <1>5
<1>9. Len(ScriptOf(b)) \in {1, 2, 19}
  <2>1. CASE b \in DOMAIN Sequel
    BY <1>1, <1>4, <1>8, <2>1, OneClickCalls
  <2>2. CASE b \notin DOMAIN Sequel
    <3>1. \A call : Len(<<call>>) = 1
      OBVIOUS
    <3> QED
      BY <1>6, <1>7, <2>2, <3>1
  <2> QED
    BY <2>1, <2>2
<1>10. Len(ScriptOf(b)) \in Nat \ {0}
  <2>1. \A n \in {1, 2, 19} : n \in Nat \ {0}
    OBVIOUS
  <2> QED
    BY <1>9, <2>1, Zenon
<1>11. DOMAIN ScriptOf(b) = 1..Len(ScriptOf(b))
  <2>1. CASE b = "one_click"
    BY <1>8, <2>1, OneClickCalls
  <2>2. CASE b \in {"upload_both", "approve_both"}
    BY <1>8, <2>2 DEF UploadBoth, ApproveBoth
  <2>3. CASE b \notin DOMAIN Sequel
    <3>1. \A call : DOMAIN <<call>> = 1..Len(<<call>>)
      OBVIOUS
    <3> QED
      BY <1>6, <1>7, <2>3, <3>1
  <2> QED
    BY <1>4, <2>1, <2>2, <2>3
<1> QED
  BY <1>6, <1>7, <1>8, <1>10, <1>11, Zenon

\* A call that sets a pill to Done, and what its script called before.
LEMMA DoneCalls ==
  ASSUME NEW b \in DOMAIN Sequel \cup PageButtons,
         NEW k \in 1..Len(ScriptOf(b)),
         ScriptOf(b)[k].step # "none", ScriptOf(b)[k].done
  PROVE  LET call == ScriptOf(b)[k]
         IN /\ call.step \in Pill
            /\ \/ call.step = "job" /\ call.route = "create_job"
               \/ call.step = "metadata" /\ call.route = "metadata"
               \/ /\ call.step = "equipment" /\ call.route = "approve_budget"
                  /\ b \in {"one_click", "approve_both"}
                  /\ k - 1 \in 1..(k - 1)
                  /\ ScriptOf(b)[k - 1].route = "approve_constants"
               \/ call.step = "measurement" /\ call.route = "complete_windows"
               \/ call.step = "calculation" /\ call.route = "calculate"
               \/ /\ call.step = "review" /\ call.route = "artifact"
                  /\ k - 1 \in 1..(k - 1)
                  /\ ScriptOf(b)[k - 1].route = "rendered_release"
<1>1. CASE b = "one_click"
  <2>0. ScriptOf(b) = OneClick /\ k \in 1..19
    BY <1>1, Calls, OneClickCalls
  <2>1. CASE k \in 1..9
    BY <1>1, <2>0, <2>1, OneClickCalls, SMTT(30) DEF OneClickFirst, Plain, Call, Pill
  <2>2. CASE k \in 10..19
    <3>1. ScriptOf(b)[k] = OneClickLast[k - 9]
      BY <2>0, <2>2, OneClickCalls
    <3>2. k - 9 \in {2, 3, 10}
      BY <2>2, <3>1 DEF OneClickLast, Plain, Call
    <3>3. ScriptOf(b)[k - 1] = OneClickLast[k - 10]
      BY <2>0, <3>2, OneClickCalls
    <3> QED
      BY <1>1, <2>2, <3>1, <3>2, <3>3 DEF OneClickLast, Plain, Call, Pill
  <2> QED
    BY <2>0, <2>1, <2>2
<1>2. CASE b \in {"upload_both", "approve_both"}
  BY <1>2, Calls DEF UploadBoth, ApproveBoth, Plain, Call, Pill
<1>3. CASE b \in DOMAIN ButtonPill
  BY <1>3, Calls DEF ButtonPill, Call, Pill
<1>4. CASE b \in PageButtons \ DOMAIN ButtonPill
  BY <1>4, Calls DEF Call, Plain
<1> QED
  BY <1>1, <1>2, <1>3, <1>4 DEF Sequel

(***************************************************************************)
(* Types                                                                   *)
(***************************************************************************)

\* What the page may send as setpoints.
LEMMA Points ==
  ASSUME NEW points \in TypedPoints
  PROVE  /\ {points[n] : n \in DOMAIN points} \in SUBSET Setpoints
         /\ Head(points) \in {points[n] : n \in DOMAIN points}
<1>1. CASE \E p \in Setpoints : points = <<p>>
  <2>1. PICK p \in Setpoints : points = <<p>>
    BY <1>1
  <2> QED
    BY <2>1
<1>2. CASE points \in Setpoints \X Setpoints
  <2>1. PICK p \in Setpoints, q \in Setpoints : points = <<p, q>>
    BY <1>2
  <2> QED
    BY <2>1
<1> QED
  BY <1>1, <1>2 DEF TypedPoints

LEMMA BlankPageTyped == BlankPage \in Fields
<1>1. /\ (CHOOSE job \in Jobs : TRUE) \in Jobs
      /\ (CHOOSE w \in Windows : TRUE) \in Windows
      /\ (CHOOSE s \in Setpoints : TRUE) \in Setpoints
  BY ConsoleAssumption
<1>2. <<CHOOSE s \in Setpoints : TRUE>> \in TypedPoints
  BY <1>1 DEF TypedPoints
<1> QED
  BY <1>1, <1>2, ConsoleAssumption DEF BlankPage, Fields, Version, AnyJob

LEMMA TypesInit ==
  ASSUME Init
  PROVE  Types
<1>1. page \in Fields
  BY BlankPageTyped DEF Init, Fields
<1>2. pill \in [Pill -> AnyJob]
  BY DEF Init, BlankPills, AnyJob
<1>3. ScriptsType
  BY DEF Init, ScriptsType
<1>4. NewJob \in Record
  BY DEF NewJob, Record, NoEntry, Anybody, AnyJob
<1>5. StoredType
  BY <1>4 DEF Init, StoredType, AnyJob
<1> QED
  BY <1>1, <1>2, <1>3, <1>5, ConsoleAssumption DEF Init, Types

\* The account a call is sent for.
LEMMA Senders ==
  ASSUME NEW call, NEW fields \in Fields
  PROVE  Sender(call, fields) \in Person
  BY ConsoleAssumption DEF Sender, Fields

\* A script as it is clicked.
LEMMA Contexts ==
  ASSUME Types, NEW button \in Buttons, clicks < MaxClicks
  PROVE  /\ Context(button, page) \in UnderWay
         /\ Placed(Context(button, page))
         /\ Context(button, page) # Idle
<1>1. button \in DOMAIN Sequel \cup PageButtons
  BY ButtonsAssumption
<1>2. Sender(ScriptOf(button)[1], page) \in Person
  BY Senders DEF Types
<1>3. clicks + 1 \in 1..MaxClicks
  BY ConsoleAssumption DEF Types
<1>4. /\ page.job \in Jobs /\ page.window \in Windows
      /\ page.points \in TypedPoints /\ page.version \in Version
      /\ page.xlsx \in AnyJob /\ page.pdf \in AnyJob
  BY DEF Types, Fields
<1>5. /\ Default \in Numbers /\ SampleNumber \in Numbers
      /\ SampleVersion \in Version /\ Jobs \subseteq Version
  BY DEF Numbers, Version
<1>6. Context(button, page) \in UnderWay
  BY <1>1, <1>2, <1>3, <1>4, <1>5 DEF Context, UnderWay, Phase
<1>7. Placed(Context(button, page))
  <2>1. \A n \in Nat \ {0} : 1 \in 1..n
    OBVIOUS
  <2>2. /\ Context(button, page).at = 1
        /\ Context(button, page).button = button
    BY DEF Context
  <2>3. Len(ScriptOf(button)) \in Nat \ {0}
    BY <1>1, Calls
  <2> QED
    BY <2>1, <2>2, <2>3, Zenon DEF Placed
<1> QED
  BY <1>6, <1>7 DEF Context, Idle

\* What a service is asked for by a script under way.
LEMMA Asked ==
  ASSUME ScriptsType, NEW s \in Scripts, script[s].phase # "idle"
  PROVE  /\ script[s] \in UnderWay /\ script[s] # Idle
         /\ Placed(script[s])
  BY DEF ScriptsType, Idle

\* What a service makes of a stored job.
LEMMA StoredTyped ==
  ASSUME NEW c \in UnderWay, NEW job \in Record, NEW route
  PROVE  Stored(job, route, c) \in Record
<1>1. /\ c.person \in Anybody /\ c.run \in Nat /\ c.window \in Windows
      /\ c.xlsx \in AnyJob /\ c.pdf \in AnyJob /\ c.points \in TypedPoints
  BY ConsoleAssumption DEF UnderWay, Anybody
<1>2. /\ {c.points[n] : n \in DOMAIN c.points} \in SUBSET Setpoints
      /\ Head(c.points) \in Setpoints
  BY <1>1, Points
<1>3. CASE route = "data_entry"
  BY <1>1, <1>2, <1>3 DEF Stored, Record
<1>4. CASE route = "irtd_rows"
  BY <1>1, <1>4 DEF Stored, Record
<1>5. CASE route = "select_window"
  <2>1. [id |-> c.window, point |-> Head(c.points)]
          \in [id : Windows, point : Setpoints]
    BY <1>1, <1>2
  <2>2. Stored(job, route, c)
          = [job EXCEPT !.windows =
               job.windows \cup {[id |-> c.window, point |-> Head(c.points)]}]
    BY <1>5 DEF Stored
  <2> QED
    BY <2>1, <2>2 DEF Record
<1>6. CASE route \in {"preview", "preview_pdf"}
  BY <1>6 DEF Stored, Record
<1>7. CASE route \notin {"data_entry", "irtd_rows", "select_window", "preview",
                        "preview_pdf"}
  BY <1>7 DEF Stored
<1> QED
  BY <1>3, <1>4, <1>5, <1>6, <1>7

LEMMA RecordsStay ==
  ASSUME NEW c \in UnderWay, NEW job \in Record, NEW route
  PROVE  Entered(Stored(job, route, c), route, c) \in Record
<1>1. c.person \in Anybody /\ c.run \in Nat
  BY ConsoleAssumption DEF UnderWay, Anybody
<1>2. \A r \in DOMAIN Target : Target[r] \in WorkflowState
  BY DEF Target, WorkflowState
<1>3. ASSUME NEW kept \in Record PROVE Entered(kept, route, c) \in Record
  BY <1>1, <1>2 DEF Entered, Record
<1> QED
  BY <1>3, StoredTyped

LEMMA StoredStays ==
  ASSUME Types, NEW c \in UnderWay, NEW route, Serve(route, c)
  PROVE  StoredType'
<1>1. /\ c.job \in Jobs /\ c.version \in Version
  BY DEF UnderWay
<1>2. db' \in [Jobs -> Record]
  <2>1. db[c.job] \in Record
    BY <1>1 DEF Types, StoredType
  <2>2. Entered(Stored(db[c.job], route, c), route, c) \in Record
    BY <2>1, RecordsStay
  <2> QED
    BY <1>1, <2>2 DEF Serve, Types, StoredType
<1>3. owner' \in [Windows \cup Numbers -> AnyJob]
  BY <1>1 DEF Serve, Types, StoredType, AnyJob
<1>4. approved' \in [constants : SUBSET Version, budgets : SUBSET Version]
  BY <1>1 DEF Serve, Types, StoredType
<1> QED
  BY <1>2, <1>3, <1>4 DEF StoredType

\* The next call of a script that is not at its end.
LEMMA ScriptsGoOn ==
  ASSUME Types, NEW c \in UnderWay, Placed(c),
         c.at # Len(ScriptOf(c.button))
  PROVE  /\ Continued(c, ScriptOf(c.button)) \in UnderWay
         /\ Placed(Continued(c, ScriptOf(c.button)))
         /\ Continued(c, ScriptOf(c.button)).phase = "calling"
         /\ Continued(c, ScriptOf(c.button)).at = AtAfter(c)
<1> DEFINE calls == ScriptOf(c.button)
           held == HeldFiles(c, calls[c.at].route)
<1>1. /\ page.xlsx \in AnyJob /\ page.pdf \in AnyJob /\ page \in Fields
  BY DEF Types, Fields
<1>2. /\ held \in UnderWay
      /\ held.button = c.button
  BY <1>1 DEF HeldFiles, UnderWay, AnyJob
<1>3. Sender(calls[AtAfter(c)], page) \in Person
  BY <1>1, Senders
<1>4. AtAfter(c) \in 1..Len(calls)
  <2>1. c.at \in 1..Len(calls) /\ c.at # Len(calls)
    BY DEF UnderWay, Placed
  <2>2. Len(calls) \in Nat
    BY Calls DEF UnderWay
  <2>3. c.button = "one_click" => Len(calls) = 19
    BY Calls, OneClickCalls DEF UnderWay
  <2> HIDE DEF calls
  <2>4. c.at + 1 \in 1..Len(calls)
    BY <2>1, <2>2
  <2>5. Len(calls) = 19 => 6 \in 1..Len(calls)
    OBVIOUS
  <2> QED
    BY <2>3, <2>4, <2>5, Zenon DEF AtAfter, DataEntry
<1>5. AtAfter(c) \in Nat
  BY <1>4
<1> HIDE DEF held
<1>6. Continued(c, calls)
        = [held EXCEPT !.phase = "calling", !.at = AtAfter(c),
                       !.person = Sender(calls[AtAfter(c)], page)]
  BY DEF Continued, held
<1> QED
  BY <1>2, <1>3, <1>4, <1>5, <1>6, ZenonT(30) DEF UnderWay, Phase, Placed

\* A script after the answer to its call.
LEMMA ReceivedTyped ==
  ASSUME Types, NEW s \in Scripts, Receive(s)
  PROVE  /\ script' \in [Scripts -> UnderWay \cup {Idle}]
         /\ \A r \in Scripts : script'[r] # Idle => Placed(script'[r])
<1> DEFINE c == script[s]
           calls == ScriptOf(c.button)
<1>1. c \in UnderWay /\ Placed(c)
  BY Asked DEF Types, Receive
<1>2. script'
        = [script EXCEPT ![s] = IF Blocked(c) THEN Idle ELSE Continued(c, calls)]
  BY DEF Receive
<1>3. CASE c.at = Len(calls)
  <2>1. Continued(c, calls) \in {Idle, [c EXCEPT !.phase = "finished"]}
    BY <1>3 DEF Continued
  <2>2. [c EXCEPT !.phase = "finished"] \in UnderWay
    BY <1>1 DEF UnderWay, Phase
  <2>3. Placed([c EXCEPT !.phase = "finished"])
    BY <1>1 DEF Placed, UnderWay
  <2> QED
    BY <1>2, <2>1, <2>2, <2>3 DEF Types, ScriptsType
<1>4. CASE c.at # Len(calls)
  <2>1. Continued(c, calls) \in UnderWay /\ Placed(Continued(c, calls))
    BY <1>1, <1>4, ScriptsGoOn
  <2> HIDE DEF c
  <2> QED
    BY <1>2, <2>1 DEF Types, ScriptsType
<1> QED
  BY <1>3, <1>4

\* Fields and pills after the answer to a call.
LEMMA PageReceivedTyped ==
  ASSUME Types, NEW s \in Scripts, Receive(s)
  PROVE  page' \in Fields /\ pill' \in [Pill -> AnyJob]
<1> DEFINE c == script[s]
           call == ScriptOf(c.button)[c.at]
<1>1. c \in UnderWay /\ Placed(c)
  BY Asked DEF Types, Receive
<1>2. c.job \in AnyJob
  BY <1>1 DEF UnderWay, AnyJob
<1>3. FieldsAfter(c, call.route) \in Fields
  BY <1>2 DEF FieldsAfter, Fields, Types
<1>4. PillsAfter(c, call) \in [Pill -> AnyJob]
  BY <1>2 DEF PillsAfter, Types, AnyJob
<1> QED
  BY <1>3, <1>4 DEF Receive, Types

LEMMA TypesStay ==
  ASSUME Types, [Next]_vars
  PROVE  Types'
<1>1. ASSUME NEW s \in Scripts, NEW button \in Buttons, Click(s, button)
      PROVE  Types'
  <2>1. script' \in [Scripts -> UnderWay \cup {Idle}]
    BY <1>1, Contexts DEF Click, Types, ScriptsType
  <2>2. \A r \in Scripts : script'[r] # Idle => Placed(script'[r])
    BY <1>1, Contexts DEF Click, Types, ScriptsType
  <2>3. page' \in Fields
    BY <1>1 DEF Click, Types, Fields, Version
  <2>4. clicks' \in 0..MaxClicks
    BY <1>1, ConsoleAssumption DEF Click, Types
  <2> QED
    BY <1>1, <2>1, <2>2, <2>3, <2>4 DEF Click, Types, ScriptsType, StoredType
<1>2. ASSUME NEW s \in Scripts, Answer(s) PROVE Types'
  <2> DEFINE c == script[s]
             route == ScriptOf(c.button)[c.at].route
             status == Status(Served(route), Error(route, c))
  <2>1. c \in UnderWay /\ Placed(c)
    BY <1>2, Asked DEF Types, Answer
  <2>2. status \in Nat
    BY DEF Status
  <2>3. script' = [script EXCEPT ![s] =
                     IF c.phase = "orphan" THEN Idle
                     ELSE [c EXCEPT !.phase = "answered", !.answer = status]]
    BY <1>2 DEF Answer
  <2> HIDE DEF status
  <2>4. /\ [c EXCEPT !.phase = "answered", !.answer = status] \in UnderWay
        /\ Placed([c EXCEPT !.phase = "answered", !.answer = status])
    BY <2>1, <2>2 DEF UnderWay, Placed, Phase
  <2>5. ScriptsType'
    BY <2>3, <2>4 DEF Types, ScriptsType
  <2>6. StoredType'
    BY <1>2, <2>1, StoredStays DEF Answer, Types, StoredType
  <2> QED
    BY <1>2, <2>5, <2>6 DEF Answer, Types
<1>3. ASSUME NEW s \in Scripts, Lose(s) PROVE Types'
  <2> DEFINE c == script[s]
  <2>1. c \in UnderWay /\ Placed(c)
    BY <1>3, Asked DEF Types, Lose
  <2>2. /\ [c EXCEPT !.phase = "answered", !.answer = 0] \in UnderWay
        /\ Placed([c EXCEPT !.phase = "answered", !.answer = 0])
    BY <2>1 DEF UnderWay, Placed, Phase
  <2>3. ScriptsType'
    BY <1>3, <2>2 DEF Lose, Types, ScriptsType
  <2> QED
    BY <1>3, <2>3 DEF Lose, Types, StoredType
<1>4. ASSUME NEW s \in Scripts, Receive(s) PROVE Types'
  <2>1. ScriptsType'
    BY <1>4, ReceivedTyped DEF ScriptsType
  <2> QED
    BY <1>4, <2>1, PageReceivedTyped DEF Receive, Types, StoredType
<1>5. ASSUME EditField PROVE Types'
  <2>1. page' \in Fields
    BY <1>5 DEF EditField, Edit, Types, Fields
  <2> QED
    BY <1>5, <2>1 DEF EditField, Edit, Types, ScriptsType, StoredType
<1>6. ASSUME Reload PROVE Types'
  <2>1. \A s \in Scripts : script[s].phase = "calling" =>
          /\ [script[s] EXCEPT !.phase = "orphan"] \in UnderWay
          /\ Placed([script[s] EXCEPT !.phase = "orphan"])
    BY DEF Types, ScriptsType, UnderWay, Placed, Phase, Idle
  <2>2. ScriptsType'
    BY <1>6, <2>1 DEF Reload, ScriptsType
  <2>3. pill' \in [Pill -> AnyJob]
    BY <1>6 DEF Reload, BlankPills, AnyJob
  <2> QED
    BY <1>6, <2>2, <2>3, BlankPageTyped DEF Reload, Types, StoredType
<1>7. CASE UNCHANGED vars
  BY <1>7 DEF vars, Types, ScriptsType, StoredType
<1> QED
  BY <1>1, <1>2, <1>3, <1>4, <1>5, <1>6, <1>7 DEF Next

LEMMA TypesHold == Spec => []Types
<1> QED
  BY TypesInit, TypesStay, PTL DEF Spec

\* Page, scripts and stored jobs keep the shape the code gives them, for any
\* number of scripts, jobs and edits.
THEOREM TypeCorrect == Spec => []TypeOK
<1>1. ASSUME Types PROVE TypeOK
  <2>1. ASSUME NEW s \in Scripts, script[s] # Idle
        PROVE  /\ script[s].phase \in {"calling", "answered", "orphan", "finished"}
               /\ script[s].at \in DOMAIN ScriptOf(script[s].button)
               /\ \A f \in DOMAIN Held : script[s][f] \in Held[f]
    <3>1. script[s] \in UnderWay /\ Placed(script[s])
      BY <1>1, <2>1 DEF Types, ScriptsType
    <3>2. DOMAIN ScriptOf(script[s].button) = 1..Len(ScriptOf(script[s].button))
      BY <3>1, Calls DEF UnderWay
    <3>3. \A f \in DOMAIN Held : script[s][f] \in Held[f]
      <4>1. /\ script[s].run \in 1..MaxClicks /\ script[s].job \in Jobs
            /\ script[s].window \in Windows /\ script[s].number \in Numbers
            /\ script[s].version \in Version /\ script[s].person \in Person
            /\ script[s].xlsx \in AnyJob /\ script[s].pdf \in AnyJob
        BY <3>1 DEF UnderWay
      <4>2. DOMAIN Held = {"run", "job", "window", "number", "version", "xlsx",
                           "pdf", "person"}
        BY DEF Held
      <4>3. /\ Held["run"] = 1..MaxClicks /\ Held["job"] = Jobs
            /\ Held["window"] = Windows /\ Held["number"] = Numbers
            /\ Held["version"] = Version /\ Held["person"] = Person
            /\ Held["xlsx"] = AnyJob /\ Held["pdf"] = AnyJob
        BY DEF Held, AnyJob
      <4> QED
        BY <4>1, <4>2, <4>3
    <3> QED
      BY <3>1, <3>2, <3>3 DEF UnderWay, Phase, Placed
  <2> QED
    BY <1>1, <2>1 DEF Types, TypeOK, Fields, AnyJob, StoredType, Record
<1> QED
  BY <1>1, TypesHold, PTL

(***************************************************************************)
(* What is stored about a job                                              *)
(***************************************************************************)

Level ==
  [none |-> 0, draft |-> 1, metadata_complete |-> 2, equipment_selected |-> 3,
   data_entered |-> 4, windows_selected |-> 5, calculated |-> 6,
   technical_review |-> 7, qa_review |-> 8, approved |-> 9, released |-> 10]

\* The states a job has entered are those up to its own.
Climbed(job) ==
  /\ job.state \in DOMAIN Level
  /\ \A t \in WorkflowState :
       job.entered[t] # NoEntry
         <=> (t \in DOMAIN Level /\ Level[t] <= Level[job.state])

\* The steps of its reviews were taken by different people.
Independent(job) ==
  \A t, u \in Reviewed :
    (Level[t] < Level[u] /\ job.entered[u] # NoEntry)
      => job.entered[t].by # job.entered[u].by

JobsInv ==
  \A job \in Jobs : Climbed(db[job]) /\ Independent(db[job])

(***************************************************************************)
(* What a call that succeeded left behind                                  *)
(***************************************************************************)

Effect(route, c) ==
  /\ route \in DOMAIN Target => db[c.job].entered[Target[route]].run = c.run
  /\ route = "data_entry" =>
       /\ db[c.job].source = c.job
       /\ db[c.job].plan = {c.points[n] : n \in DOMAIN c.points}
  /\ route = "irtd_rows" => db[c.job].reference = c.job
  /\ route = "calculate" => db[c.job].plan \subseteq {Head(c.points)}
  /\ route = "approve_constants" => c.version \in approved.constants
  /\ route = "approve_budget" => c.version \in approved.budgets
  /\ route = "artifact" => owner[c.number] = c.job

Answered(c) ==
  \/ c.phase = "finished"
  \/ c.phase = "answered" /\ c.answer = 200

\* Every call before the present one succeeded, and so did the present one if
\* its answer says so.
Accomplished(c) ==
  /\ \A k \in 1..(c.at - 1) : Effect(ScriptOf(c.button)[k].route, c)
  /\ Answered(c) => Effect(ScriptOf(c.button)[c.at].route, c)

Purposeful(c) ==
  /\ c.phase = "finished" =>
       c.button = "one_click" /\ c.at = Len(ScriptOf(c.button))
  /\ c.button \in {"one_click", "approve_both"} => c.version = c.job

ScriptsInv ==
  \A s \in Scripts :
    script[s] # Idle => Accomplished(script[s]) /\ Purposeful(script[s])

(***************************************************************************)
(* One service call                                                        *)
(***************************************************************************)

\* The state in which a job must be for a call that changes it.
Before ==
  [ create_job |-> "none", metadata |-> "draft",
    equipment |-> "metadata_complete", data_entry |-> "equipment_selected",
    complete_windows |-> "data_entered", calculate |-> "windows_selected",
    submit_review |-> "calculated", approve_technical |-> "technical_review",
    approve_qa |-> "qa_review", rendered_release |-> "approved" ]

LEMMA Rungs ==
  ASSUME NEW route \in DOMAIN Target
  PROVE  /\ Target[route] \in WorkflowState /\ Target[route] \in DOMAIN Level
         /\ Before[route] \in DOMAIN Level
         /\ Level[Target[route]] = Level[Before[route]] + 1
  BY DEF Target, Before, Level, WorkflowState

LEMMA Levels ==
  /\ \A t \in DOMAIN Level : Level[t] \in Nat
  /\ \A t, u \in DOMAIN Level : Level[t] = Level[u] => t = u
  /\ Reviewed \subseteq DOMAIN Level
  /\ WorkflowState \cap DOMAIN Level = DOMAIN Level \ {"none"}
  BY DEF Level, Reviewed, WorkflowState

\* What the first and the last state a job has entered say of where it is.
LEMMA EnteredEnds ==
  ASSUME NEW job, Climbed(job)
  PROVE  /\ job.entered["draft"] # NoEntry => job.state # "none"
         /\ job.entered["released"] # NoEntry => job.state = "released"
<1>1. job.state \in DOMAIN Level
  BY DEF Climbed
<1>2. /\ "draft" \in WorkflowState /\ "released" \in WorkflowState
      /\ ~(Level["draft"] <= Level["none"])
      /\ \A t \in DOMAIN Level : Level["released"] <= Level[t] => t = "released"
  BY DEF Level, WorkflowState
<1>3. /\ job.entered["draft"] # NoEntry => Level["draft"] <= Level[job.state]
      /\ job.entered["released"] # NoEntry => Level["released"] <= Level[job.state]
  BY <1>2 DEF Climbed
<1> QED
  BY <1>1, <1>2, <1>3, ZenonT(30)

\* A call that changes a job's state is served in one state only.
LEMMA ServedFrom ==
  ASSUME NEW c, NEW route \in DOMAIN Target, Error(route, c) = "none"
  PROVE  db[c.job].state = Before[route]
<1>1. CASE route = "create_job"
  BY <1>1 DEF Error, Repeated, Before
<1>2. CASE route # "create_job"
  <2>1. route \notin {"create_job", "approve_constants", "approve_budget",
                      "upload_xlsx", "upload_pdf"}
    BY <1>2 DEF Target
  <2>2. Accepts(route, c)
    BY <2>1 DEF Error
  <2> QED
    BY <1>2, <2>2 DEF Accepts, Target, Before
<1> QED
  BY <1>1, <1>2

\* What the other calls were served on.
LEMMA ServedOn ==
  ASSUME NEW c, NEW route, Error(route, c) = "none"
  PROVE  /\ route = "data_entry" => c.xlsx = c.job
         /\ route = "irtd_rows" => c.pdf = c.job /\ db[c.job].reference = NoJob
         /\ route = "calculate" => db[c.job].plan \subseteq {Head(c.points)}
         /\ route = "rendered_release" => owner[c.number] = NoJob
         /\ route = "select_window" => owner[c.window] = NoJob
         /\ route = "artifact" => owner[c.number] = c.job
<1>1. CASE route \in {"data_entry", "irtd_rows", "calculate", "rendered_release",
                      "select_window", "artifact"}
  <2>1. Accepts(route, c)
    BY <1>1 DEF Error
  <2>2. route = "select_window" => owner[c.window] = NoJob
    BY <1>1 DEF Error
  <2> QED
    BY <1>1, <2>1, <2>2 DEF Accepts
<1>2. CASE route \notin {"data_entry", "irtd_rows", "calculate", "rendered_release",
                         "select_window", "artifact"}
  BY <1>2
<1> QED
  BY <1>1, <1>2

\* Nobody takes two steps of one job's reviews.
LEMMA ServedToAnother ==
  ASSUME NEW c, NEW route \in DOMAIN Target, Error(route, c) = "none",
         NEW t \in Reviewed, Level[t] < Level[Target[route]]
  PROVE  Target[route] \in Reviewed => db[c.job].entered[t].by # c.person
<1>1. CASE route = "approve_technical"
  <2>1. ~ Conflicting(c.job, "technical_review_approval", c.person)
    BY <1>1 DEF Error, Accepts
  <2>2. t = "technical_review"
    BY <1>1 DEF Reviewed, Level, Target
  <2> QED
    BY <2>1, <2>2 DEF Conflicting, WorkflowStateConflicts
<1>2. CASE route = "approve_qa"
  <2>1. ~ Conflicting(c.job, "qa_release_approval", c.person)
    BY <1>2 DEF Error, Accepts
  <2>2. t \in {"technical_review", "qa_review"}
    BY <1>2 DEF Reviewed, Level, Target
  <2> QED
    BY <2>1, <2>2 DEF Conflicting, WorkflowStateConflicts
<1>3. CASE route = "rendered_release"
  <2>1. ~ Conflicting(c.job, "certificate_release", c.person)
    BY <1>3 DEF Error, Accepts
  <2>2. t \in {"technical_review", "qa_review", "approved"}
    BY <1>3 DEF Reviewed, Level, Target
  <2> QED
    BY <2>1, <2>2 DEF Conflicting, WorkflowStateConflicts
<1>4. CASE route \notin {"approve_technical", "approve_qa", "rendered_release"}
  <2>1. Level[Target[route]] <= 7
    BY <1>4 DEF Target, Level
  <2>2. Level[t] >= 7
    BY DEF Reviewed, Level
  <2> QED
    BY <2>1, <2>2, Levels, Rungs
<1> QED
  BY <1>1, <1>2, <1>3, <1>4

\* What stays of a job.
Kept(job, later) ==
  /\ \A t \in WorkflowState :
       job.entered[t] # NoEntry => later.entered[t] = job.entered[t]
  /\ job.entered["data_entered"] # NoEntry =>
       later.plan = job.plan /\ later.source = job.source
  /\ job.reference # NoJob => later.reference = job.reference

\* The fields that the writes of a call leave alone.
LEMMA StoredKeeps ==
  ASSUME NEW c \in UnderWay, NEW job \in Record, NEW route
  PROVE  /\ Stored(job, route, c) \in Record
         /\ Stored(job, route, c).state = job.state
         /\ Stored(job, route, c).entered = job.entered
         /\ route # "data_entry" =>
              /\ Stored(job, route, c).plan = job.plan
              /\ Stored(job, route, c).source = job.source
         /\ route = "data_entry" =>
              /\ Stored(job, route, c).plan = {c.points[n] : n \in DOMAIN c.points}
              /\ Stored(job, route, c).source = c.xlsx
         /\ route # "irtd_rows" => Stored(job, route, c).reference = job.reference
         /\ route = "irtd_rows" => Stored(job, route, c).reference = c.pdf
<1>1. CASE route = "data_entry"
  BY <1>1, StoredTyped DEF Stored, Record
<1>2. CASE route = "irtd_rows"
  BY <1>2, StoredTyped DEF Stored, Record
<1>3. CASE route = "select_window"
  BY <1>3, StoredTyped DEF Stored, Record
<1>4. CASE route \in {"preview", "preview_pdf"}
  BY <1>4, StoredTyped DEF Stored, Record
<1>5. CASE route \notin {"data_entry", "irtd_rows", "select_window", "preview",
                         "preview_pdf"}
  BY <1>5, StoredTyped DEF Stored
<1> QED
  BY <1>1, <1>2, <1>3, <1>4, <1>5

\* A served call takes a job a step further, or leaves its states alone.
LEMMA JobStep ==
  ASSUME NEW c \in UnderWay, NEW route, Error(route, c) = "none",
         db[c.job] \in Record, Climbed(db[c.job]), Independent(db[c.job])
  PROVE  LET later == Entered(Stored(db[c.job], route, c), route, c)
         IN /\ Climbed(later)
            /\ Independent(later)
            /\ Kept(db[c.job], later)
<1> DEFINE job == db[c.job]
           stored == Stored(job, route, c)
           later == Entered(stored, route, c)
<1>1. /\ stored \in Record /\ stored.state = job.state
      /\ stored.entered = job.entered
      /\ route # "data_entry" =>
           stored.plan = job.plan /\ stored.source = job.source
      /\ route # "irtd_rows" => stored.reference = job.reference
  BY StoredKeeps
<1>2. route = "irtd_rows" => job.reference = NoJob
  BY ServedOn
<1> HIDE DEF stored
<1>3. CASE route \notin DOMAIN Target
  <2>1. later = stored /\ route # "data_entry"
    BY <1>3 DEF Entered, Target
  <2>2. later.state = job.state /\ later.entered = job.entered
    BY <1>1, <2>1
  <2>3. later.plan = job.plan /\ later.source = job.source
    BY <1>1, <2>1
  <2>4. job.reference # NoJob => later.reference = job.reference
    BY <1>1, <1>2, <2>1
  <2> HIDE DEF later
  <2>5. Climbed(later)
    BY <2>2 DEF Climbed
  <2>6. Independent(later)
    BY <2>2 DEF Independent
  <2>7. Kept(job, later)
    BY <2>2, <2>3, <2>4 DEF Kept
  <2> QED
    BY <2>5, <2>6, <2>7 DEF later, stored
<1>4. CASE route \in DOMAIN Target
  <2> DEFINE to == Target[route]
  <2>1. /\ to \in WorkflowState /\ to \in DOMAIN Level
        /\ job.state \in DOMAIN Level
        /\ Level[to] = Level[job.state] + 1
    BY <1>4, Rungs, ServedFrom
  <2>2. later = [stored EXCEPT !.state = to,
                               !.entered[to] = [by |-> c.person, run |-> c.run]]
    BY <1>4 DEF Entered
  <2>3. /\ later.state = to
        /\ later.entered[to] = [by |-> c.person, run |-> c.run]
        /\ \A t \in WorkflowState : t # to => later.entered[t] = job.entered[t]
        /\ later.plan = stored.plan /\ later.source = stored.source
        /\ later.reference = stored.reference
    BY <1>1, <2>1, <2>2 DEF Record
  <2>4. later.entered[to] # NoEntry /\ later.entered[to].by = c.person
    <3>1. c.run # 0
      BY ConsoleAssumption DEF UnderWay
    <3> QED
      BY <2>3, <3>1 DEF NoEntry
  <2>5. job.entered[to] = NoEntry
    BY <2>1, Levels DEF Climbed
  <2>6. to # "data_entered" => route # "data_entry"
    BY DEF Target
  <2>7. \A t \in Reviewed : to \in Reviewed /\ Level[t] < Level[to]
                            => job.entered[t].by # c.person
    BY <1>4, ServedToAnother
  <2> HIDE DEF to, later, job
  <2>8. Climbed(later)
    <3>1. ASSUME NEW t \in WorkflowState, t # to
          PROVE  later.entered[t] # NoEntry
                   <=> (t \in DOMAIN Level /\ Level[t] <= Level[to])
      <4>1. later.entered[t] # NoEntry
              <=> (t \in DOMAIN Level /\ Level[t] <= Level[job.state])
        BY <2>3, <3>1 DEF Climbed, job
      <4> QED
        BY <2>1, <3>1, <4>1, Levels
    <3> QED
      BY <2>1, <2>3, <2>4, <3>1, Levels DEF Climbed
  <2>9. Independent(later)
    <3> SUFFICES ASSUME NEW t \in Reviewed, NEW u \in Reviewed,
                        Level[t] < Level[u], later.entered[u] # NoEntry
                 PROVE  later.entered[t].by # later.entered[u].by
      BY DEF Independent
    <3>1. t \in WorkflowState /\ u \in WorkflowState /\ t # u
      BY Levels DEF Reviewed, WorkflowState
    <3>2. CASE u = to
      BY <2>3, <2>4, <2>7, <3>1, <3>2
    <3>3. CASE u # to
      <4>1. later.entered[u] = job.entered[u]
        BY <2>3, <3>1, <3>3
      <4>2. Level[u] <= Level[job.state]
        BY <3>1, <4>1 DEF Climbed, job
      <4>3. t # to
        BY <2>1, <4>2, <3>1, Levels
      <4> QED
        BY <2>3, <3>1, <4>1, <4>3 DEF Independent, job
    <3> QED
      BY <3>2, <3>3
  <2>10. Kept(job, later)
    <3>1. job.entered["data_entered"] # NoEntry => route # "data_entry"
      BY <2>5, <2>6
    <3> QED
      BY <1>1, <1>2, <2>3, <2>5, <3>1 DEF Kept
  <2> QED
    BY <2>8, <2>9, <2>10 DEF job, later, stored
<1> QED
  BY <1>3, <1>4 DEF stored

\* What no step takes back.
Grows ==
  /\ \A job \in Jobs : Kept(db[job], db'[job])
  /\ \A id \in Windows \cup Numbers : owner[id] # NoJob => owner'[id] = owner[id]
  /\ approved.constants \subseteq approved'.constants
  /\ approved.budgets \subseteq approved'.budgets

LEMMA ServeGrows ==
  ASSUME Types, JobsInv, NEW c \in UnderWay, NEW route,
         Error(route, c) = "none", Serve(route, c)
  PROVE  Grows /\ JobsInv'
<1> DEFINE later == Entered(Stored(db[c.job], route, c), route, c)
<1>1. c.job \in Jobs /\ db \in [Jobs -> Record]
  BY DEF UnderWay, Types, StoredType
<1>2. Climbed(later) /\ Independent(later) /\ Kept(db[c.job], later)
  BY <1>1, JobStep DEF JobsInv
<1>3. db' = db \/ db' = [db EXCEPT ![c.job] = later]
  BY DEF Serve
<1> HIDE DEF later
<1>4. \A job \in Jobs : Kept(db[job], db[job])
  BY DEF Kept
<1>5. \A job \in Jobs : Kept(db[job], db'[job])
  BY <1>1, <1>2, <1>3, <1>4
<1>6. \A job \in Jobs : Climbed(db'[job]) /\ Independent(db'[job])
  BY <1>1, <1>2, <1>3 DEF JobsInv
<1>7. \A id \in Windows \cup Numbers : owner[id] # NoJob => owner'[id] = owner[id]
  BY ServedOn DEF Serve, Types, StoredType
<1>8. /\ approved.constants \subseteq approved'.constants
      /\ approved.budgets \subseteq approved'.budgets
  BY DEF Serve
<1>9. JobsInv'
  BY <1>6 DEF JobsInv, Climbed, Independent
<1> QED
  BY <1>5, <1>7, <1>8, <1>9 DEF Grows

LEMMA StepGrows ==
  ASSUME Types, JobsInv, [Next]_vars
  PROVE  Grows /\ JobsInv'
<1>1. ASSUME UNCHANGED <<db, owner, approved>> PROVE Grows /\ JobsInv'
  BY <1>1 DEF Grows, Kept, JobsInv, Climbed, Independent
<1>2. ASSUME NEW s \in Scripts, Answer(s) PROVE Grows /\ JobsInv'
  <2>1. script[s] \in UnderWay
    BY <1>2, Asked DEF Types, Answer
  <2>2. PICK c : c = script[s]
    OBVIOUS
  <2>3. PICK route : route = ScriptOf(c.button)[c.at].route
    OBVIOUS
  <2>4. CASE Error(route, c) = "none"
    <3>1. Serve(route, c)
      BY <1>2, <2>2, <2>3, <2>4 DEF Answer
    <3> QED
      BY <2>1, <2>2, <2>4, <3>1, ServeGrows
  <2>5. CASE Error(route, c) # "none"
    BY <1>1, <1>2, <2>2, <2>3, <2>5 DEF Answer
  <2> QED
    BY <2>4, <2>5
<1> QED
  BY <1>1, <1>2 DEF Next, vars, Click, Lose, Receive, EditField, Edit, Reload

LEMMA JobsInvInit ==
  ASSUME Init
  PROVE  JobsInv
<1>1. \A t \in WorkflowState : t \in DOMAIN Level => ~ Level[t] <= Level["none"]
  BY DEF WorkflowState, Level
<1>2. Climbed(NewJob)
  BY <1>1 DEF Climbed, NewJob, Level
<1>3. Independent(NewJob)
  BY DEF Independent, NewJob, Reviewed, WorkflowState
<1> QED
  BY <1>2, <1>3 DEF Init, JobsInv

\* What a call did is stored when it is served.
LEMMA Stores ==
  ASSUME Types, NEW c \in UnderWay, NEW route,
         Error(route, c) = "none", Serve(route, c)
  PROVE  Effect(route, c)'
<1> DEFINE stored == Stored(db[c.job], route, c)
<1>1. /\ c.job \in Jobs /\ db \in [Jobs -> Record] /\ db[c.job] \in Record
      /\ c.number \in Windows \cup Numbers
  BY DEF UnderWay, Types, StoredType
<1>2. /\ stored \in Record
      /\ route # "data_entry" => stored.plan = db[c.job].plan
      /\ route = "data_entry" =>
           /\ stored.plan = {c.points[n] : n \in DOMAIN c.points}
           /\ stored.source = c.xlsx
      /\ route = "irtd_rows" => stored.reference = c.pdf
  BY <1>1, StoredKeeps
<1> HIDE DEF stored
<1>3. ASSUME route \notin {"approve_constants", "approve_budget"}
      PROVE  db'[c.job] = Entered(stored, route, c)
  BY <1>1, <1>3 DEF Serve, stored
<1>4. ASSUME route \in DOMAIN Target
      PROVE  db'[c.job].entered[Target[route]].run = c.run
  <2>1. route \notin {"approve_constants", "approve_budget"}
    BY <1>4 DEF Target
  <2>2. db'[c.job] = [stored EXCEPT !.state = Target[route],
                        !.entered[Target[route]] = [by |-> c.person, run |-> c.run]]
    BY <1>3, <1>4, <2>1 DEF Entered
  <2>3. Target[route] \in WorkflowState
    BY <1>4, Rungs
  <2>4. stored.entered \in [WorkflowState -> [by : Anybody, run : Nat]]
    BY <1>2 DEF Record
  <2>5. db'[c.job].entered
          = [stored.entered EXCEPT ![Target[route]] =
               [by |-> c.person, run |-> c.run]]
    BY <1>2, <2>2 DEF Record
  <2> QED
    BY <2>3, <2>4, <2>5
<1>5. route \notin {"approve_constants", "approve_budget"} =>
        /\ db'[c.job].plan = stored.plan
        /\ db'[c.job].source = stored.source
        /\ db'[c.job].reference = stored.reference
  BY <1>2, <1>3 DEF Entered, Record
<1>6. /\ route = "data_entry" => c.xlsx = c.job
      /\ route = "irtd_rows" => c.pdf = c.job
      /\ route = "calculate" => db[c.job].plan \subseteq {Head(c.points)}
      /\ route = "artifact" => owner[c.number] = c.job
  BY ServedOn
<1>7. /\ route = "data_entry" =>
           /\ db'[c.job].source = c.job
           /\ db'[c.job].plan = {c.points[n] : n \in DOMAIN c.points}
      /\ route = "irtd_rows" => db'[c.job].reference = c.job
      /\ route = "calculate" => db'[c.job].plan \subseteq {Head(c.points)}
  BY <1>2, <1>5, <1>6
<1>8. route = "artifact" => owner'[c.number] = c.job
  BY <1>1, <1>6 DEF Serve, Types, StoredType
<1>9. /\ route = "approve_constants" => c.version \in approved'.constants
      /\ route = "approve_budget" => c.version \in approved'.budgets
  BY DEF Serve
<1> QED
  BY <1>4, <1>7, <1>8, <1>9 DEF Effect

\* A state entered by a run is one the job has entered.
LEMMA RunsEnter ==
  ASSUME NEW c \in UnderWay, NEW t, db[c.job].entered[t].run = c.run
  PROVE  db[c.job].entered[t] # NoEntry
  BY ConsoleAssumption DEF UnderWay, NoEntry

\* And nothing takes it back.
LEMMA EffectsStay ==
  ASSUME Types, JobsInv, Grows, NEW c \in UnderWay, NEW route, Effect(route, c)
  PROVE  Effect(route, c)'
<1>1. /\ c.job \in Jobs /\ c.job # NoJob /\ c.number \in Windows \cup Numbers
      /\ Climbed(db[c.job]) /\ Kept(db[c.job], db'[c.job])
  BY ConsoleAssumption DEF UnderWay, JobsInv, Grows
<1>2. ASSUME route \in DOMAIN Target
      PROVE  /\ db[c.job].entered[Target[route]] # NoEntry
             /\ db'[c.job].entered[Target[route]].run = c.run
  <2>1. db[c.job].entered[Target[route]].run = c.run
    BY <1>2 DEF Effect
  <2>2. db[c.job].entered[Target[route]] # NoEntry
    BY <2>1, RunsEnter
  <2> QED
    BY <1>1, <1>2, <2>1, <2>2, Rungs DEF Kept
<1>3. ASSUME route \in {"data_entry", "calculate"}
      PROVE  db'[c.job].plan = db[c.job].plan /\ db'[c.job].source = db[c.job].source
  <2>1. route \in DOMAIN Target /\ Level[Target[route]] >= Level["data_entered"]
    BY <1>3 DEF Target, Level
  <2>2. db[c.job].entered["data_entered"] # NoEntry
    BY <1>1, <1>2, <2>1, Levels, Rungs DEF Climbed, Level, WorkflowState
  <2> QED
    BY <1>1, <2>2 DEF Kept
<1>4. route = "irtd_rows" => db'[c.job].reference = db[c.job].reference
  BY <1>1 DEF Effect, Kept
<1>5. route = "artifact" => owner'[c.number] = owner[c.number]
  BY <1>1 DEF Effect, Grows
<1>6. /\ route = "data_entry" =>
           /\ db'[c.job].source = c.job
           /\ db'[c.job].plan = {c.points[n] : n \in DOMAIN c.points}
      /\ route = "irtd_rows" => db'[c.job].reference = c.job
      /\ route = "calculate" => db'[c.job].plan \subseteq {Head(c.points)}
  BY <1>3, <1>4 DEF Effect
<1>7. /\ route = "approve_constants" => c.version \in approved'.constants
      /\ route = "approve_budget" => c.version \in approved'.budgets
      /\ route = "artifact" => owner'[c.number] = c.job
  BY <1>5 DEF Effect, Grows
<1> QED
  BY <1>2, <1>6, <1>7 DEF Effect

(***************************************************************************)
(* Scripts accomplish what they have called                                *)
(***************************************************************************)

\* Two moments of one script.
Alike(c, d) ==
  /\ d.button = c.button /\ d.run = c.run /\ d.job = c.job
  /\ d.version = c.version /\ d.number = c.number /\ d.points = c.points

LEMMA EffectsAlike ==
  ASSUME NEW c, NEW d, Alike(c, d), NEW route, Effect(route, c)'
  PROVE  Effect(route, d)'
  BY DEF Effect, Alike

\* A script that has not got on.
LEMMA Carried ==
  ASSUME Types, JobsInv, Grows, NEW c \in UnderWay, Accomplished(c), Purposeful(c),
         NEW d, Alike(c, d), d.at = c.at, Answered(d) => Answered(c),
         d.phase = "finished" => c.phase = "finished"
  PROVE  Accomplished(d)' /\ Purposeful(d)
<1>1. ASSUME NEW k \in 1..(c.at - 1)
      PROVE  Effect(ScriptOf(d.button)[k].route, d)'
  <2>1. Effect(ScriptOf(c.button)[k].route, c)'
    BY EffectsStay DEF Accomplished
  <2> QED
    BY <2>1, EffectsAlike DEF Alike
<1>2. ASSUME Answered(d)
      PROVE  Effect(ScriptOf(d.button)[d.at].route, d)'
  <2>1. Effect(ScriptOf(c.button)[c.at].route, c)'
    BY <1>2, EffectsStay DEF Accomplished
  <2> QED
    BY <2>1, EffectsAlike DEF Alike
<1>3. Accomplished(d)'
  BY <1>1, <1>2 DEF Accomplished, Answered
<1>4. Purposeful(d)
  BY DEF Purposeful, Alike
<1> QED
  BY <1>3, <1>4

\* A script whose call was just answered.
LEMMA AnsweredWell ==
  ASSUME Types, JobsInv, Grows, NEW c \in UnderWay, Accomplished(c), Purposeful(c),
         NEW d, Alike(c, d), d.at = c.at, d.phase = "answered",
         d.answer = 200 => Effect(ScriptOf(c.button)[c.at].route, c)'
  PROVE  Accomplished(d)' /\ Purposeful(d)
<1>1. ASSUME NEW k \in 1..(c.at - 1)
      PROVE  Effect(ScriptOf(d.button)[k].route, d)'
  <2>1. Effect(ScriptOf(c.button)[k].route, c)'
    BY EffectsStay DEF Accomplished
  <2> QED
    BY <2>1, EffectsAlike DEF Alike
<1>2. ASSUME Answered(d)
      PROVE  Effect(ScriptOf(d.button)[d.at].route, d)'
  <2>1. Effect(ScriptOf(c.button)[c.at].route, c)'
    BY <1>2 DEF Answered
  <2> QED
    BY <2>1, EffectsAlike DEF Alike
<1>3. Accomplished(d)'
  BY <1>1, <1>2 DEF Accomplished, Answered
<1> QED
  BY <1>3 DEF Purposeful, Alike

\* A script that goes on to its next call, or ends.
LEMMA GoesOn ==
  ASSUME Types, JobsInv, Grows, NEW c \in UnderWay, Placed(c),
         Accomplished(c), Purposeful(c), c.phase = "answered", c.answer = 200,
         NEW d, d = Continued(c, ScriptOf(c.button)), d # Idle
  PROVE  Accomplished(d)' /\ Purposeful(d)
<1> DEFINE calls == ScriptOf(c.button)
<1>1. ASSUME NEW k \in 1..c.at, Alike(c, d)
      PROVE  Effect(calls[k].route, d)'
  <2>1. k \in 1..(c.at - 1) \/ k = c.at
    BY DEF UnderWay
  <2>2. Effect(calls[k].route, c)
    BY <2>1 DEF Accomplished, Answered
  <2>3. Effect(calls[k].route, c)'
    BY <2>2, EffectsStay
  <2> QED
    BY <1>1, <2>3, EffectsAlike
<1>2. CASE c.at = Len(calls)
  <2>1. /\ c.button = "one_click"
        /\ d = [c EXCEPT !.phase = "finished"]
    BY <1>2 DEF Continued
  <2>2. Alike(c, d) /\ d.at = c.at /\ d.phase = "finished"
    BY <2>1 DEF Alike, UnderWay
  <2>3. c.at \in 1..c.at /\ 1..(c.at - 1) \subseteq 1..c.at
    BY DEF Placed, UnderWay
  <2>4. Accomplished(d)'
    BY <1>1, <2>2, <2>3 DEF Accomplished, Alike
  <2> QED
    BY <1>2, <2>1, <2>2, <2>4 DEF Purposeful, Alike
<1>3. CASE c.at # Len(calls)
  <2>1. /\ d \in UnderWay /\ d.phase = "calling" /\ d.at = AtAfter(c)
    BY <1>3, ScriptsGoOn
  <2>2. Alike(c, d)
    BY <1>3 DEF Continued, HeldFiles, Alike, UnderWay
  <2>3. ASSUME NEW k \in 1..(d.at - 1) PROVE Effect(calls[k].route, d)'
    <3>1. CASE k \in 1..c.at
      BY <1>1, <2>2, <3>1
    <3>2. CASE k \notin 1..c.at
      <4>1. c.button = "one_click" /\ c.at = 3 /\ k \in {4, 5}
        BY <2>1, <2>3, <3>2 DEF AtAfter, Equipment, DataEntry, UnderWay
      <4>2. calls[k] = OneClickFirst[k]
        <5>1. calls = OneClick
          BY <4>1, Calls DEF UnderWay
        <5>2. k \in 1..9
          BY <4>1
        <5> QED
          BY <5>1, <5>2, OneClickCalls
      <4>3. calls[k].route \in {"upload_xlsx", "upload_pdf"}
        BY <4>1, <4>2 DEF OneClickFirst, Plain, Call
      <4> QED
        BY <4>3 DEF Effect, Target
    <3> QED
      BY <3>1, <3>2
  <2>4. ~ Answered(d)
    BY <2>1 DEF Answered
  <2>5. Accomplished(d)'
    BY <2>2, <2>3, <2>4 DEF Accomplished, Alike, Answered
  <2> QED
    BY <2>1, <2>2, <2>5 DEF Purposeful, Alike
<1> QED
  BY <1>2, <1>3

LEMMA ScriptsInvStay ==
  ASSUME Types, JobsInv, ScriptsInv, [Next]_vars
  PROVE  ScriptsInv'
<1>0. Grows
  BY StepGrows
<1>1. ASSUME NEW s \in Scripts, script[s] # Idle
      PROVE  /\ script[s] \in UnderWay /\ Placed(script[s])
             /\ Accomplished(script[s]) /\ Purposeful(script[s])
  BY <1>1 DEF Types, ScriptsType, ScriptsInv
<1>2. ASSUME NEW s \in Scripts, NEW d, d = script'[s], d = script[s], d # Idle
      PROVE  Accomplished(d)' /\ Purposeful(d)
  BY <1>0, <1>1, <1>2, Carried DEF Alike
<1>3. ASSUME NEW r \in Scripts, NEW button \in Buttons, Click(r, button),
             NEW s \in Scripts, NEW d, d = script'[s], d # Idle
      PROVE  Accomplished(d)' /\ Purposeful(d)
  <2>1. CASE s # r
    BY <1>2, <1>3, <2>1 DEF Click, Types, ScriptsType
  <2>2. CASE s = r
    <3>1. d = Context(button, page)
      BY <1>3, <2>2 DEF Click, Types, ScriptsType
    <3>2. /\ d.phase = "calling" /\ d.at = 1 /\ d.button = button
          /\ button \in {"one_click", "approve_both"} => d.version = d.job
      BY <3>1 DEF Context
    <3> QED
      BY <3>2 DEF Accomplished, Answered, Purposeful
  <2> QED
    BY <2>1, <2>2
<1>4. ASSUME NEW r \in Scripts, Answer(r),
             NEW s \in Scripts, NEW d, d = script'[s], d # Idle
      PROVE  Accomplished(d)' /\ Purposeful(d)
  <2>1. CASE s # r
    BY <1>2, <1>4, <2>1 DEF Answer, Types, ScriptsType
  <2>2. CASE s = r
    <3>1. PICK c : c = script[s]
      OBVIOUS
    <3>2. PICK route : route = ScriptOf(c.button)[c.at].route
      OBVIOUS
    <3>3. c \in UnderWay /\ c # Idle
      BY <1>4, <2>2, <3>1, Asked DEF Types, Answer
    <3>4. d = [c EXCEPT !.phase = "answered",
                        !.answer = Status(Served(route), Error(route, c))]
      BY <1>4, <2>2, <3>1, <3>2 DEF Answer, Types, ScriptsType
    <3>5. /\ Alike(c, d) /\ d.at = c.at /\ d.phase = "answered"
          /\ d.answer = Status(Served(route), Error(route, c))
      BY <3>3, <3>4 DEF Alike, UnderWay
    <3>6. ASSUME d.answer = 200 PROVE Effect(route, c)'
      <4>1. Error(route, c) = "none"
        BY <3>5, <3>6 DEF Status
      <4>2. Serve(route, c)
        BY <1>4, <2>2, <3>1, <3>2, <4>1 DEF Answer
      <4> QED
        BY <3>3, <4>1, <4>2, Stores
    <3>7. Accomplished(c) /\ Purposeful(c)
      BY <1>1, <3>1, <3>3
    <3> QED
      BY <1>0, <3>2, <3>3, <3>5, <3>6, <3>7, AnsweredWell
  <2> QED
    BY <2>1, <2>2
<1>5. ASSUME NEW r \in Scripts, Lose(r),
             NEW s \in Scripts, NEW d, d = script'[s], d # Idle
      PROVE  Accomplished(d)' /\ Purposeful(d)
  <2>1. CASE s # r
    BY <1>2, <1>5, <2>1 DEF Lose, Types, ScriptsType
  <2>2. CASE s = r
    <3>1. PICK c : c = script[s]
      OBVIOUS
    <3>2. c \in UnderWay /\ c # Idle
      BY <1>5, <2>2, <3>1, Asked DEF Types, Lose
    <3>3. d = [c EXCEPT !.phase = "answered", !.answer = 0]
      BY <1>5, <2>2, <3>1 DEF Lose, Types, ScriptsType
    <3>4. /\ Alike(c, d) /\ d.at = c.at /\ d.phase = "answered" /\ d.answer # 200
      BY <3>2, <3>3 DEF Alike, UnderWay
    <3>5. Accomplished(c) /\ Purposeful(c)
      BY <1>1, <3>1, <3>2
    <3> QED
      BY <1>0, <3>2, <3>4, <3>5, AnsweredWell
  <2> QED
    BY <2>1, <2>2
<1>6. ASSUME NEW r \in Scripts, Receive(r),
             NEW s \in Scripts, NEW d, d = script'[s], d # Idle
      PROVE  Accomplished(d)' /\ Purposeful(d)
  <2>1. CASE s # r
    BY <1>2, <1>6, <2>1 DEF Receive, Types, ScriptsType
  <2>2. CASE s = r
    <3>1. PICK c : c = script[s]
      OBVIOUS
    <3>2. /\ c \in UnderWay /\ c # Idle /\ Placed(c) /\ c.phase = "answered"
      BY <1>6, <2>2, <3>1, Asked DEF Types, Receive
    <3>3. ~ Blocked(c) /\ d = Continued(c, ScriptOf(c.button))
      BY <1>6, <2>2, <3>1 DEF Receive, Types, ScriptsType
    <3>4. c.answer = 200
      BY <3>3 DEF Blocked
    <3>5. Accomplished(c) /\ Purposeful(c)
      BY <1>1, <3>1, <3>2
    <3> QED
      BY <1>0, <1>6, <3>2, <3>3, <3>4, <3>5, GoesOn
  <2> QED
    BY <2>1, <2>2
<1>7. ASSUME Reload, NEW s \in Scripts, NEW d, d = script'[s], d # Idle
      PROVE  Accomplished(d)' /\ Purposeful(d)
  <2>1. PICK c : c = script[s]
    OBVIOUS
  <2>2. c.phase = "calling" /\ d = [c EXCEPT !.phase = "orphan"]
    BY <1>7, <2>1 DEF Reload
  <2>3. c \in UnderWay /\ c # Idle
    BY <2>1, <2>2, Asked DEF Types
  <2>4. Alike(c, d) /\ d.at = c.at /\ d.phase = "orphan"
    BY <2>2, <2>3 DEF Alike, UnderWay
  <2>5. Accomplished(c) /\ Purposeful(c)
    BY <1>1, <2>1, <2>3
  <2> QED
    BY <1>0, <2>3, <2>4, <2>5, Carried DEF Answered
<1>8. ASSUME UNCHANGED script, NEW s \in Scripts, NEW d, d = script'[s], d # Idle
      PROVE  Accomplished(d)' /\ Purposeful(d)
  BY <1>2, <1>8
<1>9. ASSUME NEW s \in Scripts, NEW d, d = script'[s], d # Idle
      PROVE  Accomplished(d)' /\ Purposeful(d)
  <2>1. \/ \E r \in Scripts :
             \/ \E button \in Buttons : Click(r, button)
             \/ Answer(r) \/ Lose(r) \/ Receive(r)
        \/ Reload
        \/ UNCHANGED script
    BY DEF Next, vars, EditField, Edit
  <2> QED
    BY <1>3, <1>4, <1>5, <1>6, <1>7, <1>8, <1>9, <2>1
<1>10. ASSUME NEW s \in Scripts, script'[s] # Idle
       PROVE  (Accomplished(script[s]) /\ Purposeful(script[s]))'
  <2>1. PICK d : d = script'[s]
    OBVIOUS
  <2>2. Accomplished(d)' /\ Purposeful(d)
    BY <1>9, <1>10, <2>1
  <2>3. Purposeful(script[s])'
    BY <2>1, <2>2 DEF Purposeful
  <2>4. ASSUME NEW k, Effect(ScriptOf(d.button)[k].route, d)'
        PROVE  Effect(ScriptOf(script[s].button)[k].route, script[s])'
    BY <2>1, <2>4 DEF Effect
  <2>5. ASSUME NEW k \in 1..(script'[s].at - 1)
        PROVE  Effect(ScriptOf(script[s].button)[k].route, script[s])'
    BY <2>1, <2>2, <2>4 DEF Accomplished
  <2>6. ASSUME Answered(script[s])'
        PROVE  Effect(ScriptOf(script[s].button)[script[s].at].route, script[s])'
    <3>1. Effect(ScriptOf(d.button)[d.at].route, d)'
      BY <2>1, <2>2, <2>6 DEF Accomplished, Answered
    <3>2. PICK k : k = d.at
      OBVIOUS
    <3>3. Effect(ScriptOf(script[s].button)[k].route, script[s])'
      BY <2>4, <3>1, <3>2
    <3> QED
      BY <2>1, <3>2, <3>3
  <2>7. Accomplished(script[s])'
    BY <2>5, <2>6 DEF Accomplished
  <2> QED
    BY <2>3, <2>7
<1> QED
  BY <1>10 DEF ScriptsInv

LEMMA ScriptsInvInit ==
  ASSUME Init
  PROVE  ScriptsInv
  BY DEF Init, ScriptsInv

\* What a service does stays in order, and every script knows what it did.
IInv == Types /\ JobsInv /\ ScriptsInv

LEMMA Invariant == Spec => []IInv
<1>1. Init => IInv
  BY TypesInit, JobsInvInit, ScriptsInvInit DEF IInv
<1>2. IInv /\ [Next]_vars => IInv'
  BY TypesStay, StepGrows, ScriptsInvStay DEF IInv
<1> QED
  BY <1>1, <1>2, PTL DEF Spec

(***************************************************************************)
(* Pills                                                                   *)
(***************************************************************************)

\* A job does not fall behind a state it has entered.
LEMMA NoWayBack ==
  ASSUME JobsInv, JobsInv', Grows, NEW job \in Jobs,
         NEW t \in DOMAIN Level \ {"none"}, Level[t] <= Level[db[job].state]
  PROVE  Level[t] <= Level[db'[job].state]
<1>1. t \in WorkflowState
  BY Levels
<1>2. db[job].entered[t] # NoEntry
  BY <1>1 DEF JobsInv, Climbed
<1>3. db'[job].entered[t] # NoEntry
  BY <1>1, <1>2 DEF Grows, Kept
<1> QED
  BY <1>1, <1>3 DEF JobsInv, Climbed

LEMMA BackedStays ==
  ASSUME IInv, IInv', Grows, NEW job \in Jobs, NEW step, Backed(step, job)
  PROVE  Backed(step, job)'
<1>1. /\ db[job].state \in DOMAIN Level /\ db'[job].state \in DOMAIN Level
      /\ Kept(db[job], db'[job])
  BY DEF IInv, JobsInv, Climbed, Grows
<1>2. ASSUME step = "job" PROVE db'[job].state # "none"
  <2>1. Level["draft"] <= Level[db[job].state]
    BY <1>1, <1>2 DEF Backed, Level
  <2>2. Level["draft"] <= Level[db'[job].state]
    BY <2>1, NoWayBack DEF IInv, Level
  <2> QED
    BY <2>2 DEF Level
<1>3. ASSUME step = "review"
      PROVE  /\ db'[job].state = "released"
             /\ \E n \in Numbers : owner'[n] = job
  <2>1. db[job].state = "released" /\ \E n \in Numbers : owner[n] = job
    BY <1>3 DEF Backed
  <2>2. Level["released"] <= Level[db'[job].state]
    BY <2>1, NoWayBack DEF IInv, Level
  <2>3. db'[job].state = "released"
    BY <1>1, <2>2 DEF Level
  <2> QED
    BY <2>1, <2>3, ConsoleAssumption DEF Grows
<1>4. CASE step \in {"metadata", "measurement", "calculation"}
  BY <1>1, <1>4 DEF Backed, Kept, WorkflowState
<1>5. CASE step = "equipment"
  BY <1>5 DEF Backed, Grows
<1> QED
  BY <1>2, <1>3, <1>4, <1>5 DEF Backed

\* A script sets a pill to Done only of what its calls have stored.
LEMMA DoneWell ==
  ASSUME IInv, NEW s \in Scripts, script[s].phase = "answered",
         script[s].answer = 200,
         NEW call, call = ScriptOf(script[s].button)[script[s].at],
         call.step # "none", call.done
  PROVE  Backed(call.step, script[s].job)
<1>1. PICK c : c = script[s]
  OBVIOUS
<1>2. /\ c \in UnderWay /\ Placed(c) /\ Accomplished(c) /\ Purposeful(c)
  BY <1>1, Asked DEF IInv, Types, ScriptsInv
<1>3. c.button \in DOMAIN Sequel \cup PageButtons /\ c.job \in Jobs /\ c.at \in Nat
  BY <1>2 DEF UnderWay
<1>4. Effect(call.route, c)
  BY <1>1, <1>2 DEF Accomplished, Answered
<1>5. c.at - 1 \in 1..(c.at - 1) =>
        Effect(ScriptOf(c.button)[c.at - 1].route, c)
  BY <1>2 DEF Accomplished
<1>6. Climbed(db[c.job])
  BY <1>3 DEF IInv, JobsInv
<1>7. ASSUME NEW route \in DOMAIN Target, Effect(route, c)
      PROVE  db[c.job].entered[Target[route]] # NoEntry
  BY <1>2, <1>7, RunsEnter DEF Effect
<1>8. CASE call.step = "job" /\ call.route = "create_job"
  <2>1. db[c.job].entered["draft"] # NoEntry
    BY <1>4, <1>7, <1>8 DEF Target
  <2> QED
    BY <1>1, <1>6, <1>8, <2>1, EnteredEnds DEF Backed
<1>9. CASE \/ call.step = "metadata" /\ call.route = "metadata"
           \/ call.step = "measurement" /\ call.route = "complete_windows"
           \/ call.step = "calculation" /\ call.route = "calculate"
  BY <1>1, <1>4, <1>7, <1>9 DEF Backed, Target
<1>10. CASE /\ call.step = "equipment" /\ call.route = "approve_budget"
            /\ c.button \in {"one_click", "approve_both"}
            /\ c.at - 1 \in 1..(c.at - 1)
            /\ ScriptOf(c.button)[c.at - 1].route = "approve_constants"
  BY <1>1, <1>2, <1>4, <1>5, <1>10 DEF Backed, Effect, Purposeful
<1>11. CASE /\ call.step = "review" /\ call.route = "artifact"
            /\ c.at - 1 \in 1..(c.at - 1)
            /\ ScriptOf(c.button)[c.at - 1].route = "rendered_release"
  <2>1. owner[c.number] = c.job /\ c.number \in Numbers
    BY <1>2, <1>4, <1>11 DEF Effect, UnderWay
  <2>2. db[c.job].entered["released"] # NoEntry
    BY <1>5, <1>7, <1>11 DEF Target
  <2>3. db[c.job].state = "released"
    BY <1>6, <2>2, EnteredEnds
  <2> QED
    BY <1>1, <1>11, <2>1, <2>3 DEF Backed
<1> QED
  BY <1>1, <1>2, <1>3, <1>8, <1>9, <1>10, <1>11, DoneCalls DEF Placed

\* A pill says Done only of what is stored about its job, for any scripts that
\* overlap, calls that are refused or lost, and reloads.
THEOREM PillsAreBacked == Spec => []DoneIsBacked
<1>1. Init => DoneIsBacked
  BY DEF Init, BlankPills, DoneIsBacked
<1>2. ASSUME IInv, IInv', [Next]_vars, DoneIsBacked PROVE DoneIsBacked'
  <2>1. Grows
    BY <1>2, StepGrows DEF IInv
  <2>2. pill \in [Pill -> AnyJob]
    BY <1>2 DEF IInv, Types
  <2>3. ASSUME NEW step \in Pill, pill'[step] # NoJob, pill'[step] = pill[step]
        PROVE  Backed(step, pill[step])'
    <3>1. pill[step] \in Jobs
      BY <2>2, <2>3 DEF AnyJob
    <3>2. PICK job \in Jobs : job = pill[step]
      BY <3>1
    <3>3. Backed(step, job)
      BY <1>2, <2>3, <3>2 DEF DoneIsBacked
    <3>4. Backed(step, job)'
      BY <1>2, <2>1, <3>3, BackedStays
    <3> QED
      BY <2>3, <3>2, <3>4 DEF Backed
  <2>4. ASSUME NEW s \in Scripts, Receive(s), NEW step \in Pill,
               pill'[step] # NoJob, pill'[step] # pill[step]
        PROVE  Backed(step, pill[step])'
    <3>1. PICK call : call = ScriptOf(script[s].button)[script[s].at]
      OBVIOUS
    <3>2. script[s].answer = 200 /\ pill' = PillsAfter(script[s], call)
      BY <2>4, <3>1 DEF Receive
    <3>3. call.step = step /\ call.step # "none" /\ call.done
          /\ pill'[step] = script[s].job
      BY <2>2, <2>4, <3>2 DEF PillsAfter
    <3>4. PICK job : job = script[s].job
      OBVIOUS
    <3>5. Backed(step, job)
      BY <1>2, <2>4, <3>1, <3>2, <3>3, <3>4, DoneWell DEF Receive
    <3>6. Backed(step, job)'
      BY <2>4, <3>5 DEF Receive, Backed
    <3> QED
      BY <3>3, <3>4, <3>6 DEF Backed
  <2>5. ASSUME NEW step \in Pill, pill'[step] # NoJob, pill'[step] # pill[step]
        PROVE  \E s \in Scripts : Receive(s)
    BY <1>2, <2>2, <2>5 DEF Next, vars, Click, Answer, Lose, EditField, Edit, Reload,
                            BlankPills
  <2> QED
    BY <2>3, <2>4, <2>5 DEF DoneIsBacked
<1> QED
  BY <1>1, <1>2, Invariant, PTL DEF Spec

(***************************************************************************)
(* A one-click run that came to its end                                    *)
(***************************************************************************)

\* The calls of the one-click script that store something about its job.
LEMMA OneClickRoutes ==
  ASSUME NEW route \in DOMAIN Target \cup {"irtd_rows", "artifact"}
  PROVE  \E k \in 1..19 : OneClick[k].route = route
<1> DEFINE first == {OneClickFirst[k].route : k \in 1..9}
           last == {OneClickLast[k].route : k \in 1..10}
<1>1. /\ OneClickFirst[1].route = "create_job"
      /\ OneClickFirst[2].route = "metadata"
      /\ OneClickFirst[3].route = "equipment"
      /\ OneClickFirst[6].route = "data_entry"
      /\ OneClickFirst[7].route = "irtd_rows"
      /\ OneClickFirst[9].route = "complete_windows"
  BY DEF OneClickFirst, Plain, Call
<1>2. /\ OneClickLast[3].route = "calculate"
      /\ OneClickLast[5].route = "submit_review"
      /\ OneClickLast[6].route = "approve_technical"
      /\ OneClickLast[7].route = "approve_qa"
      /\ OneClickLast[9].route = "rendered_release"
      /\ OneClickLast[10].route = "artifact"
  BY DEF OneClickLast, Plain, Call
<1>3. \A k \in {1, 2, 3, 6, 7, 9} : k \in 1..19 /\ OneClick[k] = OneClickFirst[k]
  BY OneClickCalls
<1>4. /\ 12 \in 1..19 /\ OneClick[12] = OneClickLast[3]
      /\ 14 \in 1..19 /\ OneClick[14] = OneClickLast[5]
      /\ 15 \in 1..19 /\ OneClick[15] = OneClickLast[6]
      /\ 16 \in 1..19 /\ OneClick[16] = OneClickLast[7]
      /\ 18 \in 1..19 /\ OneClick[18] = OneClickLast[9]
      /\ 19 \in 1..19 /\ OneClick[19] = OneClickLast[10]
  BY OneClickCalls
<1>5. route \in {"create_job", "metadata", "equipment", "data_entry", "irtd_rows",
                 "complete_windows", "calculate", "submit_review",
                 "approve_technical", "approve_qa", "rendered_release", "artifact"}
  BY DEF Target
<1>6. /\ 1 \in 1..19 /\ OneClick[1].route = "create_job"
      /\ 2 \in 1..19 /\ OneClick[2].route = "metadata"
      /\ 3 \in 1..19 /\ OneClick[3].route = "equipment"
      /\ 6 \in 1..19 /\ OneClick[6].route = "data_entry"
      /\ 7 \in 1..19 /\ OneClick[7].route = "irtd_rows"
      /\ 9 \in 1..19 /\ OneClick[9].route = "complete_windows"
  BY <1>1, <1>3
<1>7. /\ 12 \in 1..19 /\ OneClick[12].route = "calculate"
      /\ 14 \in 1..19 /\ OneClick[14].route = "submit_review"
      /\ 15 \in 1..19 /\ OneClick[15].route = "approve_technical"
      /\ 16 \in 1..19 /\ OneClick[16].route = "approve_qa"
      /\ 18 \in 1..19 /\ OneClick[18].route = "rendered_release"
      /\ 19 \in 1..19 /\ OneClick[19].route = "artifact"
  BY <1>2, <1>4
<1> QED
  BY <1>5, <1>6, <1>7, ZenonT(30)

\* Four people at the reviews, once the last of them has been taken.
LEMMA FourPeople ==
  ASSUME NEW job, Climbed(job), Independent(job), job.state = "released"
  PROVE  Cardinality({job.entered[state].by : state \in Reviewed}) = 4
<1>1. \A t \in Reviewed : job.entered[t] # NoEntry
  BY DEF Climbed, Reviewed, Level, WorkflowState
<1>2. PICK a, b, c, d : /\ a = job.entered["technical_review"].by
                        /\ b = job.entered["qa_review"].by
                        /\ c = job.entered["approved"].by
                        /\ d = job.entered["released"].by
  OBVIOUS
<1>3. a # b /\ a # c /\ a # d /\ b # c /\ b # d /\ c # d
  BY <1>1, <1>2 DEF Independent, Reviewed, Level
<1>4. {job.entered[t].by : t \in Reviewed} = {a, b, c, d}
  BY <1>2 DEF Reviewed
<1>5. IsFiniteSet({a}) /\ Cardinality({a}) = 1
  BY FS_Singleton
<1>6. IsFiniteSet({a} \cup {b}) /\ Cardinality({a} \cup {b}) = 2
  BY <1>3, <1>5, FS_AddElement
<1>7. /\ IsFiniteSet(({a} \cup {b}) \cup {c})
      /\ Cardinality(({a} \cup {b}) \cup {c}) = 3
  <2>1. c \notin {a} \cup {b}
    BY <1>3
  <2> QED
    BY <1>6, <2>1, FS_AddElement, SMTT(30)
<1>8. Cardinality((({a} \cup {b}) \cup {c}) \cup {d}) = 4
  <2>1. d \notin ({a} \cup {b}) \cup {c}
    BY <1>3
  <2> QED
    BY <1>7, <2>1, FS_AddElement, SMTT(30)
<1>9. {a, b, c, d} = (({a} \cup {b}) \cup {c}) \cup {d}
  OBVIOUS
<1> QED
  BY <1>4, <1>8, <1>9

\* What the last call of a one-click script leaves behind all the others.
Whole(c) ==
  LET job == db[c.job]
  IN /\ job.state = "released"
     /\ owner[c.number] = c.job
     /\ \A route \in DOMAIN Target : job.entered[Target[route]].run = c.run
     /\ job.source = c.job /\ job.reference = c.job
     /\ job.plan = {Head(c.points)}
     /\ Cardinality({job.entered[state].by : state \in Reviewed}) = 4

LEMMA FinishedWhole ==
  ASSUME IInv, NEW s \in Scripts, NEW c, c = script[s], c.phase = "finished"
  PROVE  Whole(c)
<1>1. c \in UnderWay /\ Placed(c) /\ Accomplished(c) /\ Purposeful(c)
  BY Asked DEF IInv, Types, ScriptsInv
<1>2. /\ c.job \in Jobs /\ c.points \in TypedPoints
      /\ Climbed(db[c.job]) /\ Independent(db[c.job])
  BY <1>1 DEF UnderWay, IInv, JobsInv
<1>3. ScriptOf(c.button) = OneClick /\ c.at = 19
  <2>1. c.button = "one_click" /\ c.at = Len(ScriptOf(c.button))
    BY <1>1 DEF Purposeful
  <2>2. ScriptOf(c.button) = OneClick
    BY <1>1, <2>1, Calls DEF UnderWay
  <2> QED
    BY <2>1, <2>2, OneClickCalls
<1>4. ASSUME NEW route \in DOMAIN Target \cup {"irtd_rows", "artifact"}
      PROVE  Effect(route, c)
  <2>1. PICK k \in 1..19 : OneClick[k].route = route
    BY OneClickRoutes
  <2>2. Effect(OneClick[k].route, c)
    BY <1>1, <1>3 DEF Accomplished, Answered
  <2> QED
    BY <2>1, <2>2
<1>5. ASSUME NEW route \in DOMAIN Target
      PROVE  db[c.job].entered[Target[route]].run = c.run
  BY <1>4 DEF Effect
<1>6. /\ Effect("data_entry", c) /\ Effect("irtd_rows", c)
      /\ Effect("calculate", c) /\ Effect("artifact", c)
  BY <1>4 DEF Target
<1>7. db[c.job].state = "released"
  <2>1. "rendered_release" \in DOMAIN Target /\ Target["rendered_release"] = "released"
    BY DEF Target
  <2>2. db[c.job].entered["released"] # NoEntry
    BY <1>1, <1>5, <2>1, RunsEnter
  <2> QED
    BY <1>2, <2>2, EnteredEnds
<1>8. db[c.job].plan = {Head(c.points)}
  <2>1. /\ db[c.job].plan = {c.points[n] : n \in DOMAIN c.points}
        /\ db[c.job].plan \subseteq {Head(c.points)}
    BY <1>6 DEF Effect
  <2>2. Head(c.points) \in {c.points[n] : n \in DOMAIN c.points}
    BY <1>2, Points
  <2> QED
    BY <2>1, <2>2
<1>9. /\ owner[c.number] = c.job
      /\ db[c.job].source = c.job /\ db[c.job].reference = c.job
  BY <1>6 DEF Effect
<1> QED
  BY <1>2, <1>5, <1>7, <1>8, <1>9, FourPeople DEF Whole

\* A one-click script that reaches its end took its job through every state
\* itself, with that job's files, its own setpoint and number, and four people,
\* for any scripts beside it, refusals, losses and reloads.
THEOREM FinishedRunsAreWhole == Spec => []FinishedRunIsWholeRun
<1>1. ASSUME IInv PROVE FinishedRunIsWholeRun
  <2>1. ASSUME NEW s \in Scripts, script[s].phase = "finished"
        PROVE  Whole(script[s])
    BY <1>1, <2>1, FinishedWhole
  <2> QED
    BY <2>1 DEF FinishedRunIsWholeRun, Whole
<1> QED
  BY <1>1, Invariant, PTL
==============================================================================
