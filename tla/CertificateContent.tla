-------------------------- MODULE CertificateContent ---------------------------
(***************************************************************************)
(* What one certificate says: its points are calculated once, a preview    *)
(* locks them with the metadata, the reference equipment and the versions, *)
(* and a release renders the same content to pages, which must meet the    *)
(* template contract.                                                      *)
(*                                                                         *)
(* Who may do each step, and in which order requests overlap, is in the    *)
(* modules JobPreparation and ReviewRelease.                               *)
(***************************************************************************)
EXTENDS Reporting, FiniteSets, SequencesExt

CONSTANTS
  Jobs,            \* what was prepared: dates, equipment, texts
  Plans,           \* sequences of points, in the order of their ids
  Duts,            \* devices under test
  Templates,       \* template versions clients name, as texts
  Numbers,         \* certificate numbers, as texts
  Assets,          \* what the logo files of the installation may be
  RowsPerPage,     \* _MAX_RESULT_ROWS_PER_PAGE
  LineLength,      \* the limit of _wrap_line
  MaxPreviews      \* bound on the previews of a job

\* What the input classes of a point admit.
SetupType ==
  [floor : Nat, reference : Nat, factor : Nat \ {0}, ambient : Nat,
   resolution : Nat, coverage : Nat \ {0}, absolute : BOOLEAN, paired : BOOLEAN,
   additional : [uncertainty : Nat, sensitivity : Int]]

\* A manual entry has one reference value.
PointType ==
  {p \in [dut : Duts, kind : {"temperature", "manual", "automatic"},
          references : Seq(Int), indications : Seq(Int), setup : SetupType] :
     p.kind = "manual" => Len(p.references) = 1}

ASSUME PlansAssumption == Plans \subseteq Seq(PointType)

ASSUME ContentAssumption ==
  /\ RowsPerPage \in Nat \ {0}
  /\ LineLength \in Nat
  /\ MaxPreviews \in Nat

VARIABLES
  job,        \* what was prepared, fixed
  assets,     \* the logo files, fixed
  jobState,   \* the workflow state
  points,     \* the points of the calculation, as its audit event keeps them
  rows,       \* measurement_point_summaries, in the order of their ids
  previews,   \* the CERTIFICATE_PREVIEW_GENERATED events
  document    \* the released PDF: its pages, each a sequence of lines

CCVars == <<job, assets, jobState, points, rows, previews, document>>

(***************************************************************************)
(* Calculation                                                             *)
(***************************************************************************)

Accepted(p) ==
  /\ p.kind = "manual" => Len(p.indications) >= 1
  /\ p.kind # "manual" => /\ Len(p.indications) = Len(p.references)
                          /\ Len(p.references) >= 2
  /\ p.setup.ambient > 0 => p.kind = "temperature" \/ p.setup.absolute

Differences(p) ==
  [i \in DOMAIN p.references |-> p.indications[i] - p.references[i]]

Repeatability(p) ==
  IF p.kind = "manual" THEN << >>
  ELSE IF p.setup.paired THEN << TypeA(Differences(p)) >>
       ELSE << TypeA(p.references), TypeA(p.indications) >>

\* An edit: a resolution stands in for the repeatability.
PartsOrResolution(p) ==
  << FromExpanded(p.setup.reference, p.setup.factor) >>
    \o (IF p.setup.resolution > 0 THEN << >> ELSE Repeatability(p))
    \o << FromExpanded(p.setup.ambient, p.setup.factor),
          FromResolution(p.setup.resolution),
          FromAdditional(p.setup.additional) >>

\* The ambient part is a bath's or, of an absolute pressure, a barometer's.
Parts(p) ==
  << FromExpanded(p.setup.reference, p.setup.factor) >>
    \o Repeatability(p)
    \o << FromExpanded(p.setup.ambient, p.setup.factor),
          FromResolution(p.setup.resolution),
          FromAdditional(p.setup.additional) >>

Row(p) ==
  LET reference == Mean(p.references)
      indication == Mean(p.indications)
      calculated == Expanded(Parts(p), p.setup.coverage)
      floored == Larger(calculated, p.setup.floor)
  IN [dut |-> p.dut, reference |-> reference, indication |-> indication,
      calculated |-> calculated, floor |-> p.setup.floor,
      reported |-> RoundedUncertainty(floored, p.setup.floor),
      error |-> RoundedResult(indication - reference, floored)]

Calculate(plan) ==
  /\ jobState = "windows_selected"
  /\ plan # << >>
  /\ \A i \in DOMAIN plan :
       /\ Accepted(plan[i])
       /\ (plan[i].kind = "temperature") <=> (job.discipline = "temperature")
  /\ jobState' = "calculated"
  /\ points' = plan
  /\ rows' = [i \in DOMAIN plan |-> Row(plan[i])]
  /\ UNCHANGED <<job, assets, previews, document>>

(***************************************************************************)
(* Preview                                                                 *)
(***************************************************************************)

Covers(equipment, row) ==
  /\ equipment.status = "active"
  /\ equipment.due >= job.calibrationDate
  /\ equipment.discipline = job.discipline
  /\ equipment.minimum <= row.reference /\ row.reference <= equipment.maximum

\* No point is left that some selected equipment does not cover.
Suitable ==
  \A i \in DOMAIN rows : \E equipment \in job.equipment : Covers(equipment, rows[i])

\* An edit: the event counts devices instead of rows.
EventOfDuts(template, accredited) ==
  [ids |-> 1..Cardinality({rows[i].dut : i \in DOMAIN rows}), template |-> template,
   accredited |-> accredited]

\* What an event must agree on with a release: the rows and engine, constant
\* and budget versions are those of the one calculation.
Event(template, accredited) ==
  [ids |-> DOMAIN rows, template |-> template, accredited |-> accredited]

GeneratePreview(template, accredited) ==
  /\ jobState \in {"calculated", "approved"}
  /\ Suitable
  /\ Cardinality(previews) < MaxPreviews
  /\ previews' = previews \union {Event(template, accredited)}
  /\ UNCHANGED <<job, assets, jobState, points, rows, document>>

\* The two reviews in between, of ReviewRelease.
Approve ==
  /\ jobState = "calculated"
  /\ jobState' = "approved"
  /\ UNCHANGED <<job, assets, points, rows, previews, document>>

(***************************************************************************)
(* Rendering                                                               *)
(***************************************************************************)

\* A line is its label and the text after it; fixed lines are labels.
Line(label, text) == [label |-> label, text |-> text]

NoText == [length |-> 0, plain |-> TRUE, placeholder |-> FALSE]

Fixed(label) == Line(label, NoText)

LengthOf ==
  [number |-> 40, template |-> 18, software |-> 18, engine |-> 28,
   constants |-> 22, budget |-> 16]

\* Whether a labelled line is in the page as it was written: a long one is
\* split at its spaces, and parentheses, backslashes and what Latin-1 lacks
\* come out as other characters.
Shown(line) ==
  line.text # NoText =>
    LengthOf[line.label] + line.text.length <= LineLength /\ line.text.plain

Versions(template) ==
  << Line("template", template), Line("software", job.software),
     Line("engine", job.engine), Line("constants", job.constants),
     Line("budget", job.budget) >>

Customer == Line("customer", job.customer)

Cover(number, template, accredited) ==
  << Fixed("cover"),
     Fixed(IF accredited THEN "accredited" ELSE "notAccredited"),
     Line("number", number), Customer >> \o Versions(template)

\* The rows with the given numbers, in the order of the ids.
InOrder(numbers) ==
  LET upTo[n \in 0..Len(rows)] ==
        IF n = 0 THEN << >>
        ELSE IF n \in numbers THEN Append(upTo[n - 1], n) ELSE upTo[n - 1]
  IN upTo[Len(rows)]

IndicesOf(dut) == InOrder({i \in DOMAIN rows : rows[i].dut = dut})

\* Each DUT once, in the order of its first row.
DutsInOrder ==
  LET first == InOrder({i \in DOMAIN rows :
                          \A j \in 1..(i - 1) : rows[j].dut # rows[i].dut})
  IN [k \in DOMAIN first |-> rows[first[k]].dut]

PageTotal(n) == (n + RowsPerPage - 1) \div RowsPerPage

\* An edit: a chunk begins with the last row of the one before.
ChunkOverlapping(indices, k) ==
  SubSeq(indices, IF k = 1 THEN 1 ELSE (k - 1) * RowsPerPage,
         IF k * RowsPerPage < Len(indices) THEN k * RowsPerPage ELSE Len(indices))

\* The rows of page k of a DUT.
Chunk(indices, k) ==
  SubSeq(indices, (k - 1) * RowsPerPage + 1,
         IF k * RowsPerPage < Len(indices) THEN k * RowsPerPage ELSE Len(indices))

ResultPage(number, dut, chunk) ==
  [lines |-> << Line("number", number), Customer, Fixed("results") >>,
   dut |-> dut, rows |-> chunk]

ResultPagesOf(number, dut) ==
  [k \in 1..PageTotal(Len(IndicesOf(dut))) |->
     ResultPage(number, dut, Chunk(IndicesOf(dut), k))]

EquipmentPage(number) ==
  [lines |-> << Line("number", number), Fixed("equipment"), Fixed("evidence") >>
              \o SubSeq(Versions(NoText), 3, 5),
   dut |-> "none", rows |-> << >>]

Pages(number, template, accredited) ==
  << [lines |-> Cover(number, template, accredited), dut |-> "none", rows |-> << >>] >>
    \o FlattenSeq([k \in DOMAIN DutsInOrder |-> ResultPagesOf(number, DutsInOrder[k])])
    \o << EquipmentPage(number) >>

\* A logo whose file is missing is left out; a broken one is an error.
Logos(accredited) ==
  {name \in {"simval", "danak"} :
     assets[name] = "sound" /\ (name = "danak" => accredited)}

CanRender(accredited) ==
  assets.simval # "broken" /\ (accredited => assets.danak # "broken")

Render(number, template, accredited) ==
  [pages |-> Pages(number, template, accredited), logos |-> Logos(accredited)]

(***************************************************************************)
(* The template contract                                                   *)
(***************************************************************************)

\* An edit: pages as if all rows followed one another.
ExpectedPagesUngrouped ==
  2 + (Len(rows) + RowsPerPage - 1) \div RowsPerPage

ExpectedPages ==
  2 + Total([i \in DOMAIN DutsInOrder |->
               (Len(IndicesOf(DutsInOrder[i])) + RowsPerPage - 1) \div RowsPerPage])

\* "/Count n" is looked for as text, so 3 is found in 30 as well.
CountFound(expected, actual) == \E k \in 0..3 : actual \div (10^k) = expected

LinesOf(artifact) ==
  UNION {{page.lines[i] : i \in DOMAIN page.lines} : page \in
           {artifact.pages[k] : k \in DOMAIN artifact.pages}}

MeetsContract(artifact, number, template, accredited) ==
  /\ CountFound(ExpectedPages, Len(artifact.pages))
  /\ \A line \in {Line("number", number), Fixed("cover"), Fixed("results"),
                  Fixed("equipment"), Fixed("evidence"),
                  Fixed(IF accredited THEN "accredited" ELSE "notAccredited")}
                 \union {Versions(template)[i] : i \in 1..5} :
       line \in LinesOf(artifact) /\ Shown(line)
  /\ "simval" \in artifact.logos
  /\ ("danak" \in artifact.logos) <=> accredited
  /\ \A line \in LinesOf(artifact) : ~line.text.placeholder

(***************************************************************************)
(* Release                                                                 *)
(***************************************************************************)

\* The checks of _preview_for_release_rendering and of the contract.
Releasable(number, template, accredited) ==
  /\ Suitable
  /\ Event(template, accredited) \in previews
  /\ CanRender(accredited)
  /\ MeetsContract(Render(number, template, accredited), number, template, accredited)

Release(number, template, accredited) ==
  /\ jobState = "approved"
  /\ Releasable(number, template, accredited)
  /\ document' = Pages(number, template, accredited)
  /\ jobState' = "released"
  /\ UNCHANGED <<job, assets, points, rows, previews>>

CCInit ==
  /\ job \in Jobs
  /\ assets \in Assets
  /\ jobState = "windows_selected"
  /\ points = << >>
  /\ rows = << >>
  /\ previews = {}
  /\ document = << >>

CCNext ==
  \/ \E plan \in Plans : Calculate(plan)
  \/ \E template \in Templates, accredited \in BOOLEAN :
       GeneratePreview(template, accredited)
  \/ Approve
  \/ \E number \in Numbers, template \in Templates, accredited \in BOOLEAN :
       Release(number, template, accredited)

CCSpec == CCInit /\ [][CCNext]_CCVars

(***************************************************************************)
(* Properties                                                              *)
(***************************************************************************)

\* The values the code can hold: one row for each point, events of the rows
\* of the calculation, pages of lines.
CCTypeOK ==
  /\ job \in Jobs
  /\ assets \in Assets
  /\ jobState \in {"windows_selected", "calculated", "approved", "released"}
  /\ DOMAIN rows = DOMAIN points
  /\ \A i \in DOMAIN rows :
       /\ rows[i].calculated \in Nat
       /\ rows[i].reported \in Nat
       /\ rows[i].error \in Int
  /\ previews \subseteq
       [ids : {DOMAIN rows}, template : Templates, accredited : BOOLEAN]
  /\ (document # << >>) <=> (jobState = "released")

\* A row with its uncertainty before it was rounded, and the unit of the second
\* significant digit of that.
Floored(row) == Larger(row.calculated, row.floor)

LastDigit(row) == 10^Larger(Place(Floored(row)), 0)

\* The uncertainty a row reports is never below the CMC floor, shows no digit
\* beyond the second significant one of the floored uncertainty, and is within
\* half of that digit of it unless the floor demands the digit above.  The
\* result is within half of that digit of the one measured, and while the digit
\* is not above the units, is given to it (round_expanded_uncertainty,
\* round_result_to_uncertainty).
UncertaintyIsSound ==
  \A i \in DOMAIN rows :
    LET row == rows[i]
        u == Floored(row)
        q == LastDigit(row)
    IN /\ row.reported >= row.floor
       /\ row.reported % q = 0
       /\ \/ 2 * Magnitude(row.reported - u) <= q
          \/ row.reported \in u..(u + q - 1) /\ row.reported - q < row.floor
       /\ 2 * Magnitude(row.error - (row.indication - row.reference)) <= q
       /\ Place(u) <= Decimals => row.error % q = 0

\* What the test catalogue says of every uncertainty (RND-002), and the comment
\* of round_result_to_uncertainty: the result is rounded to the least
\* significant digit of U.  The code rounds it to whole units when that digit is
\* the tens or above.
ResultFollowsUncertainty ==
  \A i \in DOMAIN rows : rows[i].error % LastDigit(rows[i]) = 0

\* Of two points with the same readings, one whose contributions, coverage
\* factor and floor are all at least those of the other never reports less:
\* not when a term is left out for another, nor when rounding crosses a power
\* of ten (_temperature_contributions, _base_pressure_contributions).
UncertaintyGrows ==
  \A i, j \in DOMAIN points :
    LET p == points[i]  q == points[j]
    IN (/\ p.kind = q.kind /\ p.references = q.references
        /\ p.indications = q.indications /\ p.setup.paired = q.setup.paired
        /\ p.setup.factor = q.setup.factor /\ p.setup.coverage <= q.setup.coverage
        /\ Magnitude(p.setup.additional.sensitivity)
             <= Magnitude(q.setup.additional.sensitivity)
        /\ p.setup.additional.uncertainty <= q.setup.additional.uncertainty
        /\ \A part \in {"floor", "reference", "ambient", "resolution"} :
             p.setup[part] <= q.setup[part])
       => rows[i].reported <= rows[j].reported

\* A released document shows every row of the calculation once, in the order
\* of the ids, on adjacent pages of its own device that hold at most a page's
\* number of rows, between the cover and the equipment page
\* (_certificate_pages, _result_row_chunks).
EveryRowOnItsPage ==
  LET last == Len(document)
      results == 2..(last - 1)
      Follows(m, o, k, n) == k < m \/ (k = m /\ n < o)
  IN document # << >> =>
       /\ document[1].rows = << >> /\ document[last].rows = << >>
       /\ \A k \in results : Len(document[k].rows) \in 1..RowsPerPage
       /\ \A i \in DOMAIN rows :
            \E k \in results : \E n \in DOMAIN document[k].rows :
              document[k].rows[n] = i
       /\ \A k \in results : \A n \in DOMAIN document[k].rows :
            LET i == document[k].rows[n]
            IN i \in DOMAIN rows /\ rows[i].dut = document[k].dut
       /\ \A k, m \in results : document[k].dut = document[m].dut =>
            /\ \A n \in DOMAIN document[k].rows, o \in DOMAIN document[m].rows :
                 Follows(m, o, k, n) => document[k].rows[n] < document[m].rows[o]
            /\ \A n \in k..m : document[n].dut = document[k].dut

TidyText(label, text) ==
  text.plain /\ ~text.placeholder /\ LengthOf[label] + text.length <= LineLength

\* An approved job that was previewed under some template and mark can be
\* released under them, if both logo files are sound and none of its texts is
\* too long for a line, needs escaping or names a placeholder: the renderer
\* and the contract count pages alike and look for the lines that are there
\* (validate_certificate_template_contract).
PreviewedIsReleasable ==
  \A event \in previews, number \in Numbers :
    (/\ jobState = "approved"
     /\ assets.simval = "sound" /\ assets.danak = "sound"
     /\ TidyText("number", number) /\ TidyText("template", event.template)
     /\ \A label \in {"software", "engine", "constants", "budget"} :
          TidyText(label, job[label])
     /\ ~job.customer.placeholder)
    => Releasable(number, event.template, event.accredited)

================================================================================
