------------------------- MODULE MCCertificateContent --------------------------
(***************************************************************************)
(* Points whose uncertainties lie on both sides of a power of ten and of   *)
(* their floor, in pairs; and tables of up to five rows of three devices   *)
(* at two rows a page, which meet every case of the page breaks.           *)
(***************************************************************************)
EXTENDS CertificateContent

MCDuts == {"d1", "d2", "d3"}

Setup(floor, reference, ambient, resolution) ==
  [floor |-> floor, reference |-> reference, factor |-> 2, ambient |-> ambient,
   resolution |-> resolution, coverage |-> 2, absolute |-> TRUE, paired |-> FALSE,
   additional |-> [uncertainty |-> 0, sensitivity |-> 1]]

Point(dut, kind, references, indications, setup) ==
  [dut |-> dut, kind |-> kind, references |-> references,
   indications |-> indications, setup |-> setup]

Setups ==
  {Setup(f, r, a, d) : f \in {0, 96, 995, 1235}, r \in {0, 5, 95, 994, 1234}, a \in {0, 3},
                       d \in {0, 2}}
  \union {[Setup(0, 9, 0, 0) EXCEPT !.paired = TRUE],
          [Setup(0, 9, 3, 0) EXCEPT !.absolute = FALSE],
          [Setup(0, 95, 0, 0) EXCEPT !.additional.uncertainty = 7],
          [Setup(0, 95, 0, 0) EXCEPT !.additional = [uncertainty |-> 7, sensitivity |-> -3]]}

Kinds == {"temperature", "manual", "automatic"}

Good(kind) ==
  IF kind = "manual" THEN << <<1000>>, <<996, 1015>> >>
  ELSE << <<1000, 1000>>, <<1010, 1052>> >>

\* Too few readings of every kind.
TooFew(kind) == IF kind = "manual" THEN << <<1000>>, << >> >> ELSE << <<1000>>, <<1000>> >>

Pair(kind, readings, a, b) ==
  << Point("d1", kind, readings[1], readings[2], a),
     Point("d1", kind, readings[1], readings[2], b) >>

Marks == {Setup(96, 95, 3, 2), Setup(0, 95, 0, 2), Setup(995, 994, 0, 0),
          Setup(0, 9, 0, 0)}

Simple == Setup(5, 4, 0, 0)

Table(kind, duts) ==
  [i \in DOMAIN duts |-> Point(duts[i], kind, <<1000, 1000>>, <<1001, 1003>>, Simple)]

Tables == UNION {[1..n -> {"d1", "d2"}] : n \in 1..5}
            \union {<<"d3", "d1", "d1", "d2", "d1">>}

MCPlans ==
  {Pair(kind, Good(kind), a, b) : kind \in Kinds, a \in Setups, b \in Marks}
  \union {Pair(kind, TooFew(kind), Simple, Simple) : kind \in Kinds}
  \union {Table(kind, duts) : kind \in {"temperature", "automatic"}, duts \in Tables}

Short == [length |-> 5, plain |-> TRUE, placeholder |-> FALSE]
Long == [Short EXCEPT !.length = 60]
Escaped == [Short EXCEPT !.plain = FALSE]
Naming == [Short EXCEPT !.placeholder = TRUE]

Equipment(discipline, minimum) ==
  [status |-> "active", due |-> 2, discipline |-> discipline,
   minimum |-> minimum, maximum |-> 2000]

Prepared(discipline, equipment) ==
  [discipline |-> discipline, calibrationDate |-> 2, equipment |-> {equipment},
   software |-> Short, engine |-> Short, constants |-> Short, budget |-> Short,
   customer |-> Short]

Usual == {Prepared(d, Equipment(d, 0)) : d \in {"temperature", "pressure"}}

MCJobs ==
  Usual \union
  {[Prepared("pressure", Equipment("pressure", 0)) EXCEPT !.constants = Long],
   [Prepared("pressure", Equipment("pressure", 0)) EXCEPT !.budget = Escaped],
   [Prepared("temperature", Equipment("temperature", 0)) EXCEPT !.customer = Naming],
   [Prepared("temperature", Equipment("temperature", 0)) EXCEPT !.calibrationDate = 3],
   Prepared("temperature", Equipment("temperature", 1001)),
   Prepared("pressure", [Equipment("pressure", 0) EXCEPT !.status = "inactive"])}

MCTemplates == {Short, Long}

MCNumbers == {Short, Long}

MCAssets ==
  {[simval |-> "sound", danak |-> "sound"], [simval |-> "sound", danak |-> "absent"],
   [simval |-> "broken", danak |-> "sound"]}

================================================================================
