------------------------------- MODULE HttpApi -------------------------------
(***************************************************************************)
(* The endpoints of api/app.py: the permission each asks its service to    *)
(* check, the error classes it turns into 409, and what it checks before   *)
(* it opens a connection, hence before it knows who is asking.  Then the   *)
(* contract the browser page is given: the roles each operation is         *)
(* offered to.  Everything here is a constant.                             *)
(***************************************************************************)
EXTENDS WorkflowRules, TLC

ErrorClass ==
  {"authentication", "authorization", "service", "persistence", "identity",
   "validation", "calculation", "storage", "rendering"}

Precheck == {"none", "configuration", "discipline", "size", "file"}

Endpoint(action, caught) ==
  [action |-> action, caught |-> caught, before |-> {}]

EndpointAfter(before, action, caught) ==
  [action |-> action, caught |-> caught, before |-> before]

(***************************************************************************)
(* Endpoints                                                               *)
(***************************************************************************)

SessionEndpoints ==
  [ entra_session |-> EndpointAfter({"configuration"}, "none",
                                    {"service", "persistence"}),
    me            |-> Endpoint("none", {}) ]

UserEndpoints ==
  LET managing == {"service", "identity", "persistence"}
  IN [ list_users     |-> Endpoint("manage_users_and_roles", {}),
       create_user    |-> Endpoint("manage_users_and_roles", managing),
       change_roles   |-> Endpoint("manage_users_and_roles", managing),
       deactivate     |-> Endpoint("manage_users_and_roles", managing),
       revoke_session |-> Endpoint("manage_users_and_roles", managing) ]

NumberEndpoints ==
  [route \in {"create_sequence", "retire_sequence", "allocate_number"} |->
     Endpoint("manage_certificate_numbers", {"service", "persistence"})]

VersionEndpoints ==
  [ approve_constants |->
      Endpoint("approve_constants", {"service", "validation"}),
    approve_budget    |->
      Endpoint("approve_uncertainty_budget", {"service", "validation"}) ]

JobEndpoints ==
  [ create_job     |-> EndpointAfter({"discipline"}, "create_calibration_job",
                                     {"service", "validation"}),
    upload_file    |-> EndpointAfter({"configuration", "size"},
                                     "upload_import_file",
                                     {"service", "validation"}),
    review_imports |-> Endpoint("upload_import_file", {"service"}) ]

EntryEndpoints ==
  [ data_entry         |-> Endpoint("upload_import_file", {"service"}),
    irtd_rows          |-> Endpoint("enter_manual_readings", {"service"}),
    manual_pressure    |-> Endpoint("enter_manual_readings", {"service"}),
    automatic_pressure |-> EndpointAfter({"configuration"},
                                         "upload_import_file", {"service"}) ]

WindowEndpoints ==
  [ select_window    |-> Endpoint("select_measurement_windows",
                                  {"service", "validation"}),
    complete_windows |-> Endpoint("select_measurement_windows", {"service"}),
    calculate        |-> Endpoint("run_calculation",
                                  {"service", "calculation"}) ]

PressureEndpoints ==
  [ manual_point       |-> Endpoint("run_calculation", {"calculation"}),
    automatic_point    |-> Endpoint("run_calculation", {"calculation"}),
    calculate_pressure |-> Endpoint("run_calculation",
                                    {"calculation", "service"}) ]

ReviewEndpoints ==
  [ submit_review     |-> Endpoint("submit_technical_review", {"service"}),
    approve_technical |-> Endpoint("approve_technical_review", {"service"}),
    approve_qa        |-> Endpoint("approve_qa_release", {"service"}) ]

EvidenceEndpoints ==
  [ history  |-> Endpoint("view_released_certificate", {}),
    artifact |-> EndpointAfter({"configuration"}, "view_released_certificate",
                               {"service", "storage"}) ]

CertificateEndpoints ==
  [ metadata  |-> Endpoint("edit_draft_job_metadata", {"service"}),
    equipment |-> Endpoint("select_reference_equipment",
                           {"service", "validation"}),
    preview   |-> Endpoint("preview_certificate", {"service"}) ]

PreviewPdfEndpoints ==
  [ preview_pdf |-> Endpoint("preview_certificate", {"service", "rendering"}) ]

ReleaseEndpoints ==
  LET failures == {"service", "storage"}
  IN [ release          |-> EndpointAfter({"configuration", "file"},
                                          "release_certificate", failures),
       rendered_release |-> EndpointAfter({"configuration"},
                                          "release_certificate", failures) ]

AllocatedReleaseEndpoints ==
  [ allocated_release |-> EndpointAfter({"configuration"},
                            "release_certificate", {"service", "storage"}),
    revision          |-> Endpoint("revise_released_certificate",
                                   {"service"}) ]

Endpoints ==
  SessionEndpoints @@ UserEndpoints @@ NumberEndpoints @@ VersionEndpoints
  @@ JobEndpoints @@ EntryEndpoints @@ WindowEndpoints @@ PressureEndpoints
  @@ ReviewEndpoints @@ EvidenceEndpoints @@ CertificateEndpoints
  @@ PreviewPdfEndpoints @@ ReleaseEndpoints @@ AllocatedReleaseEndpoints

(***************************************************************************)
(* Answers                                                                 *)
(***************************************************************************)

\* The status of an answer: an error class an endpoint does not name leaves
\* the handler and is answered 500.
Status(route, error) ==
  IF error = "none" THEN 200
  ELSE IF error \in Precheck THEN IF error = "size" THEN 413 ELSE 409
  ELSE IF error = "authentication" THEN 401
  ELSE IF error = "authorization" THEN 403
  ELSE IF error \in Endpoints[route].caught THEN 409
  ELSE 500

\* The roles of a session's user decide a permission.
Permitted(roles, route) ==
  \/ Endpoints[route].action = "none"
  \/ \E role \in roles : IsAllowed(role, Endpoints[route].action)

(***************************************************************************)
(* The contract of the browser page: which roles an operation is shown to  *)
(***************************************************************************)

Offer(roles, routes) == [route \in routes |-> roles]

Preparers == {"operator", "technical_reviewer", "admin"}

Releasers == {"qa_approver", "admin"}

AccountOffers ==
  Offer(Role, {"me"})
  @@ Offer({"admin"}, DOMAIN UserEndpoints \cup DOMAIN NumberEndpoints)
  @@ Offer(Preparers, {"create_job"})
  @@ Offer(Releasers, DOMAIN VersionEndpoints)

MeasurementOffers ==
  Offer(Preparers,
        {"upload_file", "review_imports", "submit_review"}
        \cup DOMAIN EntryEndpoints \cup DOMAIN WindowEndpoints
        \cup DOMAIN PressureEndpoints)
  @@ Offer({"technical_reviewer", "admin"}, {"approve_technical"})
  @@ Offer(Releasers, {"approve_qa"})

CertificateOffers ==
  Offer({"operator", "admin"}, {"metadata", "equipment"})
  @@ Offer(Role \ {"read_only"}, {"preview", "preview_pdf"})
  @@ Offer(Releasers, {"rendered_release", "allocated_release", "revision"})
  @@ Offer(Role, {"history", "artifact"})

Offers == AccountOffers @@ MeasurementOffers @@ CertificateOffers

\* No role is offered an operation its permissions refuse.
ASSUME ContractAssumption ==
  \A route \in DOMAIN Offers : \A role \in Offers[route] :
    Permitted({role}, route)
==============================================================================
